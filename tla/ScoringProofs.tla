----------------------------- MODULE ScoringProofs -----------------------------
(***************************************************************************)
(* What the HITL table guarantees for every table the Risk Agent may load, *)
(* and for every score: uncertainty only raises the level, and what        *)
(* Detection calls high needs a human, unless Detection rewrote the row    *)
(* since the Risk Agent read it.                                           *)
(***************************************************************************)
EXTENDS Scoring, TLAPS

-----------------------------------------------------------------------------
(* The level *)

\* A set of levels has a highest one.
LEMMA HighestIsHighest ==
  ASSUME NEW L \in SUBSET Level, L # {}
  PROVE  highest(L) \in L /\ \A m \in L : m <= highest(L)
<1>1. \E l \in L : \A m \in L : m <= l
  <2>1. CASE 3 \in L
    BY <2>1 DEF Level
  <2>2. CASE 3 \notin L /\ 2 \in L
    BY <2>2 DEF Level
  <2>3. CASE 3 \notin L /\ 2 \notin L
    <3>1. \A l \in L : l = 1
      BY <2>3 DEF Level
    <3> QED
      BY <3>1
  <2> QED
    BY <2>1, <2>2, <2>3
<1> QED
  BY <1>1 DEF highest

\* The entries of the rules are rules.
LEMMA RulesAreRules ==
  ASSUME NEW k \in DOMAIN Config.rules
  PROVE  Config.rules[k].below \in Int /\ Config.rules[k].minimum \in Level
<1>1. \A S : \A q \in Seq(S) : \A j \in DOMAIN q : q[j] \in S
  OBVIOUS
<1>2. Config.rules \in Seq([below : Int, minimum : Level])
  BY ConfigAssumption
<1>3. Config.rules[k] \in [below : Int, minimum : Level]
  BY <1>1, <1>2
<1> QED
  BY <1>3

\* The confidence that is compared with the table is a number.
LEMMA ConfidenceUsed ==
  ASSUME NEW c \in Confidence \cup {Missing}
  PROVE  confidence_used(c) \in Confidence
  BY ConfigAssumption DEF confidence_used, Confidence, Missing

\* hitl_level_for: a set of levels is asked for, the severity's among them.
LEMMA DemandsAreLevels ==
  ASSUME NEW s \in Severity, NEW c \in Confidence \cup {Missing}
  PROVE  /\ demanded_levels(s, c) \in SUBSET Level
         /\ Config.base[s] \in demanded_levels(s, c)
<1>1. Config.base[s] \in Level /\ Config.safety.minimum \in Level
  BY ConfigAssumption
<1>2. \A k \in DOMAIN Config.rules : Config.rules[k].minimum \in Level
  BY RulesAreRules
<1>3. 1 \in Level
  BY DEF Level
<1> QED
  BY <1>1, <1>2, <1>3 DEF demanded_levels

\* What is asked for at some confidence is asked for at every lower one.
LEMMA DemandsGrow ==
  ASSUME NEW s \in Severity,
         NEW c \in Confidence \cup {Missing}, NEW d \in Confidence \cup {Missing}, c <= d
  PROVE  demanded_levels(s, d) \subseteq demanded_levels(s, c)
<1>1. confidence_used(c) \in Int /\ confidence_used(d) \in Int
  BY ConfidenceUsed DEF Confidence
<1>2. confidence_used(c) <= confidence_used(d)
  BY CautionAssumption DEF confidence_used, Confidence, Missing
<1>3. \A k \in DOMAIN Config.rules : Config.rules[k].below \in Int
  BY RulesAreRules
<1>4. Config.safety.below \in Int
  BY ConfigAssumption
<1>5. \A k \in DOMAIN Config.rules :
        confidence_used(d) < Config.rules[k].below => confidence_used(c) < Config.rules[k].below
  BY <1>1, <1>2, <1>3
<1>6. confidence_used(d) < Config.safety.below => confidence_used(c) < Config.safety.below
  BY <1>1, <1>2, <1>4
<1> QED
  BY <1>5, <1>6 DEF demanded_levels

\* hitl_level_for yields a level, and at least the severity's.
LEMMA LevelAtLeastBase ==
  ASSUME NEW s \in Severity, NEW c \in Confidence \cup {Missing}
  PROVE  hitl_level_for(s, c) \in Level /\ hitl_level_for(s, c) >= Config.base[s]
  BY DemandsAreLevels, HighestIsHighest DEF hitl_level_for

\* Less confidence never lowers the level.
LEMMA LevelGrowsWithDoubt ==
  ASSUME NEW s \in Severity,
         NEW c \in Confidence \cup {Missing}, NEW d \in Confidence \cup {Missing}, c <= d
  PROVE  hitl_level_for(s, c) >= hitl_level_for(s, d)
<1>1. hitl_level_for(s, d) \in demanded_levels(s, d)
  BY DemandsAreLevels, HighestIsHighest DEF hitl_level_for
<1>2. hitl_level_for(s, d) \in demanded_levels(s, c)
  BY <1>1, DemandsGrow
<1> QED
  BY <1>2, DemandsAreLevels, HighestIsHighest DEF hitl_level_for

-----------------------------------------------------------------------------
(* Sums *)

\* The body of the loop of sum, and what module FoldProofs says of it.
plus(acc, x) == acc + x
Sums == INSTANCE FoldProofs WITH turn <- plus, base <- 0

\* sum is the last of the partial sums.
LEMMA SumIsLastPartialSum ==
  ASSUME NEW n \in Nat, NEW w \in [1..n -> Int]
  PROVE  \E p \in [0..n -> Int] :
           p[0] = 0 /\ (\A k \in 1..n : p[k] = p[k - 1] + w[k]) /\ sum(w) = p[n]
<1>1. PICK p : /\ p = [k \in 0..n |-> p[k]]
               /\ p[0] = 0
               /\ \A k \in 1..n : p[k] = plus(p[k - 1], w[k])
               /\ Sums!FoldLeft(plus, 0, w) = p[n]
  BY Sums!FoldIsALoop
<1>2. sum(w) = Sums!FoldLeft(plus, 0, w)
  BY DEF sum, plus, FoldLeft, MapThenFoldSet, Max,
     Sums!FoldLeft, Sums!MapThenFoldSet, Sums!Max
<1>3. \A k \in 1..n : p[k] = p[k - 1] + w[k]
  BY <1>1 DEF plus
<1>4. \A k \in 0..n : p[k] \in Int
  <2> DEFINE T == {k \in 0..n : p[k] \notin Int}
  <2> SUFFICES ASSUME T # {} PROVE FALSE
    OBVIOUS
  <2>1. PICK k \in T : \A m \in T : k <= m
    <3>1. T \in SUBSET Nat
      OBVIOUS
    <3> HIDE DEF T
    <3> QED
      BY <3>1, Sums!LeastNumber
  <2>2. k # 0
    BY <1>1
  <2>3. k \in 1..n /\ k - 1 \in 0..n /\ k - 1 \notin T
    BY <2>1, <2>2
  <2> QED
    BY <1>3, <2>3
<1>5. p \in [0..n -> Int]
  BY <1>1, <1>4
<1> QED
  BY <1>1, <1>2, <1>3, <1>5

\* The inequality of Cauchy and Schwarz, one value at a time: m values with
\* sum S and sum of squares Q, and one more; how far that one is off the mean
\* is bounded by the spread.
LEMMA OneMoreValue ==
  ASSUME NEW m \in Nat, NEW Q \in Nat, NEW S \in Int, NEW y \in Int, S * S <= m * Q
  PROVE  LET v == (m + 1) * (Q + y * y) - (S + y) * (S + y)
             d == (m + 1) * y - (S + y)
         IN  v \in Nat /\ d * d \in Nat /\ d * d <= m * v
<1> DEFINE v == (m + 1) * (Q + y * y) - (S + y) * (S + y)
           d == (m + 1) * y - (S + y)
<1>1. v \in Int /\ d \in Int /\ d * d \in Nat
  <2>1. \A i \in Int : i * i \in Nat
    OBVIOUS
  <2>2. d \in Int /\ v \in Int
    OBVIOUS
  <2> HIDE DEF d, v
  <2> QED
    BY <2>1, <2>2
<1>2. m * v = (m + 1) * (m * Q - S * S) + d * d
  OBVIOUS
<1>3. (m + 1) * (m * Q - S * S) \in Nat
  <2>1. \A i, j \in Nat : i * j \in Nat
    OBVIOUS
  <2>2. m * Q - S * S \in Nat /\ m + 1 \in Nat
    OBVIOUS
  <2> QED
    BY <2>1, <2>2
<1>4. v \in Nat
  <2>1. CASE m = 0
    <3>1. \A i \in Int : i * i <= 0 => i = 0
      OBVIOUS
    <3>2. S = 0
      BY <2>1, <3>1
    <3>3. v = Q
      BY <2>1, <3>2
    <3> QED
      BY <3>3
  <2>2. CASE m # 0
    <3>1. m * v >= 0
      BY <1>1, <1>2, <1>3
    <3>2. \A i \in Nat \ {0}, j \in Int : i * j >= 0 => j >= 0
      OBVIOUS
    <3> HIDE DEF v
    <3> QED
      BY <1>1, <2>2, <3>1, <3>2
  <2> QED
    BY <2>1, <2>2
<1>5. d * d <= m * v
  <2> HIDE DEF v, d
  <2> QED
    BY <1>1, <1>2, <1>3, <1>4
<1> QED
  BY <1>1, <1>4, <1>5

\* compute_baseline and score_reading: the variance of a window is not
\* negative, and a value of the window is within its bound of the mean.
LEMMA FirstIsWithinBounds ==
  ASSUME NEW w \in Seq(Int), Len(w) # 0
  PROVE  /\ spread(w) \in Nat /\ far(w[1], w) \in Nat
         /\ far(w[1], w) <= (Len(w) - 1) * spread(w)
<1> DEFINE n == Len(w)
           x == w[1]
           sq == [k \in DOMAIN w |-> w[k] * w[k]]
<1>1. n \in Nat \ {0} /\ w \in [1..n -> Int] /\ x \in Int /\ DOMAIN w = 1..n
  OBVIOUS
<1>2. sq \in [1..n -> Int] /\ \A k \in 1..n : sq[k] = w[k] * w[k]
  BY <1>1
<1> HIDE DEF sq
<1>3. PICK p \in [0..n -> Int] :
        p[0] = 0 /\ (\A k \in 1..n : p[k] = p[k - 1] + w[k]) /\ sum(w) = p[n]
  BY <1>1, SumIsLastPartialSum
<1>4. PICK q \in [0..n -> Int] :
        q[0] = 0 /\ (\A k \in 1..n : q[k] = q[k - 1] + sq[k]) /\ sum(sq) = q[n]
  BY <1>1, <1>2, SumIsLastPartialSum
<1>5. square_sum(w) = q[n]
  BY <1>4 DEF square_sum, sq
<1> HIDE DEF n, x
<1>6. /\ \A k \in 0..n : p[k] \in Int /\ q[k] \in Int
      /\ \A k \in 1..n : k - 1 \in 0..n /\ k \in 0..n
      /\ x * x \in Int
  BY <1>1
<1> DEFINE S(k) == p[k] - x
           Q(k) == q[k] - x * x
           Bounded(k) == Q(k) \in Nat /\ S(k) * S(k) <= (k - 1) * Q(k)
<1>7. \A k \in 1..n : Bounded(k)
  <2> DEFINE T == {k \in 1..n : ~ Bounded(k)}
  <2> SUFFICES ASSUME T # {} PROVE FALSE
    OBVIOUS
  <2>1. PICK k \in T : \A j \in T : k <= j
    <3>1. T \in SUBSET Nat
      BY <1>1
    <3> HIDE DEF T
    <3> QED
      BY <3>1, Sums!LeastNumber
  <2>2. k # 1
    <3>1. p[1] = x /\ q[1] = x * x
      BY <1>1, <1>2, <1>3, <1>4 DEF x
    <3>2. S(1) = 0 /\ Q(1) = 0
      BY <1>1, <3>1
    <3>3. Bounded(1)
      BY ONLY <3>2
    <3> HIDE DEF Bounded
    <3> QED
      BY <2>1, <3>3
  <2>3. k \in 1..n /\ k - 1 \in 1..n /\ k - 1 \notin T
    <3> HIDE DEF Bounded
    <3> QED
      BY <1>1, <2>1, <2>2
  <2>4. w[k] \in Int /\ p[k] = p[k - 1] + w[k] /\ q[k] = q[k - 1] + w[k] * w[k]
    BY <1>1, <1>2, <1>3, <1>4, <2>3
  <2>5. p[k - 1] \in Int /\ q[k - 1] \in Int /\ p[k] \in Int /\ q[k] \in Int
    BY ONLY <1>6, <2>3
  <2>6. /\ S(k) = S(k - 1) + w[k] /\ Q(k) = Q(k - 1) + w[k] * w[k]
        /\ S(k - 1) \in Int /\ x \in Int
    <3>1. \A i, j, y \in Int : (i + y) - j = (i - j) + y
      OBVIOUS
    <3>2. w[k] * w[k] \in Int
      BY <2>4
    <3>3. S(k) = S(k - 1) + w[k]
      BY ONLY <1>1, <2>4, <2>5, <3>1
    <3>4. (q[k - 1] + w[k] * w[k]) - x * x = (q[k - 1] - x * x) + w[k] * w[k]
      BY ONLY <1>6, <2>5, <3>1, <3>2
    <3> QED
      BY <1>1, <2>4, <2>5, <3>3, <3>4
  <2>7. Q(k - 1) \in Nat /\ S(k - 1) * S(k - 1) <= (k - 2) * Q(k - 1)
    BY <1>1, <2>3
  <2> HIDE DEF S, Q
  <2>8. k - 2 \in Nat
    BY <1>1, <2>2, <2>3
  <2>9. (k - 2 + 1) * (Q(k - 1) + w[k] * w[k]) - (S(k - 1) + w[k]) * (S(k - 1) + w[k]) \in Nat
    BY <2>4, <2>6, <2>7, <2>8, OneMoreValue
  <2>10. Q(k) \in Nat
    <3>1. \A i \in Int : i * i \in Nat
      BY ONLY TRUE
    <3>2. w[k] * w[k] \in Nat
      BY ONLY <2>4, <3>1
    <3> QED
      BY ONLY <2>6, <2>7, <3>2
  <2>11. (k - 1) * Q(k) - S(k) * S(k) \in Nat
    BY <2>3, <2>6, <2>9
  <2>12. S(k) * S(k) \in Int /\ (k - 1) * Q(k) \in Int
    <3>1. \A i, j \in Int : i * j \in Int
      BY ONLY TRUE
    <3>2. S(k) \in Int /\ k - 1 \in Int
      BY <2>4, <2>6, <2>3
    <3> QED
      BY <2>10, <3>1, <3>2
  <2>13. S(k) * S(k) <= (k - 1) * Q(k)
    BY <2>11, <2>12
  <2> QED
    BY <2>1, <2>10, <2>13
<1>8. n \in 1..n /\ n - 1 \in Nat /\ p[n] \in Int /\ q[n] \in Int
  BY <1>1, <1>6
<1>9. Bounded(n) /\ S(n) \in Int /\ p[n] = S(n) + x /\ q[n] = Q(n) + x * x
  <2>1. Bounded(n)
    BY <1>7, <1>8
  <2>2. S(n) \in Int /\ p[n] = S(n) + x /\ q[n] = Q(n) + x * x
    BY ONLY <1>1, <1>8, <1>6
  <2> QED
    BY <2>1, <2>2
<1>10. /\ spread(w) = (n - 1 + 1) * (Q(n) + x * x) - (S(n) + x) * (S(n) + x)
      /\ far(x, w) = ((n - 1 + 1) * x - (S(n) + x)) * ((n - 1 + 1) * x - (S(n) + x))
  <2>1. n - 1 + 1 = n
    BY <1>8, <1>1
  <2> QED
    BY <2>1, <1>3, <1>5, <1>9 DEF spread, far, n
<1> HIDE DEF S, Q
<1>11. Q(n) \in Nat /\ S(n) \in Int /\ S(n) * S(n) <= (n - 1) * Q(n) /\ x \in Int
  BY <1>1, <1>9
<1>12. spread(w) \in Nat /\ far(x, w) \in Nat /\ far(x, w) <= (n - 1) * spread(w)
  BY <1>8, <1>10, <1>11, OneMoreValue
<1> QED
  BY <1>12 DEF n, x

-----------------------------------------------------------------------------
(* Readings, scores and the incident's severity *)

\* Each sensor's list in Redis is a window of its values.
WindowsAreBounded ==
  /\ baseline \in [Sensor -> Seq(Value)]
  /\ \A s \in Sensor : Len(baseline[s]) <= WindowSize

\* The incident's severity is that of the scores in its summary, which are
\* scores of readings.
SeverityIsOfSummary ==
  /\ scores_of(summary) \subseteq Score
  /\ severity \in {"none", severity_from_score(scores_of(summary))}

ScoringInv == WindowsAreBounded /\ SeverityIsOfSummary /\ DriftIsBounded

\* LPUSH and LTRIM leave a window with the new value first.
LEMMA PushedIsAWindow ==
  ASSUME NEW list \in Seq(Value), Len(list) <= WindowSize, NEW x \in Value
  PROVE  /\ pushed(list, x) \in Seq(Value)
         /\ Len(pushed(list, x)) \in 1..WindowSize /\ pushed(list, x)[1] = x
<1> DEFINE n == IF Len(list) < WindowSize THEN Len(list) + 1 ELSE WindowSize
           long == <<x>> \o list
<1>1. WindowSize \in Nat \ {0} /\ Len(list) \in Nat
  BY ScoringAssumption
<1>2. n \in 1..WindowSize /\ n <= Len(list) + 1
  BY <1>1
<1>3. long \in Seq(Value) /\ Len(long) = Len(list) + 1 /\ long[1] = x
  OBVIOUS
<1> HIDE DEF n, long
<1>4. /\ SubSeq(long, 1, n) \in Seq(Value) /\ Len(SubSeq(long, 1, n)) = n
      /\ SubSeq(long, 1, n)[1] = long[1]
  BY <1>1, <1>2, <1>3
<1> QED
  BY <1>2, <1>3, <1>4 DEF pushed, n, long

\* score_reading yields a score, within the bound of its window.
LEMMA ScoreIsBounded ==
  ASSUME NEW w \in Seq(Value), Len(w) \in 1..WindowSize
  PROVE  /\ score_reading(w[1], w) \in Score
         /\ score_reading(w[1], w).far <= (WindowSize - 1) * score_reading(w[1], w).spread
<1>1. w \in Seq(Int) /\ Len(w) # 0 /\ w[1] \in Int /\ Len(w) \in Nat /\ WindowSize \in Nat
  <2>1. WindowSize \in Nat /\ Value \subseteq Int
    BY ScoringAssumption
  <2>2. Len(w) \in Nat /\ Len(w) # 0
    OBVIOUS
  <2>3. w \in [1..Len(w) -> Value]
    OBVIOUS
  <2>4. w \in [1..Len(w) -> Int] /\ 1 \in 1..Len(w)
    <3>1. \A n : \A v \in [1..n -> Value] : v \in [1..n -> Int]
      BY <2>1
    <3>2. 1 \in 1..Len(w)
      BY <2>2
    <3> QED
      BY <2>3, <3>1, <3>2
  <2>5. \A n \in Nat : \A v \in [1..n -> Int] : v \in Seq(Int)
    OBVIOUS
  <2> QED
    BY <2>1, <2>2, <2>4, <2>5
<1>2. overshoot(w[1]) \in Nat
  BY <1>1, ScoringAssumption DEF overshoot
<1>3. /\ spread(w) \in Nat /\ far(w[1], w) \in Nat
      /\ far(w[1], w) <= (Len(w) - 1) * spread(w)
  BY <1>1, FirstIsWithinBounds
<1>4. (Len(w) - 1) * spread(w) <= (WindowSize - 1) * spread(w)
  <2>1. \A i, j, k \in Nat : i <= j => i * k <= j * k
    OBVIOUS
  <2>2. Len(w) - 1 \in Nat /\ WindowSize - 1 \in Nat /\ Len(w) - 1 <= WindowSize - 1
    BY <1>1
  <2> QED
    BY <1>3, <2>1, <2>2
<1>5. far(w[1], w) <= (WindowSize - 1) * spread(w)
  <2>1. \A i, j \in Int : i * j \in Int
    OBVIOUS
  <2>2. (Len(w) - 1) * spread(w) \in Int /\ (WindowSize - 1) * spread(w) \in Int
    BY <1>1, <1>3, <2>1
  <2> QED
    BY <1>3, <1>4, <2>2
<1> QED
  BY <1>2, <1>3, <1>5 DEF score_reading, Score

\* _process_reading: the score is bounded, and an incident it writes has the
\* severity of the summary written with it.
LEMMA ReadingKeepsScoringInv ==
  ASSUME ScoringInv, NEW s \in Sensor, NEW x \in Value, process_reading(s, x)
  PROVE  ScoringInv'
<1> DEFINE w == pushed(baseline[s], x)
           sc == score_reading(x, w)
<1>1. /\ baseline' = [baseline EXCEPT ![s] = w]
      /\ latest' = [sensor |-> s, score |-> sc]
      /\ \/ /\ \E cluster \in SUBSET (DOMAIN summary \ {s}) :
                 summary' = [t \in cluster \cup {s} |-> IF t = s THEN sc ELSE summary[t]]
            /\ severity' = severity_from_score(scores_of(summary'))
         \/ UNCHANGED <<summary, severity>>
  BY DEF process_reading, scored_against
<1>2. w \in Seq(Value) /\ Len(w) \in 1..WindowSize /\ w[1] = x
  BY PushedIsAWindow DEF ScoringInv, WindowsAreBounded
<1> HIDE DEF w
<1>3. sc \in Score /\ sc.far <= (WindowSize - 1) * sc.spread
  BY <1>2, ScoreIsBounded
<1> HIDE DEF sc
<1>4. WindowsAreBounded'
  <2>1. Len(w) <= WindowSize
    BY <1>2, ScoringAssumption
  <2> QED
    BY <1>1, <1>2, <2>1 DEF ScoringInv, WindowsAreBounded
<1>5. SeverityIsOfSummary'
  <2>1. CASE UNCHANGED <<summary, severity>>
    BY <2>1 DEF ScoringInv, SeverityIsOfSummary
  <2>2. CASE /\ \E cluster \in SUBSET (DOMAIN summary \ {s}) :
                  summary' = [t \in cluster \cup {s} |-> IF t = s THEN sc ELSE summary[t]]
             /\ severity' = severity_from_score(scores_of(summary'))
    <3>1. scores_of(summary') \subseteq Score
      BY <1>3, <2>2 DEF ScoringInv, SeverityIsOfSummary, scores_of
    <3> QED
      BY <2>2, <3>1 DEF SeverityIsOfSummary
  <2> QED
    BY <1>1, <2>1, <2>2
<1>6. DriftIsBounded'
  BY <1>1, <1>3 DEF DriftIsBounded
<1> QED
  BY <1>4, <1>5, <1>6 DEF ScoringInv

\* The invariant holds in every reachable state.
LEMMA ScoringHolds == Spec => []ScoringInv
<1>1. Init => ScoringInv
  <2> SUFFICES ASSUME Init PROVE ScoringInv
    OBVIOUS
  <2>1. WindowsAreBounded
    BY ScoringAssumption DEF Init, WindowsAreBounded
  <2>2. SeverityIsOfSummary
    BY DEF Init, SeverityIsOfSummary, scores_of
  <2> QED
    BY <2>1, <2>2 DEF Init, ScoringInv, DriftIsBounded
<1>2. ScoringInv /\ [Next]_vars => ScoringInv'
  <2> SUFFICES ASSUME ScoringInv, [Next]_vars PROVE ScoringInv'
    OBVIOUS
  <2>1. ASSUME NEW s \in Sensor, baseline_expires(s)
        PROVE  ScoringInv'
    <3>1. /\ baseline' = [baseline EXCEPT ![s] = <<>>] /\ UNCHANGED <<latest, summary, severity>>
      BY <2>1 DEF baseline_expires
    <3>2. WindowsAreBounded'
      BY <3>1, ScoringAssumption DEF ScoringInv, WindowsAreBounded
    <3> QED
      BY <3>1, <3>2 DEF ScoringInv, SeverityIsOfSummary, DriftIsBounded
  <2>2. CASE UNCHANGED detectionVars
    BY <2>2
       DEF detectionVars, ScoringInv, WindowsAreBounded, SeverityIsOfSummary, DriftIsBounded
  <2>3. ASSUME NEW c, risk_read(c) \/ risk_save \/ risk_raises
        PROVE  UNCHANGED detectionVars
    BY <2>3 DEF risk_read, risk_save, risk_raises
  <2> QED
    BY <2>1, <2>2, <2>3, ReadingKeepsScoringInv DEF Next, vars
<1> QED
  BY <1>1, <1>2, PTL DEF Spec

-----------------------------------------------------------------------------
(* Theorems *)

\* What the Risk Agent computes from the summary it has read.
IsAssessment(a) ==
  /\ scores_of(a.of) \subseteq Score
  /\ a.severity = severity_from(scores_of(a.of))
  /\ a.confidence \in Confidence \cup {Missing}
  /\ a.level = hitl_level_for(a.severity, a.confidence)

\* What is on its way and what is in the row was made by the table, from the
\* scores of one summary and a confidence.
AssessmentInv ==
  /\ assessing # None => IsAssessment(assessing)
  /\ assessment # None => IsAssessment(assessment)

\* The Risk Agent's columns are what the table says of the summary it read,
\* whatever Detection writes before the Risk Agent does.
THEOREM AssessmentInvariant == Spec => []AssessmentInv
<1>1. Init => AssessmentInv
  BY DEF Init, AssessmentInv
<1>2. ScoringInv /\ AssessmentInv /\ [Next]_vars => AssessmentInv'
  <2> SUFFICES ASSUME ScoringInv, AssessmentInv, [Next]_vars PROVE AssessmentInv'
    OBVIOUS
  <2>1. CASE UNCHANGED <<assessing, assessment>>
    BY <2>1 DEF AssessmentInv, IsAssessment
  <2>2. ASSUME NEW c \in Confidences \cup {Missing}, risk_read(c)
        PROVE  AssessmentInv'
    <3> DEFINE risk == severity_from(scores_of(summary))
               a == [severity |-> risk, confidence |-> c,
                     level |-> hitl_level_for(risk, c), of |-> summary]
    <3>1. assessing' = a /\ UNCHANGED assessment
      BY <2>2 DEF risk_read
    <3>2. c \in Confidence \cup {Missing}
      BY <2>2, ScoringAssumption
    <3>3. IsAssessment(a)
      BY <3>2 DEF ScoringInv, SeverityIsOfSummary, IsAssessment
    <3> HIDE DEF a
    <3> QED
      BY <3>1, <3>3 DEF AssessmentInv, IsAssessment
  <2>3. CASE risk_save
    BY <2>3 DEF risk_save, AssessmentInv, IsAssessment
  <2>4. CASE risk_raises
    BY <2>4 DEF risk_raises, AssessmentInv, IsAssessment
  <2>5. ASSUME NEW s \in Sensor, NEW x \in Value, process_reading(s, x)
        PROVE  UNCHANGED <<assessing, assessment>>
    BY <2>5 DEF process_reading
  <2>6. ASSUME NEW s \in Sensor, baseline_expires(s)
        PROVE  UNCHANGED <<assessing, assessment>>
    BY <2>6 DEF baseline_expires
  <2> QED
    BY <2>1, <2>2, <2>3, <2>4, <2>5, <2>6 DEF Next, vars
<1> QED
  BY <1>1, <1>2, ScoringHolds, PTL DEF Spec

\* agents/risk/agent.py hitl_level_for: for every table, less confidence, or
\* none, would not have lowered the level of any assessment.
THEOREM DoubtNeverLowers == Spec => []UncertaintyOnlyRaises
<1>1. AssessmentInv => UncertaintyOnlyRaises
  <2> SUFFICES ASSUME AssessmentInv, assessment # None PROVE UncertaintyOnlyRaises
    BY DEF UncertaintyOnlyRaises
  <2>1. IsAssessment(assessment)
    BY DEF AssessmentInv
  <2>2. assessment.severity \in Severity
    BY <2>1 DEF IsAssessment, severity_from, severity_on, Severity
  <2> QED
    BY <2>1, <2>2, LevelGrowsWithDoubt DEF IsAssessment, UncertaintyOnlyRaises
<1> QED
  BY <1>1, AssessmentInvariant, PTL

\* A factor of at most 1000 stretches a squared distance by at most its square.
LEMMA SquaredBound ==
  ASSUME NEW q \in Nat, q <= 1000, NEW v \in Nat, NEW d \in Nat, d >= 100 * v
  PROVE  100 * 100 * d >= (q * q) * v
<1>1. q * q \in Nat /\ q * q <= 1000000
  OBVIOUS
<1>2. \A r \in Nat : r <= 1000000 => r * v <= 1000000 * v
  OBVIOUS
<1> QED
  BY <1>1, <1>2

\* severity_from_score against RiskAgent._severity_from and the table: whatever
\* the scores and the confidence, Detection's "high" gets level 2 or 3.
THEOREM HighNeedsAHuman ==
  ASSUME NEW scores \in SUBSET Score, NEW c \in Confidence \cup {Missing},
         severity_from_score(scores) = "high"
  PROVE  hitl_level_for(severity_from(scores), c) >= 2
<1> DEFINE m == RiskScale.static_margin_high
           z == RiskScale.drift_z_high
           p == RiskScale.medium_percent
<1>1. m \in Nat /\ z \in Nat /\ p \in Nat /\ p * m <= 5000 /\ p * z <= 1000
  BY ScoringAssumption, ScalesAgree
<1>2. band \in Nat
  BY ScoringAssumption DEF band
<1>3. PICK sc \in scores : reaches(sc, 50, 10, 100)
  BY DEF severity_from_score, severity_on
<1>4. sc.overshoot \in Nat /\ sc.far \in Nat /\ sc.spread \in Nat
  BY DEF Score
<1>5. reaches(sc, m, z, p)
  <2>1. CASE sc.overshoot > 0 /\ 100 * 100 * sc.overshoot >= 100 * 50 * band
    <3>1. 2 * sc.overshoot >= band
      BY <2>1, <1>2, <1>4
    <3>2. (p * m) * band <= 5000 * band
      BY <1>1, <1>2
    <3>3. 100 * 100 * sc.overshoot >= p * m * band
      BY <3>1, <3>2, <1>1, <1>2, <1>4
    <3> QED
      BY <2>1, <3>3 DEF reaches
  <2>2. CASE sc.spread > 0 /\ 100 * 100 * sc.far >= 100 * 10 * 100 * 10 * sc.spread
    <3>1. sc.far >= 100 * sc.spread
      BY <2>2, <1>4
    <3>2. p * z \in Nat /\ p * z <= 1000
      BY <1>1
    <3>3. 100 * 100 * sc.far >= ((p * z) * (p * z)) * sc.spread
      BY <3>1, <3>2, <1>4, SquaredBound
    <3>4. p * z * p * z * sc.spread = ((p * z) * (p * z)) * sc.spread
      BY <1>1, <1>4
    <3>5. 100 * 100 * sc.far >= p * z * p * z * sc.spread
      <4> HIDE DEF p, z
      <4> QED
        BY ONLY <3>3, <3>4
    <3> QED
      BY <2>2, <3>5 DEF reaches
  <2> QED
    BY <1>3, <2>1, <2>2 DEF reaches
<1>6. severity_from(scores) \in {"medium", "high"}
  BY <1>5 DEF severity_from, severity_on
<1>7. severity_from(scores) \in Severity /\ Config.base[severity_from(scores)] >= 2
  BY <1>6, CautionAssumption DEF Severity
<1>8. Config.base[severity_from(scores)] \in Level
  BY <1>7, ConfigAssumption
<1> QED
  BY <1>7, <1>8, LevelAtLeastBase DEF Level

\* score_reading: the reading is in the window it is scored against, so for
\* every window size and all values its squared distance from the mean is at
\* most the variance times the window's length less one.
THEOREM DriftStaysBounded == Spec => []DriftIsBounded
<1>1. ScoringInv => DriftIsBounded
  BY DEF ScoringInv
<1> QED
  BY <1>1, ScoringHolds, PTL

\* Between the Risk Agent's read and its write, and after the write, Detection
\* may rewrite the row; while the row has the summary that was assessed, what
\* Detection calls high is not left to level 1.
THEOREM HighIsSeenByAHuman == Spec => []HighIsSeenUnlessRewritten
<1>1. ScoringInv /\ AssessmentInv => HighIsSeenUnlessRewritten
  <2> SUFFICES ASSUME ScoringInv, AssessmentInv, assessment # None, severity = "high",
                      assessment.of = summary
               PROVE  assessment.level >= 2
    BY DEF HighIsSeenUnlessRewritten
  <2>1. /\ scores_of(summary) \in SUBSET Score
        /\ severity_from_score(scores_of(summary)) = "high"
    BY DEF ScoringInv, SeverityIsOfSummary
  <2>2. /\ assessment.confidence \in Confidence \cup {Missing}
        /\ assessment.level = hitl_level_for(severity_from(scores_of(summary)),
                                             assessment.confidence)
    BY DEF AssessmentInv, IsAssessment
  <2> QED
    BY <2>1, <2>2, HighNeedsAHuman
<1> QED
  BY <1>1, ScoringHolds, AssessmentInvariant, PTL
=============================================================================
