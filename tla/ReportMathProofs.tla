-------------------------- MODULE ReportMathProofs --------------------------
(***************************************************************************)
(* Theorems about ReportMath, for every set of tasks and any number of       *)
(* completion times.                                                        *)
(***************************************************************************)
EXTENDS ReportMath, FiniteSetTheorems, TLAPS

-----------------------------------------------------------------------------
(***************************************************************************)
(* The median.                                                             *)
(***************************************************************************)

LEMMA MeanBetween ==
  ASSUME NEW a \in Nat, NEW b \in Nat, NEW c \in Nat
  PROVE  /\ c <= a /\ c <= b => 2 * c <= a + b
         /\ a <= c /\ b <= c => a + b <= 2 * c
OBVIOUS

\* calculateMedian() reads inside of the sorted times (its non-null assertions
\* are right), at most half of them are below the median, and at most half
\* above it.
THEOREM MedianIsCentral ==
  ASSUME NEW sorted \in Seq(Nat), Ascending(sorted)
  PROVE  LET n == Len(sorted)
         IN  /\ n = 0 => CalculateMedian(sorted) = 0
             /\ n > 0 => n \div 2 + 1 \in 1..n
             /\ n > 0 /\ n % 2 = 0 => n \div 2 \in 1..n
             /\ \A i \in 1..n : 2 * i <= n + 1 => 2 * sorted[i] <= CalculateMedian(sorted)
             /\ \A i \in 1..n : 2 * i >= n + 1 => CalculateMedian(sorted) <= 2 * sorted[i]
<1> DEFINE n == Len(sorted)
           h == n \div 2
<1>1. n \in Nat /\ h \in Nat
  OBVIOUS
<1>2. n = 2 * h \/ n = 2 * h + 1
  OBVIOUS
<1>3. n % 2 = 1 <=> n = 2 * h + 1
  OBVIOUS
<1>4. \A i \in 1..n : sorted[i] \in Nat
  OBVIOUS
<1>5. \A i, j \in 1..n : i <= j => sorted[i] <= sorted[j]
  BY DEF Ascending
<1>6. CalculateMedian(sorted) =
        IF n = 0 THEN 0
        ELSE IF n % 2 = 1 THEN 2 * sorted[h + 1] ELSE sorted[h] + sorted[h + 1]
  BY DEF CalculateMedian
<1> HIDE DEF n, h
<1>7. n > 0 => h + 1 \in 1..n
  BY <1>1, <1>2
<1>8. n > 0 /\ n # 2 * h + 1 => h \in 1..n
  BY <1>1, <1>2
<1>9. ASSUME NEW i \in 1..n, 2 * i <= n + 1
      PROVE  2 * sorted[i] <= CalculateMedian(sorted)
  <2>1. CASE n = 2 * h + 1
    <3>1. sorted[i] <= sorted[h + 1]
      BY <1>1, <1>5, <1>7, <1>9, <2>1
    <3> QED
      BY <1>1, <1>3, <1>4, <1>6, <1>7, <2>1, <3>1
  <2>2. CASE n = 2 * h
    <3>1. h \in 1..n /\ h + 1 \in 1..n
      BY <1>1, <1>7, <1>8, <2>2
    <3>2. sorted[i] <= sorted[h] /\ sorted[i] <= sorted[h + 1]
      BY <1>1, <1>5, <1>9, <2>2, <3>1
    <3>3. CalculateMedian(sorted) = sorted[h] + sorted[h + 1]
      BY <1>1, <1>3, <1>6, <1>9, <2>2
    <3>4. sorted[h] \in Nat /\ sorted[h + 1] \in Nat /\ sorted[i] \in Nat
      BY <1>4, <3>1
    <3>5. 2 * sorted[i] <= sorted[h] + sorted[h + 1]
      BY <3>2, <3>4, MeanBetween, ZenonT(30)
    <3> QED
      BY <3>3, <3>5, ZenonT(30)
  <2> QED
    BY <1>2, <2>1, <2>2
<1>10. ASSUME NEW i \in 1..n, 2 * i >= n + 1
       PROVE  CalculateMedian(sorted) <= 2 * sorted[i]
  <2>1. CASE n = 2 * h + 1
    <3>1. sorted[h + 1] <= sorted[i]
      BY <1>1, <1>5, <1>7, <1>10, <2>1
    <3> QED
      BY <1>1, <1>3, <1>4, <1>6, <1>7, <2>1, <3>1
  <2>2. CASE n = 2 * h
    <3>1. h \in 1..n /\ h + 1 \in 1..n
      BY <1>1, <1>7, <1>8, <1>10, <2>2
    <3>2. sorted[h] <= sorted[i] /\ sorted[h + 1] <= sorted[i]
      BY <1>1, <1>5, <1>10, <2>2, <3>1
    <3>3. CalculateMedian(sorted) = sorted[h] + sorted[h + 1]
      BY <1>1, <1>3, <1>6, <1>10, <2>2
    <3>4. sorted[h] \in Nat /\ sorted[h + 1] \in Nat /\ sorted[i] \in Nat
      BY <1>4, <3>1
    <3>5. sorted[h] + sorted[h + 1] <= 2 * sorted[i]
      BY <3>2, <3>4, MeanBetween, ZenonT(30)
    <3> QED
      BY <3>3, <3>5, ZenonT(30)
  <2> QED
    BY <1>2, <2>1, <2>2
<1>11. n % 2 = 0 => n # 2 * h + 1
  BY <1>1, <1>3
<1> QED
  BY <1>1, <1>6, <1>7, <1>8, <1>9, <1>10, <1>11 DEF n, h

-----------------------------------------------------------------------------
(***************************************************************************)
(* The counts.                                                             *)
(***************************************************************************)

LEMMA PercentBounds ==
  ASSUME NEW total \in Nat, NEW done \in Nat, done <= total
  PROVE  DonePercent(total, done) \in 0..100
<1>1. CASE total = 0
  BY <1>1 DEF DonePercent
<1>2. CASE total # 0
  <2> DEFINE q == (done * 100) \div total
  <2>1. /\ q \in Nat
        /\ q * total <= done * 100
    BY <1>2
  <2> HIDE DEF q
  <2>2. q * total <= 100 * total
    BY <2>1
  <2>3. q <= 100
    BY <1>2, <2>1, <2>2
  <2> QED
    BY <1>2, <2>1, <2>3 DEF DonePercent, q
<1> QED
  BY <1>1, <1>2

LEMMA DisjointCount ==
  ASSUME NEW S, IsFiniteSet(S), NEW T, IsFiniteSet(T), S \cap T = {}
  PROVE  /\ IsFiniteSet(S \cup T)
         /\ Cardinality(S \cup T) = Cardinality(S) + Cardinality(T)
         /\ Cardinality(S) \in Nat /\ Cardinality(T) \in Nat
<1>1. Cardinality(S \cup T) = Cardinality(S) + Cardinality(T) - Cardinality({})
  BY FS_Union
<1>2. Cardinality({}) = 0
  BY FS_EmptySet
<1>3. Cardinality(S) \in Nat /\ Cardinality(T) \in Nat
  BY FS_CardinalityType
<1>4. IsFiniteSet(S \cup T)
  BY FS_Union
<1> QED
  BY <1>1, <1>2, <1>3, <1>4

\* The figures of a report agree with each other: each task is counted under one
\* status and one priority, a done task is not overdue, and the percentage is
\* one, also when there are no tasks.
THEOREM ReportAddsUp ==
  ASSUME NEW tasks \in SUBSET Task, IsFiniteSet(tasks), NEW now \in Nat
  PROVE  LET r == TasksReport(tasks, now)
         IN  /\ r.total = r.distributionByStatus["todo"]
                            + r.distributionByStatus["in_progress"]
                            + r.distributionByStatus["done"]
                            + r.distributionByStatus["overdue"]
             /\ r.total = r.distributionByPriority["low"]
                            + r.distributionByPriority["medium"]
                            + r.distributionByPriority["high"]
             /\ r.doneCount = r.distributionByStatus["done"]
             /\ r.doneCount + r.overdueCount <= r.total
             /\ r.donePercent \in 0..100
<1> DEFINE S(s) == {t \in tasks : t.status = s}
           P(p) == {t \in tasks : t.priority = p}
           late == {t \in tasks : t.dueDate < now /\ ~(t.status = "done")}
           r    == TasksReport(tasks, now)
<1>1. /\ r.total = Cardinality(tasks)
      /\ r.doneCount = Cardinality(S("done"))
      /\ r.overdueCount = Cardinality(late)
      /\ r.donePercent = DonePercent(Cardinality(tasks), Cardinality(S("done")))
  BY DEF TasksReport
<1>2. \A s \in TaskStatus : r.distributionByStatus[s] = Cardinality(S(s))
  BY DEF TasksReport
<1>3. \A p \in TaskPriority : r.distributionByPriority[p] = Cardinality(P(p))
  BY DEF TasksReport
<1> HIDE DEF r
<1>4. \A T \in SUBSET tasks : IsFiniteSet(T) /\ Cardinality(T) \in Nat
                                /\ Cardinality(T) <= Cardinality(tasks)
  BY FS_Subset, FS_CardinalityType
<1>5. Cardinality(tasks) = Cardinality(S("todo")) + Cardinality(S("in_progress"))
                             + Cardinality(S("done")) + Cardinality(S("overdue"))
  <2>1. tasks = ((S("todo") \cup S("in_progress")) \cup S("done")) \cup S("overdue")
    BY DEF Task, TaskStatus
  <2>2. /\ Cardinality(S("todo") \cup S("in_progress"))
             = Cardinality(S("todo")) + Cardinality(S("in_progress"))
        /\ IsFiniteSet(S("todo") \cup S("in_progress"))
    BY <1>4, DisjointCount
  <2>3. /\ Cardinality((S("todo") \cup S("in_progress")) \cup S("done"))
             = Cardinality(S("todo") \cup S("in_progress")) + Cardinality(S("done"))
        /\ IsFiniteSet((S("todo") \cup S("in_progress")) \cup S("done"))
    BY <1>4, <2>2, DisjointCount
  <2>4. Cardinality(((S("todo") \cup S("in_progress")) \cup S("done")) \cup S("overdue"))
          = Cardinality((S("todo") \cup S("in_progress")) \cup S("done"))
              + Cardinality(S("overdue"))
    BY <1>4, <2>3, DisjointCount
  <2> QED
    BY <2>1, <2>2, <2>3, <2>4
<1>6. Cardinality(tasks) = Cardinality(P("low")) + Cardinality(P("medium"))
                             + Cardinality(P("high"))
  <2>1. tasks = (P("low") \cup P("medium")) \cup P("high")
    BY DEF Task, TaskPriority
  <2>2. /\ Cardinality(P("low") \cup P("medium"))
             = Cardinality(P("low")) + Cardinality(P("medium"))
        /\ IsFiniteSet(P("low") \cup P("medium"))
    BY <1>4, DisjointCount
  <2>3. Cardinality((P("low") \cup P("medium")) \cup P("high"))
          = Cardinality(P("low") \cup P("medium")) + Cardinality(P("high"))
    BY <1>4, <2>2, DisjointCount
  <2> QED
    BY <2>1, <2>2, <2>3
<1>7. Cardinality(S("done")) + Cardinality(late) <= Cardinality(tasks)
  <2>1. S("done") \cap late = {} /\ S("done") \cup late \in SUBSET tasks
    OBVIOUS
  <2>2. Cardinality(S("done") \cup late) = Cardinality(S("done")) + Cardinality(late)
    BY <1>4, <2>1, DisjointCount
  <2> QED
    BY <1>4, <2>1, <2>2
<1>8. DonePercent(Cardinality(tasks), Cardinality(S("done"))) \in 0..100
  <2>1. S("done") \in SUBSET tasks /\ tasks \in SUBSET tasks
    OBVIOUS
  <2> QED
    BY <1>4, <2>1, PercentBounds
<1>9. /\ {"todo", "in_progress", "done", "overdue"} \subseteq TaskStatus
      /\ {"low", "medium", "high"} \subseteq TaskPriority
  BY DEF TaskStatus, TaskPriority
<1> HIDE DEF S, P, late
<1> QED
  BY <1>1, <1>2, <1>3, <1>5, <1>6, <1>7, <1>8, <1>9 DEF r
=============================================================================
