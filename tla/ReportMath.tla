----------------------------- MODULE ReportMath -----------------------------
(***************************************************************************)
(* The figures of a tasks report (tasks-report-processor.ts), as functions   *)
(* of the tasks found.  Reports abstracts from them; here they are alone.   *)
(* Left out are the fraction of donePercent and avgCompletionTime.          *)
(***************************************************************************)
EXTENDS Policy, Sequences, FiniteSets

TaskPriority == {"low", "medium", "high"}

\* createdAt and updatedAt bound the time a done task took.
Task == [id : Nat, status : TaskStatus, priority : TaskPriority,
         dueDate : Nat, createdAt : Nat, updatedAt : Nat]

\* The loop over the tasks, and the assignments after it.
DonePercent(total, doneCount) ==
  IF total = 0 THEN 0 ELSE (doneCount * 100) \div total

TasksReport(tasks, now) ==
  LET Count(P(_)) == Cardinality({t \in tasks : P(t)})
      IsDone(t)   == t.status = "done"
      doneCount   == Count(IsDone)
  IN  [total        |-> Cardinality(tasks),
       doneCount    |-> doneCount,
       donePercent  |-> DonePercent(Cardinality(tasks), doneCount),
       overdueCount |-> Count(LAMBDA t : t.dueDate < now /\ ~IsDone(t)),
       distributionByStatus |->
         [s \in TaskStatus |-> Count(LAMBDA t : t.status = s)],
       distributionByPriority |->
         [p \in TaskPriority |-> Count(LAMBDA t : t.priority = p)]]

Ascending(sorted) ==
  \A i, j \in 1..Len(sorted) : i <= j => sorted[i] <= sorted[j]

\* Twice the median of times that are sorted already: for an even number of
\* times the median is the mean of two.
CalculateMedian(sorted) ==
  LET n == Len(sorted)
  IN  IF n = 0 THEN 0
      ELSE IF n % 2 = 1 THEN 2 * sorted[n \div 2 + 1]
      ELSE sorted[n \div 2] + sorted[n \div 2 + 1]
=============================================================================
