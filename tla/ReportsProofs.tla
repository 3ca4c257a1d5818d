---------------------------- MODULE ReportsProofs ----------------------------
(***************************************************************************)
(* Theorems about Reports, for any organizations, users, tasks, jobs,       *)
(* requests and numbers of faults.                                          *)
(***************************************************************************)
EXTENDS Reports, TLAPS

-----------------------------------------------------------------------------
(***************************************************************************)
(* The inductive invariant.  A target is in the scope the POST was granted;   *)
(* whom a run may find now was live when it began, users are only deleted;   *)
(* a job that ran, whoever took it from the worker, has been spoken of; only *)
(* a job that waits or runs for the first time may have a listener, and who   *)
(* listens is in its room; a job is announced no more often than it was run,  *)
(* and it runs twice at most.                                               *)
(***************************************************************************)

TargetAllowed(data, scope) == data.target # Undefined => data.target \in scope

RequestInv ==
  \A r \in Requests :
    request[r].pc = "add" => TargetAllowed(request[r].data, request[r].scope)

RunsOn(j) == worker # Idle /\ worker.job = j

DataInv ==
  \A j \in JobIds : job[j] # NoJob => TargetAllowed(job[j].data, job[j].scope)

ListenInv ==
  \A j \in JobIds :
    /\ job[j].state = "active" /\ (job[j].stalledCounter = 1 \/ ~RunsOn(j)) =>
         ~listening[j]
    /\ job[j].state = "waiting" /\ job[j].stalledCounter = 1 /\ ~RunsOn(j) =>
         ~listening[j]

RoomInv ==
  \A j \in JobIds : listening[j] => job[j] # NoJob /\ Requester(j) \in room

WorkerInv ==
  worker # Idle =>
    /\ job[worker.job].state \in {"waiting", "active", "stalled"}
    /\ worker.locked => job[worker.job].state = "active"
    /\ worker.assigneeIds \subseteq worker.scope
    /\ ScopeOfRun(worker.job) \subseteq worker.scope
    /\ worker.pc \in {"employees", "managers"} => job[worker.job].data.target = Undefined
    /\ worker.report \subseteq worker.assigneeIds
    /\ worker.pc = "employees" => Account[Requester(worker.job)].role # "employee"
    /\ worker.pc = "managers"  => Account[Requester(worker.job)].role = "owner"
    /\ worker.pc = "return" => lastEvent[worker.job] = "done"
    /\ worker.pc = "throw"  => lastEvent[worker.job] = "failed"
    /\ worker.pc \in {"return", "throw"} => ~listening[worker.job]

\* How often process() has been started for j.
Runs(j) ==
  IF job[j] = NoJob THEN 0
  ELSE IF job[j].state = "waiting" THEN job[j].stalledCounter
  ELSE job[j].stalledCounter + 1

\* A run speaks once: the one under way has its announcement still to make.
SaidInv ==
  \A j \in JobIds :
    /\ announced[j] <= Runs(j)
    /\ RunsOn(j) /\ worker.pc \notin {"return", "throw"} => announced[j] < Runs(j)

ReportsInv ==
  /\ TypeOK
  /\ RequestInv
  /\ DataInv
  /\ ReportsStayInScope
  /\ EndMatchesLastEvent
  /\ ListenersHear
  /\ ListenInv
  /\ RoomInv
  /\ WorkerInv
  /\ SaidInv

-----------------------------------------------------------------------------
(***************************************************************************)
(* Types.                                                                  *)
(***************************************************************************)

LEMMA WorkerSort ==
  ASSUME TypeOK
  PROVE  /\ worker # Idle => worker \in Processing
         /\ Idle.pc = "idle"
BY DEF TypeOK, Idle

LEMMA JobSort ==
  ASSUME TypeOK, NEW j \in JobIds
  PROVE  /\ job[j] # NoJob => job[j] \in Job /\ Requester(j) \in Users
         /\ job[j].state # "none" => job[j] # NoJob
         /\ NoJob \notin Job
         /\ NoJob.state = "none"
BY DEF TypeOK, NoJob, Job, Ended, Requester, TasksReportJobPayload

LEMMA RequestSort ==
  ASSUME TypeOK, NEW r \in Requests, request[r].pc = "add"
  PROVE  /\ request[r].data \in TasksReportJobPayload
         /\ request[r].scope \in SUBSET Users
BY DEF TypeOK, RequestState, Idle

LEMMA FaultType ==
  ASSUME TypeOK, Fault
  PROVE  faults' \in Nat
BY DEF TypeOK, Fault

-----------------------------------------------------------------------------
(***************************************************************************)
(* The steps.                                                              *)
(***************************************************************************)

LEMMA ReportsInit ==
  ASSUME Init
  PROVE  ReportsInv
<1>1. TypeOK
  BY TypesAssumption DEF Init, TypeOK, RequestState
<1>2. RequestInv /\ WorkerInv
  BY DEF Init, RequestInv, WorkerInv, Idle
<1>3. DataInv /\ ReportsStayInScope
  BY DEF Init, DataInv, ReportsStayInScope, Idle
<1>4. EndMatchesLastEvent /\ ListenersHear /\ ListenInv /\ RoomInv
  BY DEF Init, EndMatchesLastEvent, ListenersHear, ListenInv, RoomInv, NoJob, Ended
<1>5. SaidInv
  BY DEF Init, SaidInv, RunsOn, Runs
<1> QED
  BY <1>1, <1>2, <1>3, <1>4, <1>5 DEF ReportsInv

\* As users are only deleted, a run that begins later may count no more of them.
LEMMA ScopeShrinks ==
  ASSUME liveUsers' \subseteq liveUsers, NEW j \in JobIds,
         job'[j].data = job[j].data, job'[j].scope = job[j].scope
  PROVE  ScopeOfRun(j)' \subseteq ScopeOfRun(j)
BY DEF ScopeOfRun, Scope

\* A step that leaves requests, jobs, worker and history as they are, and nobody
\* leaves a room or is created.
LEMMA OutsideStep ==
  ASSUME ReportsInv, TypeOK', room \subseteq room', liveUsers' \subseteq liveUsers,
         UNCHANGED <<request, job, worker, history>>
  PROVE  ReportsInv'
<1>1. RequestInv' /\ DataInv' /\ ReportsStayInScope' /\ EndMatchesLastEvent'
      /\ ListenersHear' /\ ListenInv' /\ RoomInv' /\ SaidInv'
  BY DEF ReportsInv, RequestInv, DataInv, ReportsStayInScope, EndMatchesLastEvent,
         ListenersHear, ListenInv, RoomInv, SaidInv, RunsOn, Runs, Requester, history
<1>2. WorkerInv'
  <2>1. worker # Idle => ScopeOfRun(worker.job)' \subseteq ScopeOfRun(worker.job)
    BY WorkerSort, ScopeShrinks DEF ReportsInv, Processing
  <2> QED
    BY <2>1 DEF ReportsInv, WorkerInv, Requester, history
<1> QED
  BY <1>1, <1>2 DEF ReportsInv

\* createTaskReport(): the target is allowed.
LEMMA CreateStep ==
  ASSUME ReportsInv, NEW r \in Requests, NEW u \in Users,
         NEW target \in Users \cup {Undefined}, CreateTaskReport(r, u, target)
  PROVE  ReportsInv'
<1> DEFINE data == [requestedBy |-> u, target |-> target]
<1>1. /\ TypeOK
      /\ data \in TasksReportJobPayload
      /\ request' = [request EXCEPT ![r] =
                       [pc |-> "add", data |-> data, scope |-> Scope(data)]]
      /\ UNCHANGED <<rows, job, worker, room, process, history, faults>>
  BY DEF ReportsInv, CreateTaskReport, TasksReportJobPayload
<1>2. TargetAllowed(data, Scope(data))
  <2>1. ASSUME target # Undefined
        PROVE  target \in ReportsOn[u] \cap liveUsers
    BY <2>1, TypesAssumption
       DEF CreateTaskReport, ReportsOn, CanRequestTaskReportForTarget,
           AllowedCreateTaskReportRoles, UserRole
  <2> QED
    BY <2>1 DEF TargetAllowed, Scope
<1>7. Scope(data) \subseteq Users
  BY <1>1 DEF Scope, ReportsOn, TasksReportJobPayload
<1> HIDE DEF data
<1>3. [pc |-> "add", data |-> data, scope |-> Scope(data)] \in RequestState
  BY <1>1, <1>7 DEF RequestState
<1>4. TypeOK'
  BY <1>1, <1>3 DEF TypeOK, rows, history
<1>5. RequestInv'
  BY <1>1, <1>2 DEF ReportsInv, RequestInv, TypeOK
<1>6. DataInv' /\ ReportsStayInScope' /\ EndMatchesLastEvent' /\ ListenersHear'
      /\ ListenInv' /\ RoomInv' /\ WorkerInv' /\ SaidInv'
  BY <1>1 DEF ReportsInv, DataInv, ReportsStayInScope, EndMatchesLastEvent,
              ListenersHear, ListenInv, RoomInv, WorkerInv, SaidInv, RunsOn, Runs,
              Requester, ScopeOfRun, Scope, rows, history
<1> QED
  BY <1>4, <1>5, <1>6 DEF ReportsInv

\* queue.add(), whether it is answered or not.
LEMMA AddStep ==
  ASSUME ReportsInv, NEW r \in Requests, NEW j \in JobIds,
         AddJob(r, j) \/ AddFailed(r, j)
  PROVE  ReportsInv'
<1> DEFINE data == request[r].data
           scope == request[r].scope
           new  == [state |-> "waiting", data |-> data, scope |-> scope,
                    stalledCounter |-> 0]
<1>1. /\ TypeOK
      /\ request[r].pc = "add"
      /\ request' = [request EXCEPT ![r] = Idle]
      /\ UNCHANGED <<rows, worker, room, process, lastEvent, announced>>
      /\ faults' \in Nat
  BY FaultType DEF ReportsInv, AddJob, AddFailed, TypeOK
<1>2. /\ data \in TasksReportJobPayload
      /\ scope \in SUBSET Users
      /\ TargetAllowed(data, scope)
  BY <1>1, RequestSort DEF ReportsInv, RequestInv
<1>3. request' \in [Requests -> RequestState] /\ RequestInv'
  BY <1>1 DEF ReportsInv, TypeOK, RequestState, RequestInv, Idle
<1>4. CASE UNCHANGED <<job, listening>>
  <2>1. TypeOK'
    BY <1>1, <1>3, <1>4 DEF TypeOK, rows
  <2>2. DataInv' /\ ReportsStayInScope' /\ EndMatchesLastEvent' /\ ListenersHear'
        /\ ListenInv' /\ RoomInv' /\ WorkerInv' /\ SaidInv'
    BY <1>1, <1>4 DEF ReportsInv, DataInv, ReportsStayInScope, EndMatchesLastEvent,
                      ListenersHear, ListenInv, RoomInv, WorkerInv, SaidInv, RunsOn,
                      Runs, Requester, ScopeOfRun, Scope, rows
  <2> QED
    BY <1>3, <2>1, <2>2 DEF ReportsInv
<1>5. CASE NewJob(r, j)
  <2>1. /\ job[j] = NoJob
        /\ job' = [job EXCEPT ![j] = new]
        /\ listening' \in [JobIds -> BOOLEAN]
        /\ \A k \in JobIds \ {j} : listening'[k] = listening[k]
    BY <1>1, <1>5 DEF NewJob, TypeOK
  <2>12. listening'[j] => data.requestedBy \in room
    <3>1. j \in DOMAIN listening
      BY <1>1 DEF TypeOK
    <3>2. listening'[j] = (data.requestedBy \in room)
      BY <1>5, <3>1, Zenon DEF NewJob
    <3> QED
      BY <3>2
  <2>2. /\ new \in Job
        /\ new # NoJob
        /\ new.state = "waiting"
        /\ new.stalledCounter = 0
        /\ new.data = data
        /\ new.scope = scope
    BY <1>2 DEF Job, NoJob
  <2> HIDE DEF new
  <2>3. /\ job' \in [JobIds -> Job \cup {NoJob}]
        /\ job'[j] = new
        /\ \A k \in JobIds \ {j} : job'[k] = job[k]
    BY <1>1, <2>1, <2>2 DEF TypeOK
  <2>4. TypeOK'
    BY <1>1, <1>3, <2>1, <2>3 DEF TypeOK, rows
  <2>5. DataInv'
    BY <1>1, <1>2, <2>2, <2>3 DEF ReportsInv, DataInv
  <2>6. ReportsStayInScope'
    BY <1>1 DEF ReportsInv, ReportsStayInScope
  <2>7. EndMatchesLastEvent'
    BY <1>1, <2>2, <2>3 DEF ReportsInv, EndMatchesLastEvent
  <2>8. ListenersHear'
    BY <2>1, <2>2, <2>3 DEF ReportsInv, ListenersHear, Ended
  <2>9. ListenInv'
    BY <1>1, <2>1, <2>2, <2>3 DEF ReportsInv, ListenInv, RunsOn
  <2>10. WorkerInv'
    <3>1. ASSUME worker # Idle
          PROVE  worker.job \in JobIds \ {j}
      BY <1>1, <2>1, <3>1, WorkerSort DEF ReportsInv, WorkerInv, Processing, NoJob
    <3> QED
      BY <1>1, <2>1, <2>3, <3>1
         DEF ReportsInv, WorkerInv, Requester, ScopeOfRun, Scope, rows
  <2>11. RoomInv'
    BY <1>1, <2>1, <2>12, <2>2, <2>3 DEF ReportsInv, RoomInv, Requester
  <2>13. SaidInv'
    <3>1. ~RunsOn(j)
      BY <1>1, <2>1, WorkerSort DEF ReportsInv, WorkerInv, RunsOn, Processing, NoJob
    <3> QED
      BY <1>1, <2>1, <2>2, <2>3, <3>1 DEF ReportsInv, SaidInv, RunsOn, Runs
  <2> QED
    BY <1>3, <2>4, <2>5, <2>6, <2>7, <2>8, <2>9, <2>10, <2>11, <2>13 DEF ReportsInv
<1> QED
  BY <1>1, <1>4, <1>5 DEF AddJob, AddFailed

\* A step of sockets, of the process, or of what both end: listeners only get
\* fewer, jobs and their history stay, the worker stays or ends.
LEMMA FewerListeners ==
  ASSUME ReportsInv, TypeOK', RequestInv',
         \/ worker' = worker
         \/ worker' = Idle /\ \A j \in JobIds : ~listening'[j],
         \A j \in JobIds : listening'[j] => listening[j] /\ Requester(j) \in room',
         UNCHANGED <<rows, job, lastEvent, announced>>
  PROVE  ReportsInv'
<1>1. DataInv' /\ ReportsStayInScope' /\ EndMatchesLastEvent' /\ ListenersHear'
  BY DEF ReportsInv, DataInv, ReportsStayInScope, EndMatchesLastEvent,
         ListenersHear, Idle
<1>2. ListenInv' /\ RoomInv'
  BY DEF ReportsInv, ListenInv, RoomInv, RunsOn, Requester
<1>3. WorkerInv'
  <2>1. worker # Idle => worker.job \in JobIds
    BY WorkerSort DEF ReportsInv, Processing
  <2> QED
    BY <2>1 DEF ReportsInv, WorkerInv, Requester, ScopeOfRun, Scope, rows
<1>4. SaidInv'
  BY DEF ReportsInv, SaidInv, RunsOn, Runs
<1> QED
  BY <1>1, <1>2, <1>3, <1>4 DEF ReportsInv

LEMMA DisconnectStep ==
  ASSUME ReportsInv, NEW u \in Users, HandleDisconnect(u)
  PROVE  ReportsInv'
<1>1. /\ TypeOK /\ RequestInv
      /\ room' = room \ {u}
      /\ listening' = [j \in JobIds |-> listening[j] /\ Requester(j) # u]
      /\ UNCHANGED <<rows, request, job, worker, process, lastEvent, announced,
                     faults>>
  BY DEF ReportsInv, HandleDisconnect
<1>2. /\ listening' \in [JobIds -> BOOLEAN]
      /\ \A j \in JobIds : listening'[j] => listening[j] /\ Requester(j) \in room'
  BY <1>1 DEF ReportsInv, RoomInv
<1>3. TypeOK'
  BY <1>1, <1>2 DEF TypeOK, rows
<1>4. RequestInv'
  BY <1>1 DEF RequestInv
<1> QED
  BY <1>1, <1>2, <1>3, <1>4, FewerListeners

LEMMA EndStep ==
  ASSUME ReportsInv, CloseWithTimeout \/ Crash
  PROVE  ReportsInv'
<1>1. /\ TypeOK
      /\ EndOfWork
      /\ process' \in {"closed", "hung", "down"}
      /\ faults' \in Nat
  BY FaultType DEF ReportsInv, CloseWithTimeout, Crash
<1>2. TypeOK' /\ RequestInv'
  BY <1>1 DEF TypeOK, EndOfWork, rows, RequestState, RequestInv, Idle
<1> QED
  BY <1>1, <1>2, FewerListeners DEF EndOfWork

\* Who is asked about first is in scope.
LEMMA AssigneesInScope ==
  ASSUME ReportsInv, NEW j \in JobIds, job[j] # NoJob
  PROVE  /\ AssigneeIds(j) \subseteq ScopeOfRun(j)
         /\ ScopeOfRun(j) \subseteq Users
<1>1. job[j] \in Job /\ TargetAllowed(job[j].data, job[j].scope)
  BY JobSort DEF ReportsInv, DataInv
<1>2. CASE job[j].data.target = Undefined
  BY <1>1, <1>2 DEF AssigneeIds, ScopeOfRun, Scope, ReportsOn, Requester, Job,
                    TasksReportJobPayload
<1>3. CASE job[j].data.target # Undefined
  BY <1>1, <1>3 DEF AssigneeIds, ScopeOfRun, TargetAllowed, Job
<1> QED
  BY <1>2, <1>3

LEMMA FetchStep ==
  ASSUME ReportsInv, NEW j \in JobIds, Fetch(j)
  PROVE  ReportsInv'
<1> DEFINE new == [job[j] EXCEPT !.state = "active"]
<1>1. /\ TypeOK
      /\ worker = Idle
      /\ job[j] \in Job
      /\ job[j].state = "waiting"
      /\ job' = [job EXCEPT ![j] = new]
      /\ UNCHANGED <<rows, request, room, process, history, faults>>
  BY JobSort DEF ReportsInv, Fetch
<1>2. /\ new \in Job
      /\ new.state = "active"
      /\ new.data = job[j].data
      /\ new.scope = job[j].scope
      /\ new.stalledCounter = job[j].stalledCounter
  BY <1>1 DEF Job
<1> HIDE DEF new
<1>3. /\ job' \in [JobIds -> Job \cup {NoJob}]
      /\ job'[j] = new
      /\ \A k \in JobIds \ {j} : job'[k] = job[k]
  BY <1>1, <1>2 DEF TypeOK
<1>4. /\ worker' \in Processing
      /\ worker'.job = j
      /\ worker'.pc \in {"tasks", "employees"}
      /\ worker'.pc = "employees" => Account[Requester(j)].role # "employee"
      /\ worker'.pc = "employees" => job[j].data.target = Undefined
      /\ worker'.scope = ScopeOfRun(j)
      /\ worker'.assigneeIds = AssigneeIds(j)
      /\ worker'.report = {}
      /\ worker' # Idle
  BY <1>1, JobSort, AssigneesInScope DEF Fetch, Processing, Idle
<1>5. TypeOK'
  BY <1>1, <1>3, <1>4 DEF TypeOK, rows, history
<1>6. RequestInv'
  BY <1>1 DEF ReportsInv, RequestInv
<1>7. DataInv'
  BY <1>1, <1>2, <1>3, JobSort DEF ReportsInv, DataInv, history
<1>8. ReportsStayInScope'
  BY <1>4 DEF ReportsStayInScope
<1>9. EndMatchesLastEvent' /\ ListenersHear'
  BY <1>1, <1>2, <1>3 DEF ReportsInv, EndMatchesLastEvent, ListenersHear, Ended, history
<1>10. ListenInv'
  BY <1>1, <1>2, <1>3, <1>4 DEF ReportsInv, ListenInv, RunsOn, history
<1>11. RoomInv'
  BY <1>1, <1>2, <1>3, JobSort DEF ReportsInv, RoomInv, Requester, history
<1>12. WorkerInv'
  <2>1. AssigneeIds(j) \subseteq ScopeOfRun(j)
    BY <1>1, JobSort, AssigneesInScope
  <2>2. ScopeOfRun(j)' \subseteq ScopeOfRun(j)
    BY <1>1, <1>2, <1>3, ScopeShrinks DEF rows
  <2> QED
    BY <1>1, <1>2, <1>3, <1>4, <2>1, <2>2 DEF WorkerInv, Requester
<1>13. SaidInv'
  <2>1. /\ announced[j] <= Runs(j)
        /\ Runs(j) = job[j].stalledCounter
        /\ Runs(j)' = job[j].stalledCounter + 1
    BY <1>1, <1>2, <1>3, JobSort DEF ReportsInv, SaidInv, Runs
  <2>2. announced[j] \in Nat /\ job[j].stalledCounter \in Nat
    BY <1>1 DEF TypeOK, Job
  <2>3. announced[j] < Runs(j)'
    BY <2>1, <2>2
  <2>4. ASSUME NEW k \in JobIds \ {j}
        PROVE  /\ announced[k] <= Runs(k)'
               /\ ~RunsOn(k)'
    BY <1>3, <1>4 DEF ReportsInv, SaidInv, Runs, RunsOn
  <2>5. announced' = announced
    BY <1>1 DEF history
  <2> QED
    BY <2>1, <2>2, <2>3, <2>4, <2>5 DEF SaidInv
<1> QED
  BY <1>5, <1>6, <1>7, <1>8, <1>9, <1>10, <1>11, <1>12, <1>13 DEF ReportsInv

\* A step of the worker that only reads.
LEMMA ReadStep ==
  ASSUME ReportsInv, worker # Idle,
         worker' \in Processing,
         worker'.job = worker.job,
         worker'.locked => worker.locked,
         worker'.scope = worker.scope,
         worker'.assigneeIds \subseteq worker.scope,
         worker'.pc # worker.pc /\ worker'.pc = "managers" =>
           job[worker.job].data.target = Undefined,
         worker'.report \subseteq worker'.assigneeIds,
         worker'.pc # worker.pc /\ worker'.pc = "managers" =>
           Account[Requester(worker.job)].role = "owner",
         worker'.pc # worker.pc => worker'.pc \in {"managers", "tasks", "delay"},
         worker'.pc # worker.pc => worker.pc \notin {"return", "throw"},
         faults' \in Nat,
         UNCHANGED <<rows, request, job, room, process, history>>
  PROVE  ReportsInv'
<1>1. TypeOK'
  BY DEF ReportsInv, TypeOK, rows, history
<1>2. worker' # Idle /\ worker.job \in JobIds
  BY WorkerSort DEF ReportsInv, Processing, Idle
<1>3. RequestInv' /\ DataInv' /\ ReportsStayInScope' /\ EndMatchesLastEvent'
      /\ ListenersHear'
  BY DEF ReportsInv, RequestInv, DataInv, ReportsStayInScope, EndMatchesLastEvent,
         ListenersHear, WorkerInv, history
<1>4. ListenInv' /\ RoomInv'
  BY <1>2 DEF ReportsInv, ListenInv, RoomInv, RunsOn, Requester, history
<1>5. WorkerInv'
  BY <1>2 DEF ReportsInv, WorkerInv, Requester, ScopeOfRun, Scope, rows, history
<1>6. SaidInv'
  BY <1>2 DEF ReportsInv, SaidInv, RunsOn, Runs, history
<1> QED
  BY <1>1, <1>3, <1>4, <1>5, <1>6 DEF ReportsInv

LEMMA ReadSteps ==
  ASSUME ReportsInv, FindEmployees \/ FindManagers \/ FindTasks \/ LoseLock
  PROVE  ReportsInv'
<1> DEFINE j == worker.job
<1>1. /\ TypeOK
      /\ worker # Idle
      /\ UNCHANGED <<rows, request, job, room, process, history>>
  BY WorkerSort DEF ReportsInv, FindEmployees, FindManagers, FindTasks, LoseLock
<1>2. /\ worker \in Processing
      /\ job[j] # NoJob
      /\ Requester(j) \in Users
      /\ worker.assigneeIds \subseteq worker.scope
      /\ worker.report \subseteq worker.assigneeIds
      /\ worker.scope \subseteq Users
  BY <1>1, WorkerSort, JobSort DEF ReportsInv, WorkerInv, Processing
<1>3. faults' \in Nat
  BY <1>1, FaultType DEF FindEmployees, FindManagers, FindTasks, LoseLock, TypeOK
<1> DEFINE found(role) == worker.assigneeIds \cup FindAllUsers(j, role)
<1>4. ASSUME NEW role,
             \/ role = "employee" /\ Account[Requester(j)].role \in {"manager", "owner"}
             \/ role = "manager" /\ Account[Requester(j)].role = "owner",
             job[j].data.target = Undefined
      PROVE  found(role) \subseteq worker.scope
  <2>1. FindAllUsers(j, role) \subseteq Scope(job[j].data)
    BY <1>1, <1>2, <1>4
       DEF FindAllUsers, Scope, ReportsOn, SameOrganization, Requester, TypeOK
  <2>2. Scope(job[j].data) \subseteq worker.scope
    BY <1>1, <1>4 DEF ReportsInv, WorkerInv, ScopeOfRun
  <2> QED
    BY <1>2, <2>1, <2>2
<1>5. CASE FindEmployees
  <2>1. Account[Requester(j)].role \in {"manager", "owner"}
    BY <1>1, <1>2, <1>5, TypesAssumption
       DEF ReportsInv, WorkerInv, FindEmployees, UserRole
  <2>2. job[j].data.target = Undefined
    BY <1>1, <1>5 DEF ReportsInv, WorkerInv, FindEmployees
  <2>3. found("employee") \subseteq worker.scope
    BY <1>4, <2>1, <2>2
  <2> QED
    BY <1>1, <1>2, <1>3, <1>5, <2>2, <2>3, ReadStep DEF FindEmployees, Processing
<1>6. CASE FindManagers
  <2>1. Account[Requester(j)].role = "owner"
    BY <1>1, <1>6 DEF ReportsInv, WorkerInv, FindManagers
  <2>2. job[j].data.target = Undefined
    BY <1>1, <1>6 DEF ReportsInv, WorkerInv, FindManagers
  <2>3. found("manager") \subseteq worker.scope
    BY <1>4, <2>1, <2>2
  <2> QED
    BY <1>1, <1>2, <1>3, <1>6, <2>3, ReadStep DEF FindManagers, Processing
<1>7. CASE FindTasks
  BY <1>1, <1>2, <1>3, <1>7, ReadStep DEF FindTasks, Processing
<1>8. CASE LoseLock
  BY <1>1, <1>2, <1>3, <1>8, ReadStep DEF LoseLock, Processing
<1> QED
  BY <1>5, <1>6, <1>7, <1>8

\* An event is sent about the worker's job j: nobody who is still in the room
\* waits for it any more, and who left does not either.
LEMMA EmitStep ==
  ASSUME ReportsInv, worker # Idle, NEW event \in {"done", "failed"},
         EmitToUser(worker.job, event),
         worker.pc \notin {"return", "throw"},
         worker' = [worker EXCEPT !.pc = IF event = "done" THEN "return" ELSE "throw"],
         faults' \in Nat,
         UNCHANGED <<rows, request, job, room, process>>
  PROVE  ReportsInv'
<1> DEFINE j == worker.job
<1>1. /\ TypeOK
      /\ worker \in Processing
      /\ j \in JobIds
      /\ job[j].state \in {"waiting", "active", "stalled"}
      /\ worker.report \subseteq worker.scope
  BY WorkerSort DEF ReportsInv, WorkerInv, Processing
<1>2. /\ worker' \in Processing
      /\ worker' # Idle
      /\ worker'.job = j
      /\ worker'.pc = IF event = "done" THEN "return" ELSE "throw"
      /\ worker'.locked = worker.locked
      /\ worker'.scope = worker.scope
      /\ worker'.assigneeIds = worker.assigneeIds
      /\ worker'.report = worker.report
  BY <1>1 DEF Processing, Idle
<1>3. /\ lastEvent' \in [JobIds -> {"none", "done", "failed"}]
      /\ lastEvent'[j] = event
      /\ \A k \in JobIds \ {j} : lastEvent'[k] = lastEvent[k]
  BY <1>1 DEF EmitToUser, TypeOK
<1>4. /\ listening' \in [JobIds -> BOOLEAN]
      /\ \A k \in JobIds : listening'[k] => listening[k]
      /\ listening'[j] => Requester(j) \notin room
  BY <1>1 DEF EmitToUser, TypeOK
<1>14. /\ announced' \in [JobIds -> Nat]
       /\ announced'[j] = announced[j] + 1
       /\ \A k \in JobIds \ {j} : announced'[k] = announced[k]
  BY <1>1 DEF EmitToUser, TypeOK
<1>6. TypeOK'
  BY <1>1, <1>2, <1>3, <1>4, <1>14 DEF TypeOK, rows
<1>7. RequestInv'
  BY DEF ReportsInv, RequestInv
<1>8. DataInv'
  BY DEF ReportsInv, DataInv
<1>9. ReportsStayInScope'
  BY <1>1, <1>2 DEF ReportsStayInScope
<1>10. EndMatchesLastEvent'
  BY <1>1, <1>3 DEF ReportsInv, EndMatchesLastEvent
<1>11. ListenersHear'
  BY <1>4 DEF ReportsInv, ListenersHear
<1>12. ListenInv' /\ RoomInv'
  BY <1>2, <1>4 DEF ReportsInv, ListenInv, RoomInv, RunsOn, Requester
<1>13. WorkerInv'
  <2>1. ~listening'[j]
    BY <1>1, <1>4 DEF ReportsInv, RoomInv
  <2>2. ScopeOfRun(j)' \subseteq ScopeOfRun(j)
    BY <1>1, ScopeShrinks DEF rows
  <2> QED
    BY <1>1, <1>2, <1>3, <2>1, <2>2 DEF ReportsInv, WorkerInv, Requester
<1>15. SaidInv'
  <2>1. announced[j] < Runs(j) /\ Runs(j)' = Runs(j)
    BY <1>1 DEF ReportsInv, SaidInv, RunsOn, Runs
  <2>2. job[j] \in Job
    BY <1>1, JobSort
  <2>3. announced[j] \in Nat /\ Runs(j) \in Nat
    BY <1>1, <2>2 DEF TypeOK, Runs, Job
  <2>4. announced'[j] <= Runs(j)'
    BY <1>14, <2>1, <2>3
  <2>5. ASSUME NEW k \in JobIds \ {j}
        PROVE  announced'[k] <= Runs(k)' /\ ~RunsOn(k)'
    BY <1>2, <1>14 DEF ReportsInv, SaidInv, Runs, RunsOn
  <2>6. worker'.pc \in {"return", "throw"}
    BY <1>2
  <2> QED
    BY <2>4, <2>5, <2>6 DEF SaidInv
<1> QED
  BY <1>6, <1>7, <1>8, <1>9, <1>10, <1>11, <1>12, <1>13, <1>15 DEF ReportsInv

LEMMA EmitSteps ==
  ASSUME ReportsInv, EmitTaskReportDone \/ EmitTaskReportFailed
  PROVE  ReportsInv'
<1>1. TypeOK /\ worker # Idle
  BY WorkerSort DEF ReportsInv, EmitTaskReportDone, EmitTaskReportFailed
<1>2. CASE EmitTaskReportDone
  BY <1>1, <1>2, EmitStep DEF EmitTaskReportDone, TypeOK
<1>3. CASE EmitTaskReportFailed
  <2>1. faults' \in Nat
    BY <1>1, <1>3, FaultType DEF EmitTaskReportFailed
  <2> QED
    BY <1>1, <1>3, <2>1, EmitStep DEF EmitTaskReportFailed
<1> QED
  BY <1>2, <1>3

\* A step that takes the job j, not a new one, to another state.
LEMMA JobStateStep ==
  ASSUME ReportsInv, NEW j \in JobIds, NEW new \in Job, job[j] # NoJob,
         job' = [job EXCEPT ![j] = new],
         new.data = job[j].data,
         new.scope = job[j].scope,
         new.state = "completed" => lastEvent[j] = "done",
         new.state = "failed" => lastEvent[j] = "failed",
         new.state = "waiting" => new.stalledCounter = 1,
         new.state # "active",
         listening[j] => new.state = "waiting" /\ RunsOn(j) /\ worker' = worker,
         \/ worker' = Idle
         \/ /\ worker' = worker
            /\ RunsOn(j) => new.state \in {"waiting", "stalled"} /\ ~worker.locked,
         worker # worker' => RunsOn(j),
         IF new.state = "waiting" THEN new.stalledCounter = job[j].stalledCounter + 1
                                  ELSE new.stalledCounter = job[j].stalledCounter,
         job[j].state = "active",
         UNCHANGED <<rows, request, room, process, history, faults>>
  PROVE  ReportsInv'
<1>1. /\ TypeOK
      /\ job' \in [JobIds -> Job \cup {NoJob}]
      /\ job'[j] = new
      /\ new # NoJob
      /\ \A k \in JobIds \ {j} : job'[k] = job[k]
  BY JobSort DEF ReportsInv, TypeOK
<1>2. TypeOK'
  BY <1>1 DEF TypeOK, rows, history
<1>3. RequestInv'
  BY DEF ReportsInv, RequestInv
<1>4. DataInv' /\ ReportsStayInScope'
  BY <1>1 DEF ReportsInv, DataInv, ReportsStayInScope, Idle
<1>5. EndMatchesLastEvent' /\ ListenersHear'
  BY <1>1 DEF ReportsInv, EndMatchesLastEvent, ListenersHear, Ended, history
<1>6. ListenInv' /\ RoomInv'
  BY <1>1 DEF ReportsInv, ListenInv, RoomInv, RunsOn, Requester, history
<1>7. WorkerInv'
  <2>1. worker # Idle => worker.job \in JobIds
    BY <1>1, WorkerSort DEF Processing
  <2>2. ASSUME NEW k \in JobIds
        PROVE  ScopeOfRun(k)' \subseteq ScopeOfRun(k)
    BY <1>1, <2>2, ScopeShrinks DEF rows
  <2> QED
    BY <1>1, <2>1, <2>2 DEF ReportsInv, WorkerInv, RunsOn, Requester, history
<1>8. SaidInv'
  <2>1. Runs(j)' = Runs(j)
    BY <1>1 DEF Runs
  <2>2. \A k \in JobIds : Runs(k)' = Runs(k)
    BY <1>1, <2>1 DEF Runs
  <2> QED
    BY <2>2, WorkerSort DEF ReportsInv, SaidInv, RunsOn, history
<1> QED
  BY <1>2, <1>3, <1>4, <1>5, <1>6, <1>7, <1>8 DEF ReportsInv

LEMMA FinishStep ==
  ASSUME ReportsInv, Finish
  PROVE  ReportsInv'
<1> DEFINE j == worker.job
           new == [job[j] EXCEPT !.state =
                     IF worker.pc = "return" THEN "completed" ELSE "failed"]
<1>1. /\ TypeOK
      /\ worker \in Processing
      /\ worker # Idle
      /\ j \in JobIds
      /\ worker' = Idle
      /\ worker.pc \in {"return", "throw"}
      /\ ~listening[j]
      /\ UNCHANGED <<rows, request, room, process, history, faults>>
  BY WorkerSort DEF ReportsInv, WorkerInv, Finish, Processing
<1>2. CASE worker.locked
  <2>1. /\ job[j].state = "active"
        /\ job' = [job EXCEPT ![j] = new]
    BY <1>1, <1>2 DEF Finish, ReportsInv, WorkerInv
  <2>2. /\ job[j] # NoJob
        /\ job[j] \in Job
    BY <1>1, <2>1, JobSort
  <2>3. /\ new \in Job
        /\ new.data = job[j].data
        /\ new.scope = job[j].scope
        /\ new.state = IF worker.pc = "return" THEN "completed" ELSE "failed"
        /\ new.stalledCounter = job[j].stalledCounter
    BY <2>2 DEF Job, Ended
  <2>4. /\ worker.pc = "return" => lastEvent[j] = "done"
        /\ worker.pc = "throw" => lastEvent[j] = "failed"
    BY <1>1 DEF ReportsInv, WorkerInv
  <2> HIDE DEF new
  <2> QED
    BY <1>1, <2>1, <2>2, <2>3, <2>4, JobStateStep DEF RunsOn
<1>3. CASE ~worker.locked
  <2>1. job' = job
    BY <1>3 DEF Finish
  <2>2. TypeOK'
    BY <1>1, <2>1 DEF TypeOK, rows, history
  <2>3. RequestInv' /\ DataInv' /\ ReportsStayInScope' /\ EndMatchesLastEvent'
        /\ ListenersHear' /\ RoomInv' /\ WorkerInv'
    BY <1>1, <2>1 DEF ReportsInv, RequestInv, DataInv, ReportsStayInScope,
       EndMatchesLastEvent, ListenersHear, RoomInv, WorkerInv, Requester, Idle, history
  <2>4. ListenInv' /\ SaidInv'
    BY <1>1, <2>1 DEF ReportsInv, ListenInv, SaidInv, Runs, RunsOn, history
  <2> QED
    BY <2>2, <2>3, <2>4 DEF ReportsInv
<1> QED
  BY <1>2, <1>3, <1>1 DEF Processing

LEMMA StallStep ==
  ASSUME ReportsInv, NEW j \in JobIds, Stall(j)
  PROVE  ReportsInv'
<1>1. /\ TypeOK
      /\ job[j].state = "active"
      /\ RunsOn(j) => ~worker.locked
      /\ UNCHANGED <<rows, request, worker, room, process, history, faults>>
  BY DEF ReportsInv, Stall, RunsOn
<1>2. /\ job[j] # NoJob
      /\ job[j] \in Job
  BY <1>1, JobSort
<1> DEFINE waiting == [job[j] EXCEPT !.state = "waiting", !.stalledCounter = 1]
           stalled == [job[j] EXCEPT !.state = "stalled"]
<1>3. CASE job[j].stalledCounter = 0
  <2>1. job' = [job EXCEPT ![j] = waiting]
    BY <1>1, <1>2, <1>3 DEF Stall, TypeOK
  <2>2. /\ waiting \in Job
        /\ waiting.data = job[j].data
        /\ waiting.scope = job[j].scope
        /\ waiting.state = "waiting"
        /\ waiting.stalledCounter = 1
    BY <1>2 DEF Job
  <2>4. 1 = job[j].stalledCounter + 1
    BY <1>3
  <2>3. listening[j] => RunsOn(j)
    BY <1>1 DEF ReportsInv, ListenInv
  <2> HIDE DEF waiting
  <2> QED
    BY <1>1, <1>2, <2>1, <2>2, <2>3, <2>4, JobStateStep
<1>4. CASE job[j].stalledCounter = 1
  <2>1. job' = [job EXCEPT ![j] = stalled]
    BY <1>1, <1>2, <1>4 DEF Stall, TypeOK
  <2>2. /\ stalled \in Job
        /\ stalled.data = job[j].data
        /\ stalled.scope = job[j].scope
        /\ stalled.state = "stalled"
        /\ stalled.stalledCounter = job[j].stalledCounter
    BY <1>2 DEF Job, Ended
  <2>3. ~listening[j]
    BY <1>1, <1>4 DEF ReportsInv, ListenInv
  <2> HIDE DEF stalled
  <2> QED
    BY <1>1, <1>2, <2>1, <2>2, <2>3, JobStateStep
<1> QED
  BY <1>2, <1>3, <1>4 DEF Job

LEMMA ReportsStep ==
  ASSUME ReportsInv, [Next]_vars
  PROVE  ReportsInv'
<1>1. TypeOK /\ Clients \subseteq Users
  BY TypesAssumption DEF ReportsInv
<1>2. ASSUME NEW u \in Clients, HandleConnection(u)
      PROVE  ReportsInv'
  <2>1. TypeOK' /\ room \subseteq room'
    BY <1>1, <1>2 DEF TypeOK, HandleConnection, rows, history
  <2> QED
    BY <1>2, <2>1, OutsideStep DEF HandleConnection, rows
<1>3. ASSUME NEW u \in Users, DeleteUser(u)
      PROVE  ReportsInv'
  <2>1. TypeOK'
    BY <1>1, <1>3 DEF TypeOK, DeleteUser, history
  <2> QED
    BY <1>3, <2>1, OutsideStep DEF DeleteUser
<1>4. ASSUME NEW t \in TaskIds, NEW u \in Users, Reassign(t, u)
      PROVE  ReportsInv'
  <2>1. TypeOK'
    BY <1>1, <1>4 DEF TypeOK, Reassign, history
  <2> QED
    BY <1>4, <2>1, OutsideStep DEF Reassign
<1>5. CASE Exit \/ Restart
  <2>1. TypeOK'
    BY <1>1, <1>5 DEF TypeOK, Exit, Restart, rows, history
  <2> QED
    BY <1>5, <2>1, OutsideStep DEF Exit, Restart, rows
<1>6. CASE UNCHANGED vars
  <2>1. TypeOK'
    BY <1>1, <1>6 DEF TypeOK, vars
  <2> QED
    BY <1>6, <2>1, OutsideStep DEF vars, history
<1>7. CASE WorkerStep
  BY <1>7, FetchStep, ReadSteps, EmitSteps, FinishStep DEF WorkerStep
<1>8. CASE EmitTaskReportFailed \/ LoseLock \/ CloseWithTimeout \/ Crash
  BY <1>8, EmitSteps, ReadSteps, EndStep
<1>9. ASSUME NEW r \in Requests, NEW j \in JobIds, AddJob(r, j) \/ AddFailed(r, j)
      PROVE  ReportsInv'
  BY <1>9, AddStep
<1>10. ASSUME NEW u \in Clients, HandleDisconnect(u)
       PROVE  ReportsInv'
  BY <1>1, <1>10, DisconnectStep
<1>11. ASSUME NEW r \in Requests, NEW u \in Users,
              NEW target \in Users \cup {Undefined}, CreateTaskReport(r, u, target)
       PROVE  ReportsInv'
  BY <1>11, CreateStep
<1>12. ASSUME NEW j \in JobIds, Stall(j)
       PROVE  ReportsInv'
  BY <1>12, StallStep
<1> QED
  BY <1>2, <1>3, <1>4, <1>5, <1>6, <1>7, <1>8, <1>9, <1>10, <1>11, <1>12
     DEF Next, ReportsController

LEMMA ReportsInvariant == Spec => []ReportsInv
  BY ReportsInit, ReportsStep, PTL DEF Spec

-----------------------------------------------------------------------------
(***************************************************************************)
(* The refinement of ReportPromise: initial states map to initial states,    *)
(* and every step to a step of the promise or to a stutter.                  *)
(***************************************************************************)

\* What the requester sees, as functions of the jobs.
RequesterView == [j \in JobIds |-> RequesterOf(j)]
FateView      == [j \in JobIds |-> JobFate(j)]

LEMMA FateSort ==
  ASSUME TypeOK, NEW j \in JobIds
  PROVE  /\ job[j] = NoJob => JobFate(j) = "none" /\ RequesterOf(j) = Undefined
         /\ job[j].state \in {"waiting", "active"} =>
              JobFate(j) = "pending" /\ RequesterOf(j) = Requester(j)
         /\ job[j].state \in Ended =>
              JobFate(j) = job[j].state /\ RequesterOf(j) = Requester(j)
BY DEF JobFate, RequesterOf, NoJob, Ended

LEMMA InitMaps ==
  ASSUME Init
  PROVE  Promise!Init
<1>1. RequesterView = [j \in JobIds |-> Undefined] /\ FateView = [j \in JobIds |-> "none"]
  BY DEF Init, RequesterView, FateView, RequesterOf, JobFate, NoJob
<1> QED
  BY <1>1 DEF Init, Promise!Init, RequesterView, FateView

\* Two kinds of step the requester does not see: those that leave the jobs
\* alone, and those that keep a job pending.
LEMMA UnseenStep ==
  ASSUME \A j \in JobIds : job'[j] = job[j],
         UNCHANGED <<history, room>>
  PROVE  UNCHANGED Promise!vars
<1>1. UNCHANGED <<RequesterView, FateView>>
  BY DEF RequesterView, FateView, RequesterOf, JobFate, Requester
<1> QED
  BY <1>1 DEF Promise!vars, RequesterView, FateView, history

\* A step that takes the job j, not a new one, to another state.
LEMMA JobMoves ==
  ASSUME TypeOK, NEW j \in JobIds, NEW state, job[j] # NoJob,
         job[j].state \in {"waiting", "active"},
         state \in {"waiting", "active"} \cup Ended,
         job'[j] # NoJob,
         job'[j].state = state,
         job'[j].data = job[j].data,
         \A k \in JobIds \ {j} : job'[k] = job[k]
  PROVE  /\ RequesterView' = RequesterView
         /\ state \in {"waiting", "active"} => FateView' = FateView
         /\ state \in Ended => FateView' = [FateView EXCEPT ![j] = state]
         /\ FateView[j] = "pending"
<1>1. RequesterOf(j)' = RequesterOf(j)
  BY DEF RequesterOf, Requester
<1>2. \A k \in JobIds : RequesterOf(k)' = RequesterOf(k)
  BY <1>1 DEF RequesterOf, Requester
<1>3. RequesterView' = RequesterView
  BY <1>2 DEF RequesterView
<1>4. /\ JobFate(j) = "pending"
      /\ JobFate(j)' = IF state \in {"waiting", "active"} THEN "pending" ELSE state
  BY DEF JobFate
<1>5. \A k \in JobIds \ {j} : JobFate(k)' = JobFate(k)
  BY DEF JobFate
<1>6. state \in {"waiting", "active"} => FateView' = FateView
  BY <1>4, <1>5 DEF FateView
<1>7. state \in Ended => FateView' = [FateView EXCEPT ![j] = state]
  <2>1. state \in Ended => JobFate(j)' = state
    BY <1>4 DEF Ended
  <2> QED
    BY <1>5, <2>1 DEF FateView
<1> QED
  BY <1>3, <1>4, <1>6, <1>7 DEF FateView

\* queue.add() accepts.
LEMMA AddMaps ==
  ASSUME ReportsInv, NEW r \in Requests, NEW j \in JobIds, AddJob(r, j) \/ AddFailed(r, j)
  PROVE  [Promise!Next]_(Promise!vars)
<1> DEFINE u == request[r].data.requestedBy
<1>1. /\ TypeOK
      /\ u \in Users
      /\ UNCHANGED <<room, lastEvent, announced>>
  BY RequestSort DEF ReportsInv, AddJob, AddFailed, TasksReportJobPayload
<1>2. CASE UNCHANGED <<job, listening>>
  BY <1>1, <1>2, UnseenStep DEF history
<1>3. CASE NewJob(r, j)
  <2>1. /\ job[j] = NoJob
        /\ job'[j] # NoJob
        /\ job'[j].state = "waiting"
        /\ job'[j].data = request[r].data
        /\ \A k \in JobIds \ {j} : job'[k] = job[k]
    BY <1>1, <1>3 DEF NewJob, TypeOK, NoJob
  <2>2. /\ RequesterOf(j)' = u
        /\ JobFate(j) = "none"
        /\ JobFate(j)' = "pending"
    BY <2>1 DEF RequesterOf, Requester, JobFate, NoJob
  <2>3. \A k \in JobIds \ {j} :
          RequesterOf(k)' = RequesterOf(k) /\ JobFate(k)' = JobFate(k)
    BY <2>1 DEF RequesterOf, Requester, JobFate
  <2>4. /\ FateView[j] = "none"
        /\ FateView' = [FateView EXCEPT ![j] = "pending"]
        /\ RequesterView' = [RequesterView EXCEPT ![j] = u]
    BY <2>2, <2>3 DEF FateView, RequesterView
  <2>5. listening' = [listening EXCEPT ![j] = u \in room]
    BY <1>3 DEF NewJob
  <2>6. Promise!Accept(j, u)
    BY <1>1, <2>4, <2>5 DEF Promise!Accept, FateView, RequesterView
  <2> QED
    BY <1>1, <2>6 DEF Promise!Next
<1> QED
  BY <1>2, <1>3 DEF AddJob, AddFailed

\* A connection enters its room, a disconnection leaves it; with the process
\* everybody leaves.
LEMMA RoomMaps ==
  ASSUME ReportsInv,
         \/ \E u \in Clients : HandleConnection(u) \/ HandleDisconnect(u)
         \/ CloseWithTimeout
         \/ Crash
  PROVE  Promise!Next
<1>0. TypeOK /\ RoomInv /\ Clients \subseteq Users
  BY TypesAssumption DEF ReportsInv
<1>1. ASSUME UNCHANGED job
      PROVE  UNCHANGED <<RequesterView, FateView>>
  BY <1>1 DEF RequesterView, FateView, RequesterOf, JobFate, Requester
<1>2. ASSUME NEW u \in Users, HandleConnection(u)
      PROVE  Promise!Next
  <2>1. Promise!Enter(u)
    BY <1>1, <1>2 DEF HandleConnection, Promise!Enter, RequesterView, FateView, history
  <2> QED
    BY <2>1 DEF Promise!Next
<1>3. ASSUME NEW us \in SUBSET Users,
             room' = room \ us,
             \A j \in JobIds : listening'[j] <=> listening[j] /\ Requester(j) \notin us,
             listening' \in [JobIds -> BOOLEAN],
             UNCHANGED <<job, lastEvent, announced>>
      PROVE  Promise!Next
  <2>1. ASSUME NEW j \in JobIds
        PROVE  listening'[j] = (listening[j] /\ RequesterView[j] \notin us)
    <3>1. listening[j] => RequesterView[j] = Requester(j)
      BY <1>0 DEF RoomInv, RequesterView, RequesterOf
    <3>2. listening'[j] \in BOOLEAN /\ listening[j] \in BOOLEAN
      BY <1>0, <1>3 DEF TypeOK
    <3> QED
      BY <1>3, <3>1, <3>2
  <2>2. listening' = [j \in JobIds |-> listening[j] /\ RequesterView[j] \notin us]
    BY <1>3, <2>1
  <2>3. Promise!Leave(us)
    BY <1>1, <1>3, <2>2 DEF Promise!Leave, RequesterView, FateView
  <2> QED
    BY <2>3 DEF Promise!Next
<1>4. ASSUME NEW u \in Users, HandleDisconnect(u)
      PROVE  Promise!Next
  <2>1. /\ room' = room \ {u}
        /\ \A j \in JobIds : listening'[j] <=> listening[j] /\ Requester(j) \notin {u}
        /\ listening' \in [JobIds -> BOOLEAN]
        /\ UNCHANGED <<job, lastEvent, announced>>
    BY <1>0, <1>4 DEF HandleDisconnect, TypeOK
  <2> QED
    BY <1>3, <2>1
<1>5. ASSUME EndOfWork
      PROVE  Promise!Next
  <2>1. /\ room' = room \ room
        /\ room \in SUBSET Users
        /\ \A j \in JobIds : listening'[j] <=> listening[j] /\ Requester(j) \notin room
        /\ listening' \in [JobIds -> BOOLEAN]
        /\ UNCHANGED <<job, lastEvent, announced>>
    BY <1>0, <1>5 DEF EndOfWork, TypeOK, RoomInv
  <2> QED
    BY <1>3, <2>1
<1> QED
  BY <1>0, <1>2, <1>4, <1>5 DEF CloseWithTimeout, Crash

\* An event about the worker's job, which has not been announced twice.
LEMMA EmitMaps ==
  ASSUME ReportsInv, EmitTaskReportDone \/ EmitTaskReportFailed
  PROVE  Promise!Next
<1> DEFINE j == worker.job
<1>1. /\ TypeOK
      /\ worker # Idle
      /\ worker.pc \notin {"return", "throw"}
      /\ j \in JobIds
      /\ job[j].state \in {"waiting", "active", "stalled"}
      /\ UNCHANGED <<job, room>>
  BY WorkerSort
     DEF ReportsInv, WorkerInv, Processing, EmitTaskReportDone, EmitTaskReportFailed
<1>2. /\ FateView[j] \in {"pending", "stalled"}
      /\ RequesterView[j] = Requester(j)
  BY <1>1, FateSort DEF FateView, RequesterView, Ended
<1>3. announced[j] < 2
  <2>1. announced[j] < Runs(j)
    BY <1>1 DEF ReportsInv, SaidInv, RunsOn
  <2>2. job[j] \in Job
    BY <1>1, JobSort
  <2>3. announced[j] \in Nat /\ Runs(j) \in {0, 1, 2}
    BY <1>1, <2>2 DEF TypeOK, Runs, Job
  <2> QED
    BY <2>1, <2>3
<1>4. UNCHANGED <<RequesterView, FateView>>
  BY <1>1 DEF RequesterView, FateView, RequesterOf, JobFate, Requester
<1>5. ASSUME NEW event, EmitToUser(j, event)
      PROVE  Promise!Announce(j, event)
  <2>1. announced' = [announced EXCEPT ![j] = announced[j] + 1]
    BY <1>5 DEF EmitToUser
  <2>2. listening' = [listening EXCEPT ![j] = listening[j] /\ RequesterView[j] \notin room]
    BY <1>2, <1>5 DEF EmitToUser
  <2>3. lastEvent' = [lastEvent EXCEPT ![j] = event]
    BY <1>5 DEF EmitToUser
  <2> QED
    BY <1>1, <1>2, <1>3, <1>4, <2>1, <2>2, <2>3
       DEF Promise!Announce, RequesterView, FateView
<1>6. \E event \in {"done", "failed"} : Promise!Announce(j, event)
  BY <1>5 DEF EmitTaskReportDone, EmitTaskReportFailed
<1> QED
  BY <1>1, <1>6 DEF Promise!Next

\* A fetch and a first stall are not seen; a second stall ends the job.
LEMMA QueueMaps ==
  ASSUME ReportsInv, ReportsInv', NEW j \in JobIds, Fetch(j) \/ Stall(j)
  PROVE  [Promise!Next]_(Promise!vars)
<1> DEFINE state == job'[j].state
<1>1. /\ TypeOK
      /\ job[j] \in Job
      /\ job[j].state \in {"waiting", "active"}
      /\ UNCHANGED <<room, history>>
  BY JobSort DEF ReportsInv, Fetch, Stall
<1>2. /\ job'[j] # NoJob
      /\ job'[j].data = job[j].data
      /\ state \in {"waiting", "active", "stalled"}
      /\ \A k \in JobIds \ {j} : job'[k] = job[k]
  BY <1>1 DEF Fetch, Stall, TypeOK, Job, NoJob
<1>3. job[j] # NoJob
  BY <1>1, JobSort
<1>4. CASE state \in {"waiting", "active"}
  <2>1. UNCHANGED <<RequesterView, FateView>>
    BY <1>1, <1>2, <1>3, <1>4, JobMoves
  <2> QED
    BY <1>1, <2>1 DEF Promise!vars, RequesterView, FateView, history
<1>5. CASE state = "stalled"
  <2>1. /\ RequesterView' = RequesterView
        /\ FateView' = [FateView EXCEPT ![j] = "stalled"]
        /\ FateView[j] = "pending"
    BY <1>1, <1>2, <1>3, <1>5, JobMoves DEF Ended
  <2>2. ~listening[j]
    <3>1. ~listening'[j]
      BY <1>5 DEF ReportsInv, ListenersHear, Ended
    <3> QED
      BY <1>1, <3>1 DEF history
  <2>3. Promise!End(j, "stalled")
    BY <1>1, <2>1, <2>2 DEF Promise!End, RequesterView, FateView, history
  <2> QED
    BY <2>3 DEF Promise!Next
<1> QED
  BY <1>2, <1>4, <1>5

\* The job ends as it was last announced, or the worker has lost it.
LEMMA FinishMaps ==
  ASSUME ReportsInv, Finish
  PROVE  [Promise!Next]_(Promise!vars)
<1> DEFINE j == worker.job
           state == IF worker.pc = "return" THEN "completed" ELSE "failed"
<1>1. /\ TypeOK
      /\ worker # Idle
      /\ j \in JobIds
      /\ worker.pc \in {"return", "throw"}
      /\ ~listening[j]
      /\ lastEvent[j] = IF worker.pc = "return" THEN "done" ELSE "failed"
      /\ UNCHANGED <<room, history>>
  BY WorkerSort DEF ReportsInv, WorkerInv, Processing, Finish
<1>2. CASE worker.locked
  <2>1. /\ job[j].state = "active"
        /\ job[j] \in Job
        /\ job' = [job EXCEPT ![j].state = state]
    BY <1>1, <1>2, JobSort DEF ReportsInv, WorkerInv, Finish
  <2>2. /\ job'[j] # NoJob
        /\ job'[j].state = state
        /\ job'[j].data = job[j].data
        /\ \A k \in JobIds \ {j} : job'[k] = job[k]
    BY <1>1, <2>1 DEF TypeOK, Job, NoJob
  <2>3. job[j] # NoJob
    BY <1>1, <2>1, JobSort
  <2>4. /\ RequesterView' = RequesterView
        /\ FateView' = [FateView EXCEPT ![j] = state]
        /\ FateView[j] = "pending"
    BY <1>1, <2>1, <2>2, <2>3, JobMoves DEF Ended
  <2>5. Promise!End(j, state)
    BY <1>1, <2>4 DEF Promise!End, RequesterView, FateView, history
  <2> QED
    BY <1>1, <2>5 DEF Promise!Next
<1>3. CASE ~worker.locked
  BY <1>1, <1>3, UnseenStep DEF Finish
<1> QED
  BY <1>1, <1>2, <1>3, WorkerSort DEF Processing

LEMMA StepMaps ==
  ASSUME ReportsInv, ReportsInv', [Next]_vars
  PROVE  [Promise!Next]_(Promise!vars)
<1>1. ASSUME \/ \E r \in Requests : ReportsController(r)
             \/ FindEmployees \/ FindManagers \/ FindTasks \/ LoseLock
             \/ Exit \/ Restart
             \/ \E u \in Users : DeleteUser(u)
             \/ \E t \in TaskIds, u \in Users : Reassign(t, u)
             \/ UNCHANGED vars
      PROVE  UNCHANGED Promise!vars
  <2>1. UNCHANGED <<job, history, room>>
    BY <1>1 DEF ReportsController, CreateTaskReport, FindEmployees, FindManagers,
       FindTasks, LoseLock, Exit, Restart, DeleteUser, Reassign, vars, history
  <2> QED
    BY <2>1, UnseenStep
<1>2. CASE WorkerStep
  BY <1>1, <1>2, QueueMaps, EmitMaps, FinishMaps DEF WorkerStep
<1>3. ASSUME NEW r \in Requests, NEW j \in JobIds, AddJob(r, j) \/ AddFailed(r, j)
      PROVE  [Promise!Next]_(Promise!vars)
  BY <1>3, AddMaps
<1>4. ASSUME NEW j \in JobIds, Stall(j)
      PROVE  [Promise!Next]_(Promise!vars)
  BY <1>4, QueueMaps
<1> QED
  BY <1>1, <1>2, <1>3, <1>4, RoomMaps, EmitMaps DEF Next

-----------------------------------------------------------------------------
(***************************************************************************)
(* The theorems.                                                           *)
(***************************************************************************)
\* Requests, jobs, the worker and what was sent keep their types, whatever is
\* deleted, reassigned, disconnected or killed between their steps.
THEOREM TypeCorrect == Spec => []TypeOK
  BY ReportsInvariant, PTL DEF ReportsInv

\* createTaskReport() and getAssigneeIds() between them never let a report count
\* a user that its requester may not ask about or, the requester aside, one who was
\* deleted when it was looked up, whoever is deleted between their reads.
THEOREM ReportsOnlyInScope == Spec => []ReportsStayInScope
  BY ReportsInvariant, PTL DEF ReportsInv

\* A completed job was last announced as done and a failed one as failed, after
\* any number of lost locks, stalls and runs of process().
THEOREM EndsAsTold == Spec => []EndMatchesLastEvent
  BY ReportsInvariant, PTL DEF ReportsInv

\* A job ends only when a requester who never left its room has been told.
THEOREM ListenersAreTold == Spec => []ListenersHear
  BY ReportsInvariant, PTL DEF ReportsInv

\* The worker, its queue and the gateway implement ReportPromise, however often
\* locks are lost and jobs stall: at most two announcements of a job, none once it
\* has completed or failed, no end that a listener misses.
THEOREM ReportsKeepPromise == Spec => KeepsPromise
<1>1. ReportsInv /\ ReportsInv' /\ [Next]_vars => [Promise!Next]_(Promise!vars)
  BY StepMaps
<1> QED
  BY <1>1, InitMaps, ReportsInvariant, PTL DEF Spec, KeepsPromise, Promise!Spec
=============================================================================
