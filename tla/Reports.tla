------------------------------ MODULE Reports ------------------------------
(***************************************************************************)
(* Reports on tasks: POST /reports/tasks puts a job in a BullMQ queue, the   *)
(* worker of the one API process computes the report by reading users and    *)
(* tasks, and the gateway sends it to the sockets of who asked for it.  Jobs  *)
(* are removed when they end (app.module.ts:73), so the event is the only    *)
(* trace of a result.                                                       *)
(*                                                                         *)
(* A report is abstracted to the set of users whose tasks it counts.  Users  *)
(* are deleted and tasks reassigned meanwhile; the field scope of requests,  *)
(* jobs and the worker is history: whom their report may count.              *)
(***************************************************************************)
EXTENDS Policy, FiniteSets

CONSTANTS
  Organizations,
  Users,
  Account,          \* Account[u]: role and organization, fixed once created
  TaskIds,
  InitialAssignee,  \* InitialAssignee[t]: who has t at the beginning
  JobIds,           \* bound: the jobs that can be created
  Requests,         \* concurrent requests for reports
  Clients,          \* bound: the users who open sockets
  MaxFaults,        \* bound: failing calls, lost locks, ends of the process
  MaxDeletions      \* bound: users that are deleted

ASSUME TypesAssumption ==
  /\ Account \in [Users -> [role : UserRole, organizationId : Organizations]]
  /\ InitialAssignee \in [TaskIds -> Users]
  /\ Clients \subseteq Users
  /\ MaxFaults \in Nat
  /\ MaxDeletions \in Nat

ASSUME UndefinedAssumption == Undefined \notin Users

VARIABLES
  liveUsers,   \* the users whose deleted_at is null
  assignee,    \* assignee[t]: the assignee of t
  request,     \* the requests under way
  job,         \* job[j]: a job of the queue, and what became of it, or NoJob
  worker,      \* what the worker is doing
  room,        \* the users with a socket in their room
  process,     \* the API process, which contains gateway and worker
  lastEvent,   \* history: the last event sent about j
  announced,   \* history: how many events were sent about j
  listening,   \* history: the requester is in its room since the POST, not yet told
  faults

rows    == <<liveUsers, assignee>>
history == <<lastEvent, announced, listening>>
vars    == <<liveUsers, assignee, request, job, worker, room, process,
             lastEvent, announced, listening, faults>>

TasksReportJobPayload == [requestedBy : Users, target : Users \cup {Undefined}]

NoJob == [state |-> "none"]

Ended == {"completed", "failed", "stalled"}

Job == [state : {"waiting", "active"} \cup Ended, data : TasksReportJobPayload,
        scope : SUBSET Users, stalledCounter : {0, 1}]

Idle == [pc |-> "idle"]

RequestState ==
  {Idle} \cup [pc : {"add"}, data : TasksReportJobPayload, scope : SUBSET Users]

\* Processing a job: locked tells whether the worker still holds its lock.
Processing ==
  [pc : {"employees", "managers", "tasks", "delay", "return", "throw"},
   job : JobIds, locked : BOOLEAN, scope : SUBSET Users,
   assigneeIds : SUBSET Users, report : SUBSET Users]

TypeOK ==
  /\ liveUsers \subseteq Users
  /\ assignee \in [TaskIds -> Users]
  /\ request \in [Requests -> RequestState]
  /\ job \in [JobIds -> Job \cup {NoJob}]
  /\ worker \in Processing \cup {Idle}
  /\ room \subseteq Users
  /\ process \in {"up", "closed", "hung", "down"}
  /\ lastEvent \in [JobIds -> {"none", "done", "failed"}]
  /\ announced \in [JobIds -> Nat]
  /\ listening \in [JobIds -> BOOLEAN]
  /\ faults \in Nat

Init ==
  /\ liveUsers = Users
  /\ assignee = InitialAssignee
  /\ request = [r \in Requests |-> Idle]
  /\ job = [j \in JobIds |-> NoJob]
  /\ worker = Idle
  /\ room = {}
  /\ process = "up"
  /\ lastEvent = [j \in JobIds |-> "none"]
  /\ announced = [j \in JobIds |-> 0]
  /\ listening = [j \in JobIds |-> FALSE]
  /\ faults = 0

Fault == faults < MaxFaults /\ faults' = faults + 1

-----------------------------------------------------------------------------
(***************************************************************************)
(* createTaskReport()                                                      *)
(***************************************************************************)

AllowedCreateTaskReportRoles ==
  [owner    |-> {"manager", "employee"},
   manager  |-> {"employee"},
   employee |-> {}]

CanRequestTaskReportForTarget(u, target) ==
  \/ u = target
  \/ Account[target].role \in AllowedCreateTaskReportRoles[Account[u].role]

SameOrganization(u, v) == Account[u].organizationId = Account[v].organizationId

\* The table of TS.md:368-372, deletions aside: whom a report for u may count.
ReportsOn ==
  [u \in Users |-> {u} \cup
     {v \in Users :
        /\ SameOrganization(u, v)
        /\ \/ Account[v].role = "employee" /\ Account[u].role \in {"manager", "owner"}
           \/ Account[v].role = "manager" /\ Account[u].role = "owner"}]

\* History: whom a report of data may count if it is judged now, none of them
\* deleted but perhaps the requester; of these, if there is a target, the target.
Scope(data) ==
  {v \in ReportsOn[data.requestedBy] \cap (liveUsers \cup {data.requestedBy}) :
     data.target \in {v, Undefined}}

\* The caller is the payload of an access token, valid for deleted users too.
CreateTaskReport(r, u, target) ==
  LET data == [requestedBy |-> u, target |-> target]
  IN  /\ process = "up"
      /\ request[r] = Idle
      /\ target # Undefined =>
           /\ target \in liveUsers
           /\ SameOrganization(u, target)
           /\ CanRequestTaskReportForTarget(u, target)
      /\ request' = [request EXCEPT ![r] =
           [pc |-> "add", data |-> data, scope |-> Scope(data)]]
      /\ UNCHANGED <<rows, job, worker, room, process, history, faults>>

NewJob(r, j) ==
  /\ job[j] = NoJob
  /\ job' = [job EXCEPT ![j] =
       [state |-> "waiting", data |-> request[r].data, scope |-> request[r].scope,
        stalledCounter |-> 0]]
  /\ listening' = [listening EXCEPT ![j] =
       request[r].data.requestedBy \in room]

AddJob(r, j) ==
  /\ request[r].pc = "add"
  /\ NewJob(r, j)
  /\ request' = [request EXCEPT ![r] = Idle]
  /\ UNCHANGED <<rows, worker, room, process, lastEvent, announced, faults>>

\* An answer 500; the job may have been added all the same.
AddFailed(r, j) ==
  /\ request[r].pc = "add"
  /\ Fault
  /\ NewJob(r, j) \/ UNCHANGED <<job, listening>>
  /\ request' = [request EXCEPT ![r] = Idle]
  /\ UNCHANGED <<rows, worker, room, process, lastEvent, announced>>

Requester(j) == job[j].data.requestedBy

-----------------------------------------------------------------------------
(***************************************************************************)
(* The gateway.                                                            *)
(***************************************************************************)

\* handleConnection: a connection counts from the end of its second await, when
\* it has joined; one whose token does not verify never does.
HandleConnection(u) ==
  /\ process = "up"
  /\ u \notin room
  /\ room' = room \cup {u}
  /\ UNCHANGED <<rows, request, job, worker, process, history, faults>>

HandleDisconnect(u) ==
  /\ u \in room
  /\ room' = room \ {u}
  /\ listening' = [j \in JobIds |-> listening[j] /\ Requester(j) # u]
  /\ UNCHANGED <<rows, request, job, worker, process, lastEvent, announced, faults>>

\* Mutant: the event goes to whom the report is about.
EmitToTarget(j, event) ==
  LET to == IF job[j].data.target = Undefined
              THEN Requester(j) ELSE job[j].data.target
  IN  /\ lastEvent' = [lastEvent EXCEPT ![j] = event]
      /\ announced' = [announced EXCEPT ![j] = @ + 1]
      /\ listening' = [listening EXCEPT ![j] = @ /\ to \notin room]

\* emitToUser: who is in the room now gets the event, nobody gets it later.
EmitToUser(j, event) ==
  /\ lastEvent' = [lastEvent EXCEPT ![j] = event]
  /\ announced' = [announced EXCEPT ![j] = @ + 1]
  /\ listening' = [listening EXCEPT ![j] = @ /\ Requester(j) \notin room]

-----------------------------------------------------------------------------
(***************************************************************************)
(* process() of the worker, which has one job at a time.                   *)
(***************************************************************************)

\* Mutant: deleted users are found too.
FindsDeletedUsers(j, role) ==
  {u \in Users : Account[u].role = role /\ SameOrganization(u, Requester(j))}

\* The select of the users of a role in the requester's organization.
FindAllUsers(j, role) ==
  {u \in liveUsers : Account[u].role = role /\ SameOrganization(u, Requester(j))}

\* Mutant: the target is taken whether there is one or not.
FirstAssigneeIds(j) == {job[j].data.target}

\* getAssigneeIds before its first await.
AssigneeIds(j) ==
  IF job[j].data.target # Undefined THEN {job[j].data.target} ELSE {Requester(j)}

\* History: whom the run of j that begins may count.
ScopeOfRun(j) ==
  IF job[j].data.target = Undefined THEN Scope(job[j].data) ELSE job[j].scope

Fetch(j) ==
  /\ process = "up"
  /\ worker = Idle
  /\ job[j].state = "waiting"
  /\ job' = [job EXCEPT ![j].state = "active"]
  /\ worker' = [pc |-> IF \/ job[j].data.target # Undefined
                           \/ Account[Requester(j)].role = "employee"
                         THEN "tasks" ELSE "employees",
                job |-> j, locked |-> TRUE, scope |-> ScopeOfRun(j),
                assigneeIds |-> AssigneeIds(j), report |-> {}]
  /\ UNCHANGED <<rows, request, room, process, history, faults>>

FindEmployees ==
  LET j == worker.job
  IN  /\ worker.pc = "employees"
      /\ worker' = [worker EXCEPT
           !.pc = IF Account[Requester(j)].role = "owner" THEN "managers" ELSE "tasks",
           !.assigneeIds = @ \cup FindAllUsers(j, "employee")]
      /\ UNCHANGED <<rows, request, job, room, process, history, faults>>

FindManagers ==
  /\ worker.pc = "managers"
  /\ worker' = [worker EXCEPT
       !.pc = "tasks",
       !.assigneeIds = @ \cup FindAllUsers(worker.job, "manager")]
  /\ UNCHANGED <<rows, request, job, room, process, history, faults>>

\* The select of the tasks, and the report over them; the organization of a task
\* is that of its assignee (TenantConsistent of Tasks).
FindTasks ==
  /\ worker.pc = "tasks"
  /\ worker' = [worker EXCEPT
       !.pc = "delay",
       !.report = {u \in worker.assigneeIds :
         /\ SameOrganization(u, Requester(worker.job))
         /\ \E t \in TaskIds : assignee[t] = u}]
  /\ UNCHANGED <<rows, request, job, room, process, history, faults>>

\* After the delay: tasks-report:done, then the return.
EmitTaskReportDone ==
  LET j == worker.job
  IN  /\ worker.pc = "delay"
      /\ EmitToUser(j, "done")
      /\ worker' = [worker EXCEPT !.pc = "return"]
      /\ UNCHANGED <<rows, request, job, room, process, faults>>

\* Mutant: the error ends in the catch.
CatchWithoutThrow ==
  /\ worker.pc \in {"employees", "managers", "tasks"}
  /\ Fault
  /\ EmitToUser(worker.job, "failed")
  /\ worker' = [worker EXCEPT !.pc = "return"]
  /\ UNCHANGED <<rows, request, job, room, process>>

\* A select fails: tasks-report:failed, then the throw.
EmitTaskReportFailed ==
  /\ worker.pc \in {"employees", "managers", "tasks"}
  /\ Fault
  /\ EmitToUser(worker.job, "failed")
  /\ worker' = [worker EXCEPT !.pc = "throw"]
  /\ UNCHANGED <<rows, request, job, room, process>>

-----------------------------------------------------------------------------
(***************************************************************************)
(* The queue, one attempt for each job, and the process.                    *)
(***************************************************************************)

\* The job ends as process() ended, if the worker still holds its lock.
Finish ==
  LET j == worker.job
  IN  /\ worker.pc \in {"return", "throw"}
      /\ worker' = Idle
      /\ job' = IF worker.locked
                  THEN [job EXCEPT ![j].state =
                          IF worker.pc = "return" THEN "completed" ELSE "failed"]
                  ELSE job
      /\ UNCHANGED <<rows, request, room, process, history, faults>>

LoseLock ==
  /\ worker # Idle
  /\ worker.locked
  /\ Fault
  /\ worker' = [worker EXCEPT !.locked = FALSE]
  /\ UNCHANGED <<rows, request, job, room, process, history>>

\* Mutant: stalled jobs wait again however often they stalled.
StallAgain(j) ==
  /\ process = "up"
  /\ job[j].state = "active"
  /\ ~(worker # Idle /\ worker.job = j /\ worker.locked)
  /\ job' = [job EXCEPT ![j].state = "waiting"]
  /\ UNCHANGED <<rows, request, worker, room, process, history, faults>>

\* The check for stalled jobs: the first time the job waits again, the second
\* time it fails and process() does not learn of it.
Stall(j) ==
  /\ process = "up"
  /\ job[j].state = "active"
  /\ ~(worker # Idle /\ worker.job = j /\ worker.locked)
  /\ job' = IF job[j].stalledCounter = 0
              THEN [job EXCEPT ![j].state = "waiting", ![j].stalledCounter = 1]
              ELSE [job EXCEPT ![j].state = "stalled"]
  /\ UNCHANGED <<rows, request, worker, room, process, history, faults>>

\* What ends with the process.
EndOfWork ==
  /\ worker' = Idle
  /\ request' = [r \in Requests |-> Idle]
  /\ room' = {}
  /\ listening' = [j \in JobIds |-> FALSE]
  /\ UNCHANGED <<rows, job, lastEvent, announced>>

\* A signal or an uncaught error: close() ends, or its timeout comes first.  What
\* the worker still finishes while close() waits for it comes before this step.
CloseWithTimeout ==
  /\ process = "up"
  /\ Fault
  /\ process' \in {"closed", "hung"}
  /\ EndOfWork

\* The process is killed.
Crash ==
  /\ process = "up"
  /\ Fault
  /\ process' = "down"
  /\ EndOfWork

\* Mutant: exit() only after a close() that ended.
ExitWhenClosed ==
  /\ process = "closed"
  /\ process' = "down"
  /\ UNCHANGED <<rows, request, job, worker, room, history, faults>>

Exit ==
  /\ process \in {"closed", "hung"}
  /\ process' = "down"
  /\ UNCHANGED <<rows, request, job, worker, room, history, faults>>

Restart ==
  /\ process = "down"
  /\ process' = "up"
  /\ UNCHANGED <<rows, request, job, worker, room, history, faults>>

\* Whose deletion somebody may ask for: never an owner.
DeleteUser(u) ==
  /\ u \in liveUsers
  /\ \E actor \in Users \ {u} :
       /\ SameOrganization(actor, u)
       /\ Account[u].role \in AllowedUserRoles[Account[actor].role]
  /\ Cardinality(Users \ liveUsers) < MaxDeletions
  /\ liveUsers' = liveUsers \ {u}
  /\ UNCHANGED <<assignee, request, job, worker, room, process, history, faults>>

Reassign(t, u) ==
  /\ u \in liveUsers
  /\ SameOrganization(u, assignee[t])
  /\ assignee' = [assignee EXCEPT ![t] = u]
  /\ UNCHANGED <<liveUsers, request, job, worker, room, process, history, faults>>

-----------------------------------------------------------------------------
\* The one route, open to every role; createTaskReport() judges the target.
ReportsController(r) ==
  \E u \in Users, target \in Users \cup {Undefined} :
    Auth({}, Account[u]) /\ CreateTaskReport(r, u, target)

WorkerStep ==
  \/ \E j \in JobIds : Fetch(j)
  \/ FindEmployees
  \/ FindManagers
  \/ FindTasks
  \/ EmitTaskReportDone
  \/ Finish

Next ==
  \/ \E r \in Requests : ReportsController(r)
  \/ \E r \in Requests, j \in JobIds : AddJob(r, j) \/ AddFailed(r, j)
  \/ \E u \in Clients : HandleConnection(u) \/ HandleDisconnect(u)
  \/ WorkerStep
  \/ EmitTaskReportFailed
  \/ LoseLock
  \/ \E j \in JobIds : Stall(j)
  \/ CloseWithTimeout
  \/ Crash
  \/ Exit
  \/ Restart
  \/ \E u \in Users : DeleteUser(u)
  \/ \E t \in TaskIds, u \in Users : Reassign(t, u)

Spec == Init /\ [][Next]_vars

\* The worker fetches and works, stalled jobs are looked for, both handlers of
\* closeWithTimeout() exit, and docker restarts the process.
FairSpec ==
  /\ Spec
  /\ WF_vars(WorkerStep)
  /\ \A j \in JobIds : WF_vars(Stall(j))
  /\ WF_vars(Exit)
  /\ WF_vars(Restart)

-----------------------------------------------------------------------------
(***************************************************************************)
(* Properties.                                                             *)
(***************************************************************************)

\* Besides its requester a report that is sent counts users of the requester's
\* organization, of a role it reports on, who were not deleted: those the worker
\* finds, when it took the job up, long after the POST; a given target, when the
\* POST was judged.  A target deleted between report.service.ts:29 and the worker,
\* which does not look at it again (tasks-report-processor.ts:29), is counted.
ReportsStayInScope ==
  worker.pc \in {"delay", "return"} => worker.report \subseteq worker.scope

\* What became of a job is what was last said of it, however often it ran.
EndMatchesLastEvent ==
  \A j \in JobIds :
    /\ job[j].state = "completed" => lastEvent[j] = "done"
    /\ job[j].state = "failed"    => lastEvent[j] = "failed"

\* Who is in its room from the POST to the end of the job is told, also when the
\* job stalled: the event is not kept, and the job is removed.
ListenersHear ==
  \A j \in JobIds : job[j].state \in Ended => ~listening[j]

\* A job that was accepted ends, whatever crashes and stalls come in between.
JobsEnd ==
  \A j \in JobIds : job[j] # NoJob ~> job[j].state \in Ended

\* What the requester sees of the jobs.
JobFate(j) ==
  CASE job[j] = NoJob -> "none"
    [] job[j].state \in {"waiting", "active"} -> "pending"
    [] OTHER -> job[j].state

RequesterOf(j) == IF job[j] = NoJob THEN Undefined ELSE Requester(j)

Promise == INSTANCE ReportPromise WITH
  Nobody    <- Undefined,
  requester <- [j \in JobIds |-> RequesterOf(j)],
  fate      <- [j \in JobIds |-> JobFate(j)]

\* Queue, locks, stalls and ends of the process implement what is promised to a
\* requester: at most two announcements of a job, none after it completed or
\* failed, none of a job that was not accepted, and no end before who stayed in
\* the room was told.
KeepsPromise == Promise!Spec
=============================================================================
