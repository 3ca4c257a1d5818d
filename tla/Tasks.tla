-------------------------------- MODULE Tasks --------------------------------
(***************************************************************************)
(* The rows of the table tasks and everything that writes them: create(),   *)
(* update() and softDelete() of tasks.service.ts, each an HTTP request that  *)
(* reads, decides and writes in separate database calls, and the nightly     *)
(* cron of task-overdue.cron.service.ts, which is a single UPDATE.           *)
(*                                                                         *)
(* A request that the code answers with an error changes nothing: it is a    *)
(* guard that does not hold, or a step back to Idle when it had begun.       *)
(* Title and description, which no rule looks at, are left out; so is the    *)
(* effect of the bump that ends a mutation, which is in TasksListCache.      *)
(***************************************************************************)
EXTENDS Policy, FiniteSets

CONSTANTS
  Organizations,
  Users,
  Account,        \* Account[u]: role and organization, fixed once created
  Projects,
  ProjectOrg,     \* ProjectOrg[p]: the organization of p
  TaskIds,        \* bound: the tasks that can be created
  TaskPriority,
  Requests,       \* concurrent requests to the task endpoints
  CreateDtos, UpdateDtos,   \* the request bodies
  MaxNow,         \* bound: the clock
  MaxDeletions    \* bound: users, and projects, that are soft-deleted

Assignable == Users \cup {Undefined}
Time       == 0..MaxNow
OptionalStatus   == TaskStatus \cup {Undefined}
OptionalPriority == TaskPriority \cup {Undefined}

CreateDto == [projectId : Projects, assigneeId : Assignable,
              status : OptionalStatus, priority : OptionalPriority,
              dueDate : Time]

UpdateDto == [assigneeId : Assignable, status : OptionalStatus,
              priority : OptionalPriority, dueDate : Time \cup {Undefined}]

ASSUME TypesAssumption ==
  /\ Account \in [Users -> [role : UserRole, organizationId : Organizations]]
  /\ ProjectOrg \in [Projects -> Organizations]
  /\ CreateDtos \subseteq CreateDto
  /\ UpdateDtos \subseteq UpdateDto
  /\ MaxNow \in Nat
  /\ MaxDeletions \in Nat
  /\ "low" \in TaskPriority

\* The entity's defaults, and a value that is no task, user or priority.
ASSUME UndefinedAssumption == Undefined \notin Users /\ Undefined \notin TaskPriority

-----------------------------------------------------------------------------
VARIABLES
  tasks,         \* tasks[t]: the row of t, or NoTask
  liveUsers,     \* the users whose deleted_at is null
  liveProjects,  \* the projects whose deleted_at is null
  request,       \* the requests under way
  now            \* the clock the cron compares due dates with

vars == <<tasks, liveUsers, liveProjects, request, now>>

NoTask == [status |-> "none"]

Task == [organizationId : Organizations, projectId : Projects,
         assigneeId : Users, status : TaskStatus, priority : TaskPriority,
         dueDate : Time, deleted : BOOLEAN]

Actor == [sub : Users, role : UserRole, organizationId : Organizations]

\* The payload of u's access token, valid until it runs out even when u has
\* been deleted meanwhile.
ActorOf(u) == [sub |-> u, role |-> Account[u].role,
               organizationId |-> Account[u].organizationId]

Actors == {ActorOf(u) : u \in Users}

Idle == [pc |-> "idle"]

\* The requests under way, by handler and by what they wait for.
Creating == [pc : {"createAssignee", "insert"}, actor : Actor, dto : CreateDtos]

Updating == [pc : {"updateAssignee", "save"}, actor : Actor, dto : UpdateDtos,
             id : TaskIds, task : Task]

Deleting == [pc : {"softDelete"}, actor : Actor, id : TaskIds]

Bumping == [pc |-> "bump"]

RequestState == {Idle, Bumping} \cup Creating \cup Updating \cup Deleting

TypeOK ==
  /\ tasks \in [TaskIds -> Task \cup {NoTask}]
  /\ liveUsers \subseteq Users
  /\ liveProjects \subseteq Projects
  /\ request \in [Requests -> RequestState]
  /\ now \in Time

Init ==
  /\ tasks = [t \in TaskIds |-> NoTask]
  /\ liveUsers = Users
  /\ liveProjects = Projects
  /\ request = [r \in Requests |-> Idle]
  /\ now = 0

\* A request goes on in state s; nothing else changes but what the action says.
Goto(r, s) == request' = [request EXCEPT ![r] = s]

Continue(r, pc) == request' = [request EXCEPT ![r].pc = pc]

-----------------------------------------------------------------------------
(***************************************************************************)
(* The finders: findOne({where: {id, organizationId, deletedAt: IsNull()}})  *)
(***************************************************************************)

FindsProject(p, organizationId) ==
  p \in liveProjects /\ ProjectOrg[p] = organizationId

\* Mutant: the assignee is looked up by id alone.
FindsAssigneeAnywhere(u, organizationId) == u \in liveUsers

FindsAssignee(u, organizationId) ==
  u \in liveUsers /\ Account[u].organizationId = organizationId

\* Mutants: the task is looked up by id alone, or among the deleted ones too.
FindsTaskAnywhere(t, organizationId) == tasks[t] # NoTask /\ ~tasks[t].deleted

FindsDeletedTask(t, organizationId) ==
  tasks[t] # NoTask /\ tasks[t].organizationId = organizationId

FindsTask(t, organizationId) ==
  /\ tasks[t] # NoTask
  /\ tasks[t].organizationId = organizationId
  /\ ~tasks[t].deleted

-----------------------------------------------------------------------------
(***************************************************************************)
(* create()                                                                *)
(***************************************************************************)

Create(r, actor, dto) ==
  /\ request[r] = Idle
  /\ FindsProject(dto.projectId, actor.organizationId)
  /\ CreateInputAllowed(actor, dto)
  /\ Goto(r, [pc |-> "createAssignee", actor |-> actor, dto |-> dto])
  /\ UNCHANGED <<tasks, liveUsers, liveProjects, now>>

CreateAssignee(r) ==
  LET actor    == request[r].actor
      assignee == NormalizedAssignee(actor, request[r].dto)
  IN  /\ request[r].pc = "createAssignee"
      /\ IF /\ FindsAssignee(assignee, actor.organizationId)
            /\ actor.role = "employee" => assignee = actor.sub
           THEN Continue(r, "insert")
           ELSE Goto(r, Idle)
      /\ UNCHANGED <<tasks, liveUsers, liveProjects, now>>

OrDefault(value, default) == IF value = Undefined THEN default ELSE value

\* Mutant: the status of the body is taken as it is.
NewRowWithoutDefault(actor, dto) ==
  [organizationId |-> actor.organizationId,
   projectId      |-> dto.projectId,
   assigneeId     |-> NormalizedAssignee(actor, dto),
   status         |-> dto.status,
   priority       |-> OrDefault(dto.priority, "low"),
   dueDate        |-> dto.dueDate,
   deleted        |-> FALSE]

NewRow(actor, dto) ==
  [organizationId |-> actor.organizationId,
   projectId      |-> dto.projectId,
   assigneeId     |-> NormalizedAssignee(actor, dto),
   status         |-> OrDefault(dto.status, "todo"),
   priority       |-> OrDefault(dto.priority, "low"),
   dueDate        |-> dto.dueDate,
   deleted        |-> FALSE]

Insert(r, t) ==
  /\ request[r].pc = "insert"
  /\ tasks[t] = NoTask
  /\ tasks' = [tasks EXCEPT ![t] = NewRow(request[r].actor, request[r].dto)]
  /\ Goto(r, Bumping)
  /\ UNCHANGED <<liveUsers, liveProjects, now>>

-----------------------------------------------------------------------------
(***************************************************************************)
(* update()                                                                *)
(***************************************************************************)

Update(r, actor, t, dto) ==
  /\ request[r] = Idle
  /\ FindsTask(t, actor.organizationId)
  /\ CanUpdateTask(actor, tasks[t], dto)
  /\ Goto(r, [pc |-> IF dto.assigneeId = Undefined THEN "save" ELSE "updateAssignee",
              actor |-> actor, dto |-> dto, id |-> t, task |-> tasks[t]])
  /\ UNCHANGED <<tasks, liveUsers, liveProjects, now>>

UpdateAssignee(r) ==
  /\ request[r].pc = "updateAssignee"
  /\ IF FindsAssignee(request[r].dto.assigneeId, request[r].actor.organizationId)
       THEN Continue(r, "save")
       ELSE Goto(r, Idle)
  /\ UNCHANGED <<tasks, liveUsers, liveProjects, now>>

\* Mutant: the fields that the body leaves out are written from the snapshot.
SavedSnapshot(row, task, dto) ==
  [task EXCEPT !.status     = OrDefault(dto.status, @),
               !.priority   = OrDefault(dto.priority, @),
               !.assigneeId = OrDefault(dto.assigneeId, @),
               !.dueDate    = OrDefault(dto.dueDate, @)]

\* save({...task, ...dto}), where task is the row as update() found it and row
\* the row now.  A dto instance owns every field of its class, so the fields
\* the body leaves out are undefined in the spread, and TypeORM writes no
\* column whose value is undefined.  What is left of the snapshot are the
\* columns the dto does not have: organizationId and projectId, which no code
\* changes, and deletedAt, which was null when the task was found.
SavedRow(row, task, dto) ==
  [organizationId |-> task.organizationId,
   projectId      |-> task.projectId,
   assigneeId     |-> OrDefault(dto.assigneeId, row.assigneeId),
   status         |-> OrDefault(dto.status, row.status),
   priority       |-> OrDefault(dto.priority, row.priority),
   dueDate        |-> OrDefault(dto.dueDate, row.dueDate),
   deleted        |-> task.deleted]

Save(r) ==
  /\ request[r].pc = "save"
  /\ LET t == request[r].id
     IN  tasks' = [tasks EXCEPT ![t] = SavedRow(@, request[r].task, request[r].dto)]
  /\ Goto(r, Bumping)
  /\ UNCHANGED <<liveUsers, liveProjects, now>>

-----------------------------------------------------------------------------
(***************************************************************************)
(* softDelete()                                                            *)
(***************************************************************************)

Delete(r, actor, t) ==
  /\ request[r] = Idle
  /\ FindsTask(t, actor.organizationId)
  /\ CanDeleteTask(actor, tasks[t])
  /\ Goto(r, [pc |-> "softDelete", actor |-> actor, id |-> t])
  /\ UNCHANGED <<tasks, liveUsers, liveProjects, now>>

\* UPDATE ... SET deleted_at WHERE id and organization_id.
SoftDelete(r) ==
  /\ request[r].pc = "softDelete"
  /\ LET t == request[r].id
     IN  tasks' = IF tasks[t].organizationId = request[r].actor.organizationId
                    THEN [tasks EXCEPT ![t].deleted = TRUE]
                    ELSE tasks
  /\ Goto(r, Bumping)
  /\ UNCHANGED <<liveUsers, liveProjects, now>>

\* bumpOrgListCache() and the response; a bump never throws.
BumpAndRespond(r) ==
  /\ request[r].pc = "bump"
  /\ Goto(r, Idle)
  /\ UNCHANGED <<tasks, liveUsers, liveProjects, now>>

-----------------------------------------------------------------------------
(***************************************************************************)
(* The cron, the clock, and the other writers of users and projects.        *)
(***************************************************************************)

IsPastDue(row) ==
  /\ row # NoTask
  /\ row.dueDate < now
  /\ row.status \notin {"done", "overdue"}
  /\ ~row.deleted

\* Mutant: only tasks nobody has begun are marked.
MarkTodoOnly ==
  /\ tasks' = [t \in TaskIds |->
       IF IsPastDue(tasks[t]) /\ tasks[t].status = "todo"
         THEN [tasks[t] EXCEPT !.status = "overdue"]
         ELSE tasks[t]]
  /\ UNCHANGED <<liveUsers, liveProjects, request, now>>

HandleTaskOverdue ==
  /\ tasks' = [t \in TaskIds |->
       IF IsPastDue(tasks[t]) THEN [tasks[t] EXCEPT !.status = "overdue"]
                              ELSE tasks[t]]
  /\ UNCHANGED <<liveUsers, liveProjects, request, now>>

Tick ==
  /\ now < MaxNow
  /\ now' = now + 1
  /\ UNCHANGED <<tasks, liveUsers, liveProjects, request>>

\* UserService.softDelete: the roles it decides on never change, so that its
\* two calls are one step here.
SoftDeleteUser(actor, u) ==
  /\ u \in liveUsers
  /\ Account[u].organizationId = actor.organizationId
  /\ AllowedToDeleteUser(actor, ActorOf(u))
  /\ Cardinality(Users \ liveUsers) < MaxDeletions
  /\ liveUsers' = liveUsers \ {u}
  /\ UNCHANGED <<tasks, liveProjects, request, now>>

\* softDelete() of projects.service.ts.
SoftDeleteProject(p) ==
  /\ p \in liveProjects
  /\ Cardinality(Projects \ liveProjects) < MaxDeletions
  /\ liveProjects' = liveProjects \ {p}
  /\ UNCHANGED <<tasks, liveUsers, request, now>>

\* update() of projects.service.ts, which found p before it was deleted, saves
\* the row with the null it read in deletedAt (SavedRow of Projects).
RestoreProject(p) ==
  /\ p \notin liveProjects
  /\ liveProjects' = liveProjects \cup {p}
  /\ UNCHANGED <<tasks, liveUsers, request, now>>

-----------------------------------------------------------------------------
\* The routes that write: @Auth() lets every role in, tasks.policy.ts decides.
TasksController(r) ==
  \E actor \in Actors :
    /\ Auth({}, actor)
    /\ \/ \E dto \in CreateDtos : Create(r, actor, dto)
       \/ \E t \in TaskIds, dto \in UpdateDtos : Update(r, actor, t, dto)
       \/ \E t \in TaskIds : Delete(r, actor, t)

\* The steps of a handler after its first await.
RequestStep(r) ==
  \/ CreateAssignee(r)
  \/ \E t \in TaskIds : Insert(r, t)
  \/ UpdateAssignee(r)
  \/ Save(r)
  \/ SoftDelete(r)
  \/ BumpAndRespond(r)

Next ==
  \/ \E r \in Requests : TasksController(r) \/ RequestStep(r)
  \/ HandleTaskOverdue
  \/ Tick
  \/ \E actor \in Actors, u \in Users : SoftDeleteUser(actor, u)
  \/ \E p \in Projects : SoftDeleteProject(p) \/ RestoreProject(p)

Spec == Init /\ [][Next]_vars

\* The scheduler runs the cron every midnight.
FairSpec == Spec /\ WF_vars(HandleTaskOverdue)

-----------------------------------------------------------------------------
(***************************************************************************)
(* Properties.                                                             *)
(***************************************************************************)

\* The organization of a task is that of its project (TS.md:193) and of its
\* assignee, although the three are given by the token, the body and the
\* database, are checked in calls of their own before the row is written, and
\* are rewritten by updates from the row they found earlier.
TenantConsistent ==
  \A t \in TaskIds :
    tasks[t] # NoTask =>
      /\ ProjectOrg[tasks[t].projectId] = tasks[t].organizationId
      /\ Account[tasks[t].assigneeId].organizationId = tasks[t].organizationId

\* A task becomes overdue only when it is past due, neither done nor deleted
\* (TS.md:473): no request makes it so, neither by its body nor by writing
\* back a row that was overdue when it was read.
OverdueStep ==
  \A t \in TaskIds :
    tasks'[t].status = "overdue" /\ tasks[t].status # "overdue" =>
      IsPastDue(tasks[t])

OverdueOnlyWhenPastDue == [][OverdueStep]_vars

\* Step of request r that writes task t.
Writes(r, t) ==
  /\ request[r].pc \in {"save", "softDelete"}
  /\ request[r].id = t
  /\ request'[r].pc = "bump"

\* The assignee and the priority of a task change only by the save of a request of
\* staff, each only if the body of that request names it, and to the value named
\* there (tasks.service.ts:204): nobody's update, of an employee or of staff,
\* writes back the one it read before another reassigned the task.
ReassignedStep ==
  \A t \in TaskIds :
    /\ tasks[t] # NoTask
    /\ \/ tasks'[t].assigneeId # tasks[t].assigneeId
       \/ tasks'[t].priority # tasks[t].priority
    => \E r \in Requests :
         /\ Writes(r, t)
         /\ request[r].pc = "save"
         /\ request[r].actor.role # "employee"
         /\ tasks'[t].assigneeId \in {tasks[t].assigneeId, request[r].dto.assigneeId}
         /\ tasks'[t].priority \in {tasks[t].priority, request[r].dto.priority}

ReassignedOnlyByStaff == [][ReassignedStep]_vars

\* A task changes only by a request of its own organization, the cron's mark
\* aside, and never leaves its organization and project: save() writes by id
\* alone, long after the lookup that asked for the organization, and writes both
\* columns back from the row found then.
TenantStep ==
  \A t \in TaskIds :
    tasks[t] # NoTask /\ tasks'[t] # tasks[t] =>
      /\ tasks'[t] # NoTask
      /\ tasks'[t].organizationId = tasks[t].organizationId
      /\ tasks'[t].projectId = tasks[t].projectId
      /\ \/ \E r \in Requests :
              /\ Writes(r, t)
              /\ request[r].actor.organizationId = tasks[t].organizationId
         \/ tasks'[t] = [tasks[t] EXCEPT !.status = "overdue"]

ChangedOnlyByTenant == [][TenantStep]_vars

\* The updates under way that have found t.
UpdatesOf(t) ==
  {r \in Requests : request[r].pc \in {"updateAssignee", "save"} /\ request[r].id = t}

\* What a deletion does keep, although a save may undo it (DeletedStaysDeleted):
\* no further update finds the task, its row stays as it is, and only an update
\* that had found it before, which this uses up, brings it back.
DeletedStep ==
  \A t \in TaskIds :
    tasks[t] # NoTask /\ tasks[t].deleted =>
      /\ UpdatesOf(t)' \subseteq UpdatesOf(t)
      /\ \/ tasks'[t] = tasks[t]
         \/ \E r \in UpdatesOf(t) \ UpdatesOf(t)' : Writes(r, t)

RestoredOnlyByOldUpdate == [][DeletedStep]_vars

\* What is past due does not stay so: the cron, or somebody, changes it.
PastDueIsHandled ==
  \A t \in TaskIds : IsPastDue(tasks[t]) ~> ~IsPastDue(tasks[t])

-----------------------------------------------------------------------------
(***************************************************************************)
(* Statements of the specification document that the code does not keep.    *)
(***************************************************************************)

\* TS.md:279: tasks are deleted (softly): a deleted task stays deleted, there
\* is no operation that restores one.
DeletedStaysDeleted ==
  [][\A t \in TaskIds :
       tasks[t] # NoTask /\ tasks[t].deleted => tasks'[t].deleted]_vars

\* TS.md:239: an employee works only with its own tasks: what it changes or
\* deletes is assigned to it when it does.
EmployeeWritesOwnTasks ==
  [][\A r \in Requests, t \in TaskIds :
       Writes(r, t) /\ request[r].actor.role = "employee" =>
         tasks[t].assigneeId = request[r].actor.sub]_vars
=============================================================================
