----------------------------- MODULE TasksProofs -----------------------------
(***************************************************************************)
(* Theorems about Tasks, for all organizations, accounts, projects, bodies, *)
(* numbers of tasks and of concurrent requests.                             *)
(***************************************************************************)
EXTENDS Tasks, TLAPS

-----------------------------------------------------------------------------
(***************************************************************************)
(* Rows and requests are of their types.                                    *)
(***************************************************************************)

LEMMA ActorType ==
  ASSUME NEW actor \in Actors
  PROVE  actor \in Actor
BY TypesAssumption DEF Actors, ActorOf, Actor

LEMMA NoTaskIsNoRow == NoTask \notin Task
BY DEF NoTask, Task, TaskStatus

LEMMA NormalizedAssigneeType ==
  ASSUME NEW actor \in Actor, NEW dto \in CreateDtos
  PROVE  NormalizedAssignee(actor, dto) \in Users
BY TypesAssumption DEF NormalizedAssignee, Actor, CreateDto, Assignable

LEMMA NewRowType ==
  ASSUME NEW actor \in Actor, NEW dto \in CreateDtos
  PROVE  NewRow(actor, dto) \in Task
<1>1. dto \in CreateDto
  BY TypesAssumption
<1>2. OrDefault(dto.status, "todo") \in TaskStatus
  BY <1>1 DEF OrDefault, CreateDto, OptionalStatus, TaskStatus
<1>3. OrDefault(dto.priority, "low") \in TaskPriority
  BY <1>1, TypesAssumption DEF OrDefault, CreateDto, OptionalPriority
<1> QED
  BY <1>1, <1>2, <1>3, NormalizedAssigneeType DEF NewRow, Task, Actor, CreateDto

\* What save() leaves of a row: the fields of the body, else of the row; the
\* tenant columns and deletedAt of the snapshot.
LEMMA SavedRowFields ==
  ASSUME NEW row \in Task, NEW task \in Task, NEW dto \in UpdateDtos
  PROVE  /\ SavedRow(row, task, dto) \in Task
         /\ SavedRow(row, task, dto).organizationId = task.organizationId
         /\ SavedRow(row, task, dto).projectId = task.projectId
         /\ SavedRow(row, task, dto).assigneeId = OrDefault(dto.assigneeId, row.assigneeId)
         /\ SavedRow(row, task, dto).status = OrDefault(dto.status, row.status)
<1>1. dto \in UpdateDto
  BY TypesAssumption
<1>2. /\ OrDefault(dto.assigneeId, row.assigneeId) \in Users
      /\ OrDefault(dto.status, row.status) \in TaskStatus
      /\ OrDefault(dto.priority, row.priority) \in TaskPriority
      /\ OrDefault(dto.dueDate, row.dueDate) \in Time
  BY <1>1 DEF OrDefault, UpdateDto, Task, Assignable, OptionalStatus, OptionalPriority
<1> QED
  BY <1>2 DEF SavedRow, Task

\* The pc of a request tells which fields it has.
LEMMA RequestSort ==
  ASSUME TypeOK, NEW r \in Requests
  PROVE  /\ request[r].pc \in {"createAssignee", "insert"} => request[r] \in Creating
         /\ request[r].pc \in {"updateAssignee", "save"} => request[r] \in Updating
         /\ request[r].pc = "softDelete" => request[r] \in Deleting
<1>1. request[r] \in RequestState
  BY DEF TypeOK
<1>2. CASE request[r] = Idle \/ request[r] = Bumping
  BY <1>2 DEF Idle, Bumping
<1>3. CASE request[r] \in Creating
  BY <1>3 DEF Creating
<1>4. CASE request[r] \in Updating
  BY <1>4 DEF Updating
<1>5. CASE request[r] \in Deleting
  BY <1>5 DEF Deleting
<1> QED
  BY <1>1, <1>2, <1>3, <1>4, <1>5 DEF RequestState

\* A request that goes on in a state of the right type.
LEMMA GotoType ==
  ASSUME TypeOK, NEW r \in Requests, NEW s \in RequestState, Goto(r, s)
  PROVE  /\ request' \in [Requests -> RequestState]
         /\ request'[r] = s
         /\ \A x \in Requests \ {r} : request'[x] = request[x]
BY DEF TypeOK, Goto

LEMMA ContinueType ==
  ASSUME TypeOK, NEW r \in Requests,
         \/ request[r].pc = "createAssignee" /\ Continue(r, "insert")
         \/ request[r].pc = "updateAssignee" /\ Continue(r, "save")
  PROVE  /\ request' \in [Requests -> RequestState]
         /\ \A x \in Requests \ {r} : request'[x] = request[x]
         /\ request'[r].actor = request[r].actor
         /\ request'[r].dto = request[r].dto
         /\ request[r].pc = "updateAssignee" =>
              /\ request'[r].pc = "save"
              /\ request'[r].id = request[r].id
              /\ request'[r].task = request[r].task
         /\ request[r].pc = "createAssignee" => request'[r].pc = "insert"
<1>1. CASE request[r].pc = "createAssignee"
  <2>1. request[r] \in Creating
    BY <1>1, RequestSort
  <2>2. request' = [request EXCEPT ![r] = [request[r] EXCEPT !.pc = "insert"]]
    BY <1>1 DEF Continue
  <2>3. [request[r] EXCEPT !.pc = "insert"] \in Creating
    BY <2>1 DEF Creating
  <2>4. request' \in [Requests -> RequestState]
    BY <2>2, <2>3 DEF TypeOK, RequestState
  <2>5. request'[r] = [request[r] EXCEPT !.pc = "insert"]
    BY <2>2 DEF TypeOK
  <2> QED
    BY <1>1, <2>1, <2>2, <2>4, <2>5 DEF TypeOK, Creating
<1>2. CASE request[r].pc = "updateAssignee"
  <2>1. request[r] \in Updating
    BY <1>2, RequestSort
  <2>2. request' = [request EXCEPT ![r] = [request[r] EXCEPT !.pc = "save"]]
    BY <1>2 DEF Continue
  <2>3. [request[r] EXCEPT !.pc = "save"] \in Updating
    BY <2>1 DEF Updating
  <2>4. request' \in [Requests -> RequestState]
    BY <2>2, <2>3 DEF TypeOK, RequestState
  <2>5. request'[r] = [request[r] EXCEPT !.pc = "save"]
    BY <2>2 DEF TypeOK
  <2> QED
    BY <1>2, <2>1, <2>2, <2>4, <2>5 DEF TypeOK, Updating
<1> QED
  BY <1>1, <1>2

-----------------------------------------------------------------------------
(***************************************************************************)
(* The inductive invariant: what the checks of a request establish still    *)
(* holds when it writes, because nothing they compare ever changes.         *)
(***************************************************************************)

RequestInv(r) ==
  /\ request[r].pc \in {"createAssignee", "insert"} =>
       /\ ProjectOrg[request[r].dto.projectId] = request[r].actor.organizationId
       /\ request[r].dto.status # "overdue"
  /\ request[r].pc = "insert" =>
       Account[NormalizedAssignee(request[r].actor, request[r].dto)].organizationId
         = request[r].actor.organizationId
  /\ request[r].pc \in {"updateAssignee", "save", "softDelete"} =>
       tasks[request[r].id] # NoTask
  /\ request[r].pc \in {"updateAssignee", "save"} =>
       /\ request[r].task.organizationId = tasks[request[r].id].organizationId
       /\ request[r].task.organizationId = request[r].actor.organizationId
       /\ request[r].task.projectId = tasks[request[r].id].projectId
       /\ request[r].dto.status # "overdue"
  /\ request[r].pc = "save" /\ request[r].dto.assigneeId # Undefined =>
       Account[request[r].dto.assigneeId].organizationId
         = request[r].actor.organizationId

TasksInv == TypeOK /\ TenantConsistent /\ \A r \in Requests : RequestInv(r)

\* A row once created keeps its organization and its project.
RowsKept ==
  \A t \in TaskIds :
    tasks[t] # NoTask =>
      /\ tasks'[t] # NoTask
      /\ tasks'[t].organizationId = tasks[t].organizationId
      /\ tasks'[t].projectId = tasks[t].projectId

\* The requests that a step is not about.
LEMMA OtherRequests ==
  ASSUME TypeOK, RowsKept, NEW x \in Requests, RequestInv(x),
         request'[x] = request[x]
  PROVE  RequestInv(x)'
<1>1. request[x].pc \in {"updateAssignee", "save", "softDelete"} =>
        request[x].id \in TaskIds
  BY RequestSort DEF Updating, Deleting
<1> QED
  BY <1>1 DEF RequestInv, RowsKept

\* The initial state.
LEMMA TasksInit == Init => TasksInv
BY TypesAssumption
   DEF Init, TasksInv, TypeOK, RequestState, Time, TenantConsistent, RequestInv, Idle

\* A step of request r that leaves the rows alone.
LEMMA ReadingStep ==
  ASSUME TasksInv, NEW r \in Requests, RequestInv(r)',
         request' \in [Requests -> RequestState],
         \A x \in Requests \ {r} : request'[x] = request[x],
         UNCHANGED <<tasks, liveUsers, liveProjects, now>>
  PROVE  TasksInv'
<1>1. TypeOK' /\ TenantConsistent'
  BY DEF TasksInv, TypeOK, TenantConsistent
<1>2. RowsKept
  BY DEF RowsKept
<1>3. ASSUME NEW x \in Requests \ {r}
      PROVE  RequestInv(x)'
  BY <1>2, <1>3, OtherRequests DEF TasksInv
<1> QED
  BY <1>1, <1>3 DEF TasksInv

\* A step of request r that writes row t and goes on to the bump.
LEMMA WritingStep ==
  ASSUME TasksInv, NEW r \in Requests, NEW t \in TaskIds, NEW row \in Task,
         tasks' = [tasks EXCEPT ![t] = row],
         Goto(r, Bumping),
         UNCHANGED <<liveUsers, liveProjects, now>>,
         ProjectOrg[row.projectId] = row.organizationId,
         Account[row.assigneeId].organizationId = row.organizationId,
         tasks[t] # NoTask => /\ row.organizationId = tasks[t].organizationId
                              /\ row.projectId = tasks[t].projectId
  PROVE  TasksInv'
<1>1. /\ request' \in [Requests -> RequestState]
      /\ request'[r] = Bumping
      /\ \A x \in Requests \ {r} : request'[x] = request[x]
  BY GotoType DEF TasksInv, RequestState
<1>2. /\ tasks' \in [TaskIds -> Task \cup {NoTask}]
      /\ tasks'[t] = row
      /\ \A x \in TaskIds \ {t} : tasks'[x] = tasks[x]
  BY DEF TasksInv, TypeOK
<1>3. TypeOK'
  BY <1>1, <1>2 DEF TasksInv, TypeOK
<1>4. TenantConsistent'
  BY <1>2 DEF TasksInv, TenantConsistent
<1>5. RowsKept
  BY <1>2, NoTaskIsNoRow DEF RowsKept
<1>6. RequestInv(r)'
  BY <1>1 DEF RequestInv, Bumping
<1>7. ASSUME NEW x \in Requests \ {r}
      PROVE  RequestInv(x)'
  BY <1>1, <1>5, <1>7, OtherRequests DEF TasksInv
<1> QED
  BY <1>3, <1>4, <1>6, <1>7 DEF TasksInv

\* A request that ends: an error response, or the response after the bump.
LEMMA EndingStep ==
  ASSUME TasksInv, NEW r \in Requests, Goto(r, Idle),
         UNCHANGED <<tasks, liveUsers, liveProjects, now>>
  PROVE  TasksInv'
<1>1. /\ request' \in [Requests -> RequestState]
      /\ request'[r] = Idle
      /\ \A x \in Requests \ {r} : request'[x] = request[x]
  BY GotoType DEF TasksInv, RequestState
<1>2. RequestInv(r)'
  BY <1>1 DEF RequestInv, Idle
<1> QED
  BY <1>1, <1>2, ReadingStep

\* create()
LEMMA CreateSteps ==
  ASSUME TasksInv, NEW r \in Requests,
         \/ \E actor \in Actors, dto \in CreateDtos : Create(r, actor, dto)
         \/ CreateAssignee(r)
         \/ \E t \in TaskIds : Insert(r, t)
  PROVE  TasksInv'
<1>0. TypeOK /\ RequestInv(r)
  BY DEF TasksInv
<1>1. ASSUME NEW actor \in Actors, NEW dto \in CreateDtos, Create(r, actor, dto)
      PROVE  TasksInv'
  <2> DEFINE s == [pc |-> "createAssignee", actor |-> actor, dto |-> dto]
  <2>1. s \in RequestState
    BY ActorType DEF RequestState, Creating
  <2>2. Goto(r, s)
    BY <1>1 DEF Create
  <2>3. s.pc = "createAssignee" /\ s.actor = actor /\ s.dto = dto
    OBVIOUS
  <2> HIDE DEF s
  <2>4. /\ request' \in [Requests -> RequestState]
        /\ request'[r] = s
        /\ \A x \in Requests \ {r} : request'[x] = request[x]
    BY <1>0, <2>1, <2>2, GotoType
  <2>5. /\ ProjectOrg[dto.projectId] = actor.organizationId
        /\ dto.status # "overdue"
    BY <1>1 DEF Create, FindsProject, CreateInputAllowed
  <2>6. RequestInv(r)'
    BY <2>3, <2>4, <2>5 DEF RequestInv
  <2> QED
    BY <1>1, <2>4, <2>6, ReadingStep DEF Create
<1>2. CASE CreateAssignee(r)
  <2>1. CASE Goto(r, Idle)
    BY <1>2, <2>1, EndingStep DEF CreateAssignee
  <2>2. CASE ~Goto(r, Idle)
    <3>1. /\ request[r].pc = "createAssignee"
          /\ Continue(r, "insert")
          /\ Account[NormalizedAssignee(request[r].actor, request[r].dto)].organizationId
               = request[r].actor.organizationId
      BY <1>2, <2>2 DEF CreateAssignee, FindsAssignee
    <3>2. /\ request' \in [Requests -> RequestState]
          /\ \A x \in Requests \ {r} : request'[x] = request[x]
          /\ request'[r].actor = request[r].actor
          /\ request'[r].dto = request[r].dto
          /\ request'[r].pc = "insert"
      BY <1>0, <3>1, ContinueType
    <3>3. RequestInv(r)'
      BY <1>0, <3>1, <3>2 DEF RequestInv
    <3> QED
      BY <1>2, <3>2, <3>3, ReadingStep DEF CreateAssignee
  <2> QED
    BY <2>1, <2>2
<1>3. ASSUME NEW t \in TaskIds, Insert(r, t)
      PROVE  TasksInv'
  <2> DEFINE actor == request[r].actor
             dto == request[r].dto
             row == NewRow(actor, dto)
  <2>1. request[r].pc = "insert" /\ request[r] \in Creating
    BY <1>0, <1>3, RequestSort DEF Insert
  <2>2. row \in Task
    BY <2>1, NewRowType DEF Creating
  <2>3. /\ row.projectId = dto.projectId
        /\ row.organizationId = actor.organizationId
        /\ row.assigneeId = NormalizedAssignee(actor, dto)
    BY DEF NewRow
  <2>4. /\ ProjectOrg[row.projectId] = row.organizationId
        /\ Account[row.assigneeId].organizationId = row.organizationId
    BY <1>0, <2>1, <2>3 DEF RequestInv
  <2>5. /\ tasks[t] = NoTask
        /\ tasks' = [tasks EXCEPT ![t] = row]
        /\ Goto(r, Bumping)
        /\ UNCHANGED <<liveUsers, liveProjects, now>>
    BY <1>3 DEF Insert
  <2> HIDE DEF row
  <2> QED
    BY <2>2, <2>4, <2>5, WritingStep
<1> QED
  BY <1>1, <1>2, <1>3

\* update()
LEMMA UpdateSteps ==
  ASSUME TasksInv, NEW r \in Requests,
         \/ \E actor \in Actors, t \in TaskIds, dto \in UpdateDtos :
              Update(r, actor, t, dto)
         \/ UpdateAssignee(r)
         \/ Save(r)
  PROVE  TasksInv'
<1>0. TypeOK /\ RequestInv(r)
  BY DEF TasksInv
<1>1. ASSUME NEW actor \in Actors, NEW t \in TaskIds, NEW dto \in UpdateDtos,
             Update(r, actor, t, dto)
      PROVE  TasksInv'
  <2> DEFINE pc == IF dto.assigneeId = Undefined THEN "save" ELSE "updateAssignee"
             s == [pc |-> pc, actor |-> actor, dto |-> dto, id |-> t,
                   task |-> tasks[t]]
  <2>1. /\ tasks[t] # NoTask
        /\ tasks[t].organizationId = actor.organizationId
        /\ dto.status # "overdue"
        /\ Goto(r, s)
    BY <1>1 DEF Update, FindsTask, CanUpdateTask
  <2>2. s \in RequestState
    BY <1>0, <2>1, ActorType DEF RequestState, Updating, TypeOK
  <2>3. /\ s.pc \in {"save", "updateAssignee"}
        /\ s.pc = "save" => dto.assigneeId = Undefined
        /\ s.actor = actor
        /\ s.dto = dto
        /\ s.id = t
        /\ s.task = tasks[t]
    OBVIOUS
  <2> HIDE DEF s
  <2>4. /\ request' \in [Requests -> RequestState]
        /\ request'[r] = s
        /\ \A x \in Requests \ {r} : request'[x] = request[x]
    BY <1>0, <2>1, <2>2, GotoType
  <2>5. UNCHANGED <<tasks, liveUsers, liveProjects, now>>
    BY <1>1 DEF Update
  <2>6. RequestInv(r)'
    BY <2>1, <2>3, <2>4, <2>5 DEF RequestInv
  <2> QED
    BY <2>4, <2>5, <2>6, ReadingStep
<1>2. CASE UpdateAssignee(r)
  <2>1. CASE Goto(r, Idle)
    BY <1>2, <2>1, EndingStep DEF UpdateAssignee
  <2>2. CASE ~Goto(r, Idle)
    <3>1. /\ request[r].pc = "updateAssignee"
          /\ Continue(r, "save")
          /\ Account[request[r].dto.assigneeId].organizationId
               = request[r].actor.organizationId
          /\ UNCHANGED <<tasks, liveUsers, liveProjects, now>>
      BY <1>2, <2>2 DEF UpdateAssignee, FindsAssignee
    <3>2. /\ request' \in [Requests -> RequestState]
          /\ \A x \in Requests \ {r} : request'[x] = request[x]
          /\ request'[r].actor = request[r].actor
          /\ request'[r].dto = request[r].dto
          /\ request'[r].id = request[r].id
          /\ request'[r].task = request[r].task
          /\ request'[r].pc = "save"
      BY <1>0, <3>1, ContinueType
    <3>3. RequestInv(r)'
      BY <1>0, <3>1, <3>2 DEF RequestInv
    <3> QED
      BY <3>1, <3>2, <3>3, ReadingStep
  <2> QED
    BY <2>1, <2>2
<1>3. CASE Save(r)
  <2> DEFINE t == request[r].id
             task == request[r].task
             dto == request[r].dto
             row == SavedRow(tasks[t], task, dto)
  <2>1. request[r].pc = "save" /\ request[r] \in Updating
    BY <1>0, <1>3, RequestSort DEF Save
  <2>2. t \in TaskIds /\ task \in Task /\ dto \in UpdateDtos
    BY <2>1 DEF Updating
  <2>3. tasks[t] \in Task
    BY <1>0, <2>1, <2>2 DEF RequestInv, TypeOK
  <2>4. /\ row \in Task
        /\ row.organizationId = task.organizationId
        /\ row.projectId = task.projectId
        /\ row.assigneeId = OrDefault(dto.assigneeId, tasks[t].assigneeId)
    BY <2>2, <2>3, SavedRowFields
  <2>5. /\ row.organizationId = tasks[t].organizationId
        /\ row.projectId = tasks[t].projectId
    BY <1>0, <2>1, <2>4 DEF RequestInv
  <2>6. /\ ProjectOrg[tasks[t].projectId] = tasks[t].organizationId
        /\ Account[tasks[t].assigneeId].organizationId = tasks[t].organizationId
    BY <2>2, <2>3, NoTaskIsNoRow DEF TasksInv, TenantConsistent
  <2>7. Account[row.assigneeId].organizationId = row.organizationId
    BY <1>0, <2>1, <2>4, <2>5, <2>6 DEF RequestInv, OrDefault
  <2>8. /\ tasks' = [tasks EXCEPT ![t] = row]
        /\ Goto(r, Bumping)
        /\ UNCHANGED <<liveUsers, liveProjects, now>>
    BY <1>0, <1>3, <2>2 DEF Save, TypeOK
  <2> HIDE DEF row, t
  <2> QED
    BY <2>2, <2>4, <2>5, <2>6, <2>7, <2>8, WritingStep
<1> QED
  BY <1>1, <1>2, <1>3

\* softDelete() and the end of every mutation.
LEMMA DeleteSteps ==
  ASSUME TasksInv, NEW r \in Requests,
         \/ \E actor \in Actors, t \in TaskIds : Delete(r, actor, t)
         \/ SoftDelete(r)
         \/ BumpAndRespond(r)
  PROVE  TasksInv'
<1>0. TypeOK /\ RequestInv(r)
  BY DEF TasksInv
<1>1. ASSUME NEW actor \in Actors, NEW t \in TaskIds, Delete(r, actor, t)
      PROVE  TasksInv'
  <2> DEFINE s == [pc |-> "softDelete", actor |-> actor, id |-> t]
  <2>1. tasks[t] # NoTask /\ Goto(r, s)
    BY <1>1 DEF Delete, FindsTask
  <2>2. s \in RequestState
    BY ActorType DEF RequestState, Deleting
  <2>3. s.pc = "softDelete" /\ s.id = t
    OBVIOUS
  <2> HIDE DEF s
  <2>4. /\ request' \in [Requests -> RequestState]
        /\ request'[r] = s
        /\ \A x \in Requests \ {r} : request'[x] = request[x]
    BY <1>0, <2>1, <2>2, GotoType
  <2>5. UNCHANGED <<tasks, liveUsers, liveProjects, now>>
    BY <1>1 DEF Delete
  <2>6. RequestInv(r)'
    BY <2>1, <2>3, <2>4, <2>5 DEF RequestInv
  <2> QED
    BY <2>4, <2>5, <2>6, ReadingStep
<1>2. CASE SoftDelete(r)
  <2> DEFINE t == request[r].id
             row == IF tasks[t].organizationId = request[r].actor.organizationId
                      THEN [tasks[t] EXCEPT !.deleted = TRUE]
                      ELSE tasks[t]
  <2>1. request[r].pc = "softDelete" /\ t \in TaskIds
    BY <1>0, <1>2, RequestSort DEF SoftDelete, Deleting
  <2>2. tasks[t] # NoTask /\ tasks[t] \in Task
    BY <1>0, <2>1 DEF RequestInv, TypeOK
  <2>3. /\ row \in Task
        /\ row.organizationId = tasks[t].organizationId
        /\ row.projectId = tasks[t].projectId
        /\ row.assigneeId = tasks[t].assigneeId
    BY <2>2 DEF Task
  <2>4. tasks' = [tasks EXCEPT ![t] = row]
    BY <1>0, <1>2, <2>1 DEF SoftDelete, TypeOK
  <2>5. /\ Goto(r, Bumping)
        /\ UNCHANGED <<liveUsers, liveProjects, now>>
    BY <1>2 DEF SoftDelete
  <2>6. /\ ProjectOrg[tasks[t].projectId] = tasks[t].organizationId
        /\ Account[tasks[t].assigneeId].organizationId = tasks[t].organizationId
    BY <2>1, <2>2 DEF TasksInv, TenantConsistent
  <2> HIDE DEF row, t
  <2> QED
    BY <2>1, <2>3, <2>4, <2>5, <2>6, WritingStep
<1>3. CASE BumpAndRespond(r)
  BY <1>3, EndingStep DEF BumpAndRespond
<1> QED
  BY <1>1, <1>2, <1>3

\* The cron marks rows, and changes nothing else of them.
LEMMA CronStep ==
  ASSUME TasksInv, HandleTaskOverdue
  PROVE  TasksInv'
<1>1. ASSUME NEW t \in TaskIds
      PROVE  /\ tasks'[t] \in Task \cup {NoTask}
             /\ tasks[t] = NoTask => tasks'[t] = NoTask
             /\ tasks[t] # NoTask =>
                  /\ tasks'[t] # NoTask
                  /\ tasks'[t].organizationId = tasks[t].organizationId
                  /\ tasks'[t].projectId = tasks[t].projectId
                  /\ tasks'[t].assigneeId = tasks[t].assigneeId
  <2>1. CASE IsPastDue(tasks[t])
    <3>1. tasks[t] \in Task
      BY <2>1 DEF IsPastDue, TasksInv, TypeOK
    <3>2. tasks'[t] = [tasks[t] EXCEPT !.status = "overdue"]
      BY <2>1 DEF HandleTaskOverdue
    <3>3. tasks'[t] \in Task
      BY <3>1, <3>2 DEF Task, TaskStatus
    <3> QED
      BY <3>1, <3>2, <3>3, NoTaskIsNoRow DEF Task
  <2>2. CASE ~IsPastDue(tasks[t])
    BY <2>2 DEF HandleTaskOverdue, TasksInv, TypeOK
  <2> QED
    BY <2>1, <2>2
<1>2. tasks' \in [TaskIds -> Task \cup {NoTask}]
  <2>1. tasks' = [t \in TaskIds |-> tasks'[t]]
    BY DEF HandleTaskOverdue
  <2> QED
    BY <1>1, <2>1
<1>3. UNCHANGED <<liveUsers, liveProjects, request, now>>
  BY DEF HandleTaskOverdue
<1>4. TypeOK'
  BY <1>2, <1>3 DEF TasksInv, TypeOK
<1>5. TenantConsistent'
  BY <1>1 DEF TasksInv, TenantConsistent
<1>6. RowsKept
  BY <1>1 DEF RowsKept
<1>7. \A r \in Requests : RequestInv(r)'
  BY <1>3, <1>6, OtherRequests DEF TasksInv
<1> QED
  BY <1>4, <1>5, <1>7 DEF TasksInv

LEMMA TasksNext ==
  ASSUME TasksInv, [Next]_vars
  PROVE  TasksInv'
<1>1. ASSUME NEW r \in Requests, TasksController(r) \/ RequestStep(r)
      PROVE  TasksInv'
  BY <1>1, CreateSteps, UpdateSteps, DeleteSteps DEF TasksController, RequestStep
<1>2. ASSUME UNCHANGED <<tasks, request>>,
             liveUsers' \subseteq Users, liveProjects' \subseteq Projects, now' \in Time
      PROVE  TasksInv'
  BY <1>2 DEF TasksInv, TypeOK, TenantConsistent, RequestInv
<1>3. CASE Tick
  BY <1>2, <1>3, TypesAssumption DEF Tick, TasksInv, TypeOK, Time
<1>4. ASSUME NEW actor \in Actors, NEW u \in Users, SoftDeleteUser(actor, u)
      PROVE  TasksInv'
  BY <1>2, <1>4 DEF SoftDeleteUser, TasksInv, TypeOK
<1>5. ASSUME NEW p \in Projects, SoftDeleteProject(p) \/ RestoreProject(p)
      PROVE  TasksInv'
  BY <1>2, <1>5 DEF SoftDeleteProject, RestoreProject, TasksInv, TypeOK
<1>6. CASE UNCHANGED vars
  BY <1>2, <1>6 DEF vars, TasksInv, TypeOK
<1> QED
  BY <1>1, <1>3, <1>4, <1>5, <1>6, CronStep DEF Next

-----------------------------------------------------------------------------
\* Type correctness of the rows and of the requests under way: no update is
\* ever applied to a row that does not exist.
THEOREM TypeCorrect == Spec => []TypeOK
<1>1. TasksInv /\ [Next]_vars => TasksInv'
  BY TasksNext
<1>2. TasksInv => TypeOK
  BY DEF TasksInv
<1> QED
  BY TasksInit, <1>1, <1>2, PTL DEF Spec

\* The organization of a task is always that of its project and that of its
\* assignee (getProjectOrThrow, getAssigneeOrThrow and the saves they guard).
THEOREM TasksStayInTheirTenant == Spec => []TenantConsistent
<1>1. TasksInv /\ [Next]_vars => TasksInv'
  BY TasksNext
<1>2. TasksInv => TenantConsistent
  BY DEF TasksInv
<1> QED
  BY TasksInit, <1>1, <1>2, PTL DEF Spec

LEMMA OverdueStepHolds ==
  ASSUME TasksInv, [Next]_vars
  PROVE  OverdueStep
<1> SUFFICES ASSUME NEW t \in TaskIds,
                    tasks'[t].status = "overdue", tasks[t].status # "overdue"
             PROVE  IsPastDue(tasks[t])
  BY DEF OverdueStep
<1>0. TypeOK
  BY DEF TasksInv
<1>1. ASSUME NEW r \in Requests, NEW x \in TaskIds, Insert(r, x)
      PROVE  FALSE
  <2>1. request[r].pc = "insert" /\ request[r] \in Creating
    BY <1>0, <1>1, RequestSort DEF Insert
  <2>2. request[r].dto.status # "overdue"
    BY <2>1 DEF TasksInv, RequestInv
  <2>3. NewRow(request[r].actor, request[r].dto).status # "overdue"
    BY <2>2 DEF NewRow, OrDefault
  <2> QED
    BY <1>0, <1>1, <2>3 DEF Insert, TypeOK
<1>2. ASSUME NEW r \in Requests, Save(r)
      PROVE  FALSE
  <2>1. request[r].pc = "save" /\ request[r] \in Updating
    BY <1>0, <1>2, RequestSort DEF Save
  <2>2. request[r].dto.status # "overdue" /\ request[r].id \in TaskIds
    BY <2>1 DEF TasksInv, RequestInv, Updating
  <2>3. CASE request[r].id = t
    <3>1. tasks'[t] = SavedRow(tasks[t], request[r].task, request[r].dto)
      BY <1>0, <1>2, <2>3 DEF Save, TypeOK
    <3>2. tasks'[t].status = OrDefault(request[r].dto.status, tasks[t].status)
      BY <3>1 DEF SavedRow
    <3> QED
      BY <2>2, <3>2 DEF OrDefault
  <2>4. CASE request[r].id # t
    BY <1>0, <1>2, <2>4 DEF Save, TypeOK
  <2> QED
    BY <2>3, <2>4
<1>3. ASSUME NEW r \in Requests, SoftDelete(r)
      PROVE  FALSE
  <2>1. request[r].id \in TaskIds /\ request[r].pc = "softDelete"
    BY <1>0, <1>3, RequestSort DEF SoftDelete, Deleting
  <2>2. tasks[request[r].id] \in Task
    BY <1>0, <2>1 DEF TasksInv, RequestInv, TypeOK
  <2>3. tasks'[t].status = tasks[t].status
    BY <1>0, <1>3, <2>1, <2>2 DEF SoftDelete, TypeOK, Task
  <2> QED
    BY <2>3
<1>4. CASE HandleTaskOverdue
  BY <1>4 DEF HandleTaskOverdue
<1>5. CASE UNCHANGED tasks
  BY <1>5
<1> QED
  BY <1>1, <1>2, <1>3, <1>4, <1>5, Zenon
     DEF Next, vars, TasksController, RequestStep, Create, CreateAssignee, Update,
         UpdateAssignee, Delete, BumpAndRespond, Tick, SoftDeleteUser,
         SoftDeleteProject, RestoreProject

\* A task becomes overdue only while it is past due, open and not deleted: no
\* body and no row read earlier can make it so.
THEOREM OverdueIsEarned == Spec => OverdueOnlyWhenPastDue
<1>1. TasksInv /\ [Next]_vars => TasksInv'
  BY TasksNext
<1>2. TasksInv /\ [Next]_vars => [OverdueStep]_vars
  BY OverdueStepHolds
<1> QED
  BY TasksInit, <1>1, <1>2, PTL DEF Spec, OverdueOnlyWhenPastDue

-----------------------------------------------------------------------------
(***************************************************************************)
(* Reassignment.  assertCanUpdateTask() is asked before the assignee is      *)
(* looked up and the row saved; that an employee's body gives no assignee    *)
(* and no priority still holds then, since a request keeps its body.         *)
(***************************************************************************)

StaffOnly(r) ==
  request[r].pc \in {"updateAssignee", "save"} /\ request[r].actor.role = "employee" =>
    request[r].dto.assigneeId = Undefined /\ request[r].dto.priority = Undefined

StaffInv == TasksInv /\ \A r \in Requests : StaffOnly(r)

LEMMA StaffInit == Init => StaffInv
BY TasksInit DEF Init, StaffInv, StaffOnly, Idle

\* What a step makes of the request it is about.
LEMMA StaffStep ==
  ASSUME StaffInv, NEW r \in Requests, TasksController(r) \/ RequestStep(r)
  PROVE  StaffOnly(r)' /\ \A x \in Requests \ {r} : request'[x] = request[x]
<1>0. TypeOK /\ request \in [Requests -> RequestState]
  BY DEF StaffInv, TasksInv, TypeOK
<1>1. ASSUME NEW s, Goto(r, s)
      PROVE  request'[r] = s /\ \A x \in Requests \ {r} : request'[x] = request[x]
  BY <1>0, <1>1 DEF Goto
<1>2. ASSUME NEW actor \in Actors, NEW t \in TaskIds, NEW dto \in UpdateDtos,
             Update(r, actor, t, dto)
      PROVE  /\ StaffOnly(r)'
             /\ \A x \in Requests \ {r} : request'[x] = request[x]
  <2> DEFINE s == [pc |-> IF dto.assigneeId = Undefined THEN "save" ELSE "updateAssignee",
                   actor |-> actor, dto |-> dto, id |-> t, task |-> tasks[t]]
  <2>1. /\ Goto(r, s)
        /\ dto.assigneeId # Undefined => actor.role \in CanChangeAssigneeOnUpdate
        /\ dto.priority # Undefined => actor.role \in CanChangePriorityOnUpdate
    BY <1>2 DEF Update, CanUpdateTask
  <2>2. s.actor = actor /\ s.dto = dto
    OBVIOUS
  <2> HIDE DEF s
  <2>3. request'[r] = s /\ \A x \in Requests \ {r} : request'[x] = request[x]
    BY <1>1, <2>1
  <2> QED
    BY <2>1, <2>2, <2>3
       DEF StaffOnly, CanChangeAssigneeOnUpdate, CanChangePriorityOnUpdate
<1>3. ASSUME NEW s, s.pc \notin {"updateAssignee", "save"}, Goto(r, s)
      PROVE  /\ StaffOnly(r)'
             /\ \A x \in Requests \ {r} : request'[x] = request[x]
  BY <1>1, <1>3 DEF StaffOnly
<1>4. CASE \/ \E actor \in Actors, dto \in CreateDtos : Create(r, actor, dto)
           \/ \E actor \in Actors, t \in TaskIds : Delete(r, actor, t)
           \/ \E t \in TaskIds : Insert(r, t)
           \/ Save(r) \/ SoftDelete(r) \/ BumpAndRespond(r)
  <2>1. \E s : s.pc \notin {"updateAssignee", "save"} /\ Goto(r, s)
    <3>1. ASSUME NEW actor \in Actors, NEW dto \in CreateDtos, Create(r, actor, dto)
          PROVE  \E s : s.pc \notin {"updateAssignee", "save"} /\ Goto(r, s)
      <4> WITNESS [pc |-> "createAssignee", actor |-> actor, dto |-> dto]
      <4> QED
        BY <3>1 DEF Create
    <3>2. ASSUME NEW actor \in Actors, NEW t \in TaskIds, Delete(r, actor, t)
          PROVE  \E s : s.pc \notin {"updateAssignee", "save"} /\ Goto(r, s)
      <4> WITNESS [pc |-> "softDelete", actor |-> actor, id |-> t]
      <4> QED
        BY <3>2 DEF Delete
    <3>3. Idle.pc = "idle" /\ Bumping.pc = "bump"
      BY DEF Idle, Bumping
    <3> QED
      BY <1>4, <3>1, <3>2, <3>3 DEF Insert, Save, SoftDelete, BumpAndRespond
  <2> QED
    BY <1>3, <2>1
<1>5. CASE CreateAssignee(r) \/ UpdateAssignee(r)
  <2>1. CASE Goto(r, Idle)
    BY <1>3, <2>1 DEF Idle
  <2>2. CASE request[r].pc = "createAssignee" /\ Continue(r, "insert")
    BY <1>0, <2>2, ContinueType DEF StaffOnly
  <2>3. CASE request[r].pc = "updateAssignee" /\ Continue(r, "save")
    <3>1. /\ request'[r].actor = request[r].actor
          /\ request'[r].dto = request[r].dto
          /\ \A x \in Requests \ {r} : request'[x] = request[x]
      BY <1>0, <2>3, ContinueType
    <3> QED
      BY <2>3, <3>1 DEF StaffInv, StaffOnly
  <2> QED
    BY <1>5, <2>1, <2>2, <2>3 DEF CreateAssignee, UpdateAssignee
<1> QED
  BY <1>2, <1>4, <1>5 DEF TasksController, RequestStep

LEMMA StaffNext ==
  ASSUME StaffInv, [Next]_vars
  PROVE  StaffInv'
<1>1. TasksInv'
  BY TasksNext DEF StaffInv
<1>2. ASSUME NEW r \in Requests, TasksController(r) \/ RequestStep(r)
      PROVE  \A x \in Requests : StaffOnly(x)'
  <2>1. StaffOnly(r)' /\ \A x \in Requests \ {r} : request'[x] = request[x]
    BY <1>2, StaffStep
  <2>2. ASSUME NEW x \in Requests \ {r}
        PROVE  StaffOnly(x)'
    BY <2>1, <2>2 DEF StaffInv, StaffOnly
  <2> QED
    BY <2>1, <2>2
<1>3. ASSUME UNCHANGED request
      PROVE  \A x \in Requests : StaffOnly(x)'
  BY <1>3 DEF StaffInv, StaffOnly
<1>4. ASSUME NEW p \in Projects, SoftDeleteProject(p) \/ RestoreProject(p)
      PROVE  UNCHANGED request
  BY <1>4 DEF SoftDeleteProject, RestoreProject
<1>5. ASSUME NEW actor \in Actors, NEW u \in Users, SoftDeleteUser(actor, u)
      PROVE  UNCHANGED request
  BY <1>5 DEF SoftDeleteUser
<1>6. HandleTaskOverdue \/ Tick \/ UNCHANGED vars => UNCHANGED request
  BY DEF HandleTaskOverdue, Tick, vars
<1>7. (\E r \in Requests : TasksController(r) \/ RequestStep(r)) \/ UNCHANGED request
  BY <1>4, <1>5, <1>6, Zenon DEF Next
<1>8. \A r \in Requests : StaffOnly(r)'
  BY <1>2, <1>3, <1>7
<1> QED
  BY <1>1, <1>8 DEF StaffInv

LEMMA ReassignedStepHolds ==
  ASSUME StaffInv, [Next]_vars
  PROVE  ReassignedStep
<1> SUFFICES ASSUME NEW t \in TaskIds, tasks[t] # NoTask,
                    \/ tasks'[t].assigneeId # tasks[t].assigneeId
                    \/ tasks'[t].priority # tasks[t].priority
             PROVE  \E r \in Requests :
                      /\ Writes(r, t)
                      /\ request[r].pc = "save"
                      /\ request[r].actor.role # "employee"
                      /\ tasks'[t].assigneeId \in
                           {tasks[t].assigneeId, request[r].dto.assigneeId}
                      /\ tasks'[t].priority \in
                           {tasks[t].priority, request[r].dto.priority}
  BY DEF ReassignedStep
<1>0. TypeOK /\ tasks[t] \in Task
  BY DEF StaffInv, TasksInv, TypeOK
<1>1. ASSUME NEW r \in Requests, NEW x \in TaskIds, Insert(r, x)
      PROVE  FALSE
  BY <1>0, <1>1 DEF Insert, TypeOK
<1>2. ASSUME NEW r \in Requests, Save(r)
      PROVE  /\ Writes(r, t)
             /\ request[r].pc = "save"
             /\ request[r].actor.role # "employee"
             /\ tasks'[t].assigneeId \in {tasks[t].assigneeId, request[r].dto.assigneeId}
             /\ tasks'[t].priority \in {tasks[t].priority, request[r].dto.priority}
  <2> DEFINE dto == request[r].dto
  <2>1. request[r].pc = "save" /\ request[r] \in Updating /\ request[r].id \in TaskIds
    BY <1>0, <1>2, RequestSort DEF Save, Updating
  <2>2. request[r].id = t
    BY <1>0, <1>2, <2>1 DEF Save, TypeOK
  <2>3. request'[r] = Bumping
    BY <1>0, <1>2 DEF Save, Goto, TypeOK
  <2>4. Writes(r, t)
    BY <2>1, <2>2, <2>3 DEF Writes, Bumping
  <2>5. tasks'[t] = SavedRow(tasks[t], request[r].task, dto)
    BY <1>0, <1>2, <2>2 DEF Save, TypeOK
  <2>6. /\ tasks'[t].assigneeId = OrDefault(dto.assigneeId, tasks[t].assigneeId)
        /\ tasks'[t].priority = OrDefault(dto.priority, tasks[t].priority)
    BY <2>5 DEF SavedRow
  <2>7. dto.assigneeId # Undefined \/ dto.priority # Undefined
    BY <2>6 DEF OrDefault
  <2>8. request[r].actor.role # "employee"
    BY <2>1, <2>7 DEF StaffInv, StaffOnly
  <2> QED
    BY <2>1, <2>4, <2>6, <2>8 DEF OrDefault
<1>3. ASSUME NEW r \in Requests, SoftDelete(r)
      PROVE  FALSE
  <2>1. request[r].id \in TaskIds
    BY <1>0, <1>3, RequestSort DEF SoftDelete, Deleting
  <2>2. tasks'[t].assigneeId = tasks[t].assigneeId /\ tasks'[t].priority = tasks[t].priority
    BY <1>0, <1>3, <2>1 DEF SoftDelete, TypeOK, Task
  <2> QED
    BY <2>2
<1>4. CASE HandleTaskOverdue
  <2>1. tasks'[t] = tasks[t] \/ tasks'[t] = [tasks[t] EXCEPT !.status = "overdue"]
    BY <1>4 DEF HandleTaskOverdue
  <2> QED
    BY <1>0, <2>1 DEF Task
<1>5. CASE UNCHANGED tasks
  BY <1>5
<1>6. CASE \E r \in Requests : Save(r)
  BY <1>2, <1>6
<1> QED
  BY <1>1, <1>3, <1>4, <1>5, <1>6, Zenon
     DEF Next, vars, TasksController, RequestStep, Create, CreateAssignee, Update,
         UpdateAssignee, Delete, BumpAndRespond, Tick, SoftDeleteUser,
         SoftDeleteProject, RestoreProject

\* Only a save of staff changes who a task is assigned to and its priority, to what
\* its own body says, whatever was read before by the updates under way.
THEOREM StaffReassigns == Spec => ReassignedOnlyByStaff
<1>1. StaffInv /\ [Next]_vars => StaffInv'
  BY StaffNext
<1>2. StaffInv /\ [Next]_vars => [ReassignedStep]_vars
  BY ReassignedStepHolds
<1> QED
  BY StaffInit, <1>1, <1>2, PTL DEF Spec, ReassignedOnlyByStaff

-----------------------------------------------------------------------------
(***************************************************************************)
(* Who changes a row, and what becomes of a deleted one.  Three steps write  *)
(* the row of a task that exists: a save, a soft deletion and the cron.      *)
(***************************************************************************)

LEMMA SaveWrites ==
  ASSUME TasksInv, NEW r \in Requests, Save(r)
  PROVE  LET t == request[r].id
             row == SavedRow(tasks[t], request[r].task, request[r].dto)
         IN  /\ t \in TaskIds
             /\ r \in UpdatesOf(t)
             /\ \A x \in TaskIds : r \notin UpdatesOf(x)'
             /\ Writes(r, t)
             /\ tasks' = [tasks EXCEPT ![t] = row]
             /\ tasks'[t] = row
             /\ row \in Task
             /\ row.organizationId = tasks[t].organizationId
             /\ row.projectId = tasks[t].projectId
             /\ request[r].actor.organizationId = tasks[t].organizationId
<1> DEFINE t == request[r].id
           row == SavedRow(tasks[t], request[r].task, request[r].dto)
<1>0. TypeOK /\ RequestInv(r)
  BY DEF TasksInv
<1>1. request[r].pc = "save" /\ request[r] \in Updating
  BY <1>0, RequestSort DEF Save
<1>2. t \in TaskIds /\ request[r].task \in Task /\ request[r].dto \in UpdateDtos
  BY <1>1 DEF Updating
<1>3. tasks[t] \in Task
  BY <1>0, <1>1, <1>2 DEF RequestInv, TypeOK
<1>4. /\ row \in Task
      /\ row.organizationId = request[r].task.organizationId
      /\ row.projectId = request[r].task.projectId
  BY <1>2, <1>3, SavedRowFields
<1>5. /\ row.organizationId = tasks[t].organizationId
      /\ row.projectId = tasks[t].projectId
      /\ request[r].actor.organizationId = tasks[t].organizationId
  BY <1>0, <1>1, <1>4 DEF RequestInv
<1>6. request'[r] = Bumping
  BY <1>0 DEF Save, Goto, TypeOK
<1>7. /\ r \in UpdatesOf(t)
      /\ Writes(r, t)
      /\ \A x \in TaskIds : r \notin UpdatesOf(x)'
  BY <1>1, <1>6 DEF UpdatesOf, Writes, Bumping
<1>8. tasks' = [tasks EXCEPT ![t] = row] /\ tasks'[t] = row
  BY <1>0, <1>2 DEF Save, TypeOK
<1> HIDE DEF row
<1> QED
  BY <1>2, <1>4, <1>5, <1>7, <1>8 DEF row

LEMMA SoftDeleteWrites ==
  ASSUME TasksInv, NEW r \in Requests, SoftDelete(r)
  PROVE  LET t == request[r].id
         IN  /\ t \in TaskIds
             /\ tasks[t] \in Task
             /\ Writes(r, t)
             /\ \/ UNCHANGED tasks
                \/ /\ tasks' = [tasks EXCEPT ![t].deleted = TRUE]
                   /\ request[r].actor.organizationId = tasks[t].organizationId
<1>0. TypeOK /\ RequestInv(r)
  BY DEF TasksInv
<1>1. request[r].pc = "softDelete" /\ request[r].id \in TaskIds
  BY <1>0, RequestSort DEF SoftDelete, Deleting
<1>2. tasks[request[r].id] \in Task
  BY <1>0, <1>1 DEF RequestInv, TypeOK
<1>3. request'[r] = Bumping
  BY <1>0 DEF SoftDelete, Goto, TypeOK
<1>4. Writes(r, request[r].id)
  BY <1>1, <1>3 DEF Writes, Bumping
<1> QED
  BY <1>1, <1>2, <1>4 DEF SoftDelete

\* What a step may do to the row of a task that exists.
LEMMA RowWritten ==
  ASSUME TasksInv, [Next]_vars, NEW t \in TaskIds, tasks[t] # NoTask,
         tasks'[t] # tasks[t]
  PROVE  \/ \E r \in Requests : Save(r) /\ request[r].id = t
         \/ \E r \in Requests : SoftDelete(r) /\ request[r].id = t
         \/ /\ IsPastDue(tasks[t])
            /\ tasks'[t] = [tasks[t] EXCEPT !.status = "overdue"]
<1>0. TypeOK
  BY DEF TasksInv
<1>1. ASSUME NEW r \in Requests, NEW x \in TaskIds, Insert(r, x)
      PROVE  FALSE
  BY <1>0, <1>1 DEF Insert, TypeOK
<1>2. ASSUME NEW r \in Requests, Save(r)
      PROVE  request[r].id = t
  <2>1. /\ request[r].id \in TaskIds
        /\ \E row : tasks' = [tasks EXCEPT ![request[r].id] = row]
    BY <1>2, SaveWrites
  <2> QED
    BY <1>0, <2>1 DEF TypeOK
<1>3. ASSUME NEW r \in Requests, SoftDelete(r)
      PROVE  request[r].id = t
  <2>1. /\ request[r].id \in TaskIds
        /\ tasks' = [tasks EXCEPT ![request[r].id].deleted = TRUE]
    BY <1>3, SoftDeleteWrites
  <2> QED
    BY <1>0, <2>1 DEF TypeOK
<1>4. CASE HandleTaskOverdue
  BY <1>4 DEF HandleTaskOverdue
<1>5. CASE UNCHANGED tasks
  BY <1>5
<1> QED
  BY <1>1, <1>2, <1>3, <1>4, <1>5, Zenon
     DEF Next, vars, TasksController, RequestStep, Create, CreateAssignee, Update,
         UpdateAssignee, Delete, BumpAndRespond, Tick, SoftDeleteUser,
         SoftDeleteProject, RestoreProject

LEMMA TenantStepHolds ==
  ASSUME TasksInv, [Next]_vars
  PROVE  TenantStep
<1> SUFFICES ASSUME NEW t \in TaskIds, tasks[t] # NoTask, tasks'[t] # tasks[t]
             PROVE  /\ tasks'[t] # NoTask
                    /\ tasks'[t].organizationId = tasks[t].organizationId
                    /\ tasks'[t].projectId = tasks[t].projectId
                    /\ \/ \E r \in Requests :
                            /\ Writes(r, t)
                            /\ request[r].actor.organizationId = tasks[t].organizationId
                       \/ tasks'[t] = [tasks[t] EXCEPT !.status = "overdue"]
  BY DEF TenantStep
<1>0. tasks[t] \in Task
  BY DEF TasksInv, TypeOK
<1>1. CASE \E r \in Requests : Save(r) /\ request[r].id = t
  BY <1>1, SaveWrites, NoTaskIsNoRow
<1>2. CASE \E r \in Requests : SoftDelete(r) /\ request[r].id = t
  <2> PICK r \in Requests : SoftDelete(r) /\ request[r].id = t
    BY <1>2
  <2>1. /\ Writes(r, t)
        /\ tasks' = [tasks EXCEPT ![t].deleted = TRUE]
        /\ request[r].actor.organizationId = tasks[t].organizationId
    BY SoftDeleteWrites
  <2>2. tasks'[t] = [tasks[t] EXCEPT !.deleted = TRUE]
    BY <2>1 DEF TasksInv, TypeOK
  <2>3. /\ tasks'[t] \in Task
        /\ tasks'[t].organizationId = tasks[t].organizationId
        /\ tasks'[t].projectId = tasks[t].projectId
    BY <1>0, <2>2 DEF Task
  <2> QED
    BY <2>1, <2>3, NoTaskIsNoRow
<1>3. CASE tasks'[t] = [tasks[t] EXCEPT !.status = "overdue"]
  <2>1. /\ tasks'[t] \in Task
        /\ tasks'[t].organizationId = tasks[t].organizationId
        /\ tasks'[t].projectId = tasks[t].projectId
    BY <1>0, <1>3 DEF Task, TaskStatus
  <2> QED
    BY <1>3, <2>1, NoTaskIsNoRow
<1> QED
  BY <1>1, <1>2, <1>3, RowWritten

\* A task changes only by its own organization's requests and by the cron, and
\* keeps its organization and its project for ever.
THEOREM TasksAreTheTenants == Spec => ChangedOnlyByTenant
<1>1. TasksInv /\ [Next]_vars => TasksInv'
  BY TasksNext
<1>2. TasksInv /\ [Next]_vars => [TenantStep]_vars
  BY TenantStepHolds
<1> QED
  BY TasksInit, <1>1, <1>2, PTL DEF Spec, ChangedOnlyByTenant

\* While a task is deleted no update finds it: those under way only go on.
LEMMA NoUpdateBegins ==
  ASSUME TypeOK, [Next]_vars, NEW t \in TaskIds, tasks[t] # NoTask, tasks[t].deleted
  PROVE  UpdatesOf(t)' \subseteq UpdatesOf(t)
<1>1. ASSUME NEW r \in Requests, NEW s,
             s.pc \in {"updateAssignee", "save"} => s.id # t, Goto(r, s)
      PROVE  UpdatesOf(t)' \subseteq UpdatesOf(t)
  <2>1. request'[r] = s /\ \A x \in Requests \ {r} : request'[x] = request[x]
    BY <1>1 DEF Goto, TypeOK
  <2> QED
    BY <1>1, <2>1 DEF UpdatesOf
<1>2. ASSUME NEW r \in Requests, TasksController(r)
      PROVE  UpdatesOf(t)' \subseteq UpdatesOf(t)
  <2>1. ASSUME NEW actor \in Actors, NEW dto \in CreateDtos, Create(r, actor, dto)
        PROVE  UpdatesOf(t)' \subseteq UpdatesOf(t)
    <3> DEFINE s == [pc |-> "createAssignee", actor |-> actor, dto |-> dto]
    <3>1. Goto(r, s) /\ s.pc \notin {"updateAssignee", "save"}
      BY <2>1 DEF Create
    <3> QED
      BY <1>1, <3>1
  <2>2. ASSUME NEW actor \in Actors, NEW x \in TaskIds, NEW dto \in UpdateDtos,
               Update(r, actor, x, dto)
        PROVE  UpdatesOf(t)' \subseteq UpdatesOf(t)
    <3> DEFINE s == [pc |-> IF dto.assigneeId = Undefined THEN "save" ELSE "updateAssignee",
                     actor |-> actor, dto |-> dto, id |-> x, task |-> tasks[x]]
    <3>1. Goto(r, s) /\ s.id = x /\ x # t
      BY <2>2 DEF Update, FindsTask
    <3> HIDE DEF s
    <3> QED
      BY <1>1, <3>1
  <2>3. ASSUME NEW actor \in Actors, NEW x \in TaskIds, Delete(r, actor, x)
        PROVE  UpdatesOf(t)' \subseteq UpdatesOf(t)
    <3> DEFINE s == [pc |-> "softDelete", actor |-> actor, id |-> x]
    <3>1. Goto(r, s) /\ s.pc \notin {"updateAssignee", "save"}
      BY <2>3 DEF Delete
    <3> QED
      BY <1>1, <3>1
  <2> QED
    BY <1>2, <2>1, <2>2, <2>3 DEF TasksController
<1>3. ASSUME NEW r \in Requests, RequestStep(r)
      PROVE  UpdatesOf(t)' \subseteq UpdatesOf(t)
  <2>1. CASE \E s \in {Idle, Bumping} : Goto(r, s)
    BY <1>1, <2>1 DEF Idle, Bumping
  <2>2. CASE request[r].pc = "createAssignee" /\ Continue(r, "insert")
    BY <2>2, ContinueType DEF UpdatesOf
  <2>3. CASE request[r].pc = "updateAssignee" /\ Continue(r, "save")
    BY <2>3, ContinueType DEF UpdatesOf
  <2> QED
    BY <1>3, <2>1, <2>2, <2>3
       DEF RequestStep, CreateAssignee, Insert, UpdateAssignee, Save, SoftDelete,
           BumpAndRespond
<1>4. CASE UNCHANGED request
  BY <1>4 DEF UpdatesOf
<1> QED
  BY <1>2, <1>3, <1>4, Zenon
     DEF Next, vars, HandleTaskOverdue, Tick, SoftDeleteUser, SoftDeleteProject,
         RestoreProject

LEMMA DeletedStepHolds ==
  ASSUME TasksInv, [Next]_vars
  PROVE  DeletedStep
<1> SUFFICES ASSUME NEW t \in TaskIds, tasks[t] # NoTask, tasks[t].deleted
             PROVE  /\ UpdatesOf(t)' \subseteq UpdatesOf(t)
                    /\ \/ tasks'[t] = tasks[t]
                       \/ \E r \in UpdatesOf(t) \ UpdatesOf(t)' : Writes(r, t)
  BY DEF DeletedStep
<1>0. TypeOK /\ tasks[t] \in Task
  BY DEF TasksInv, TypeOK
<1>1. UpdatesOf(t)' \subseteq UpdatesOf(t)
  BY <1>0, NoUpdateBegins
<1>2. CASE \E r \in Requests : Save(r) /\ request[r].id = t
  <2>1. \E r \in UpdatesOf(t) \ UpdatesOf(t)' : Writes(r, t)
    BY <1>2, SaveWrites
  <2> QED
    BY <1>1, <2>1
<1>3. CASE \E r \in Requests : SoftDelete(r) /\ request[r].id = t
  <2>1. tasks' = [tasks EXCEPT ![t].deleted = TRUE] \/ UNCHANGED tasks
    BY <1>3, SoftDeleteWrites
  <2>2. [tasks[t] EXCEPT !.deleted = TRUE] = tasks[t]
    BY <1>0 DEF Task
  <2>3. tasks'[t] = tasks[t]
    BY <1>0, <2>1, <2>2 DEF TypeOK
  <2> QED
    BY <1>1, <2>3
<1>4. ~IsPastDue(tasks[t])
  BY DEF IsPastDue
<1> QED
  BY <1>1, <1>2, <1>3, <1>4, RowWritten

\* A deleted task stays as it is until an update that had found it before
\* brings it back, and every update that does so leaves one less that can.
THEOREM RestoredByOldUpdates == Spec => RestoredOnlyByOldUpdate
<1>1. TasksInv /\ [Next]_vars => TasksInv'
  BY TasksNext
<1>2. TasksInv /\ [Next]_vars => [DeletedStep]_vars
  BY DeletedStepHolds
<1> QED
  BY TasksInit, <1>1, <1>2, PTL DEF Spec, RestoredOnlyByOldUpdate
=============================================================================
