--------------------------- MODULE ProjectsProofs ---------------------------
(***************************************************************************)
(* Theorems about Projects, for all organizations, callers, names and        *)
(* numbers of projects and of concurrent requests.                          *)
(***************************************************************************)
EXTENDS Projects, FiniteSetTheorems, TLAPS

-----------------------------------------------------------------------------
(***************************************************************************)
(* Rows and requests.                                                      *)
(***************************************************************************)

LEMMA NoProjectIsNoRow == NoProject \notin Project
BY DEF NoProject, Project

LEMMA FoundIsRow ==
  ASSUME TypeOK, NEW p \in ProjectIds, NEW o, Finds(p, o)
  PROVE  /\ projects[p] \in Project
         /\ projects[p] # NoProject
         /\ projects[p].organizationId = o
         /\ ~projects[p].deleted
BY NoProjectIsNoRow DEF TypeOK, Finds, NoProject

LEMMA NewRowType ==
  ASSUME NEW actor \in Actors, NEW name \in Names
  PROVE  NewRow(actor, name) \in Project /\ ~NewRow(actor, name).deleted
BY ActorsAssumption DEF NewRow, Project, Actor

LEMMA RenamedFields ==
  ASSUME NEW project \in Project, NEW name \in Names
  PROVE  /\ RenamedTo(project, name) \in Project
         /\ RenamedTo(project, name).name = name
         /\ RenamedTo(project, name).organizationId = project.organizationId
         /\ RenamedTo(project, name).deleted = project.deleted
BY DEF RenamedTo, Project

\* What save() leaves of a row: the name of the body, else of the row; the
\* organization and deletedAt of the snapshot.
LEMMA SavedRowFields ==
  ASSUME NEW row \in Project, NEW project \in Project, NEW name \in OptionalName
  PROVE  /\ SavedRow(row, project, name) \in Project
         /\ SavedRow(row, project, name).name =
              (IF name = Undefined THEN row.name ELSE name)
         /\ SavedRow(row, project, name).organizationId = project.organizationId
<1>1. (IF name = Undefined THEN row.name ELSE name) \in Names
  BY DEF OptionalName, Project
<1> QED
  BY <1>1, RenamedFields DEF SavedRow

\* The pc of a request tells which fields it has.
LEMMA RequestSort ==
  ASSUME TypeOK, NEW r \in Requests
  PROVE  /\ request[r].pc = "insert" => request[r] \in Creating
         /\ request[r].pc \in {"exists", "save"} => request[r] \in Updating
         /\ request[r].pc = "softDelete" => request[r] \in Deleting
<1>1. request[r] \in RequestState
  BY DEF TypeOK
<1>2. CASE request[r] = Idle
  BY <1>2 DEF Idle
<1>3. CASE request[r] \in Creating
  BY <1>3 DEF Creating
<1>4. CASE request[r] \in Updating
  BY <1>4 DEF Updating
<1>5. CASE request[r] \in Deleting
  BY <1>5 DEF Deleting
<1>6. CASE request[r] \in Conflicting
  BY <1>6 DEF Conflicting
<1> QED
  BY <1>1, <1>2, <1>3, <1>4, <1>5, <1>6 DEF RequestState

LEMMA ConflictType ==
  ASSUME NEW id \in ProjectIds \cup {Undefined}, NEW row \in Project
  PROVE  [pc |-> "conflict", id |-> id, row |-> row] \in RequestState
BY DEF RequestState, Conflicting

-----------------------------------------------------------------------------
(***************************************************************************)
(* The inductive invariant: what a request holds stays true of the rows it  *)
(* will write, since rows are never removed and keep their organization.    *)
(***************************************************************************)

Sound(rows, s) ==
  /\ s.pc = "insert" => ~s.row.deleted
  /\ s.pc \in {"exists", "save"} =>
       /\ rows[s.id] # NoProject
       /\ rows[s.id].organizationId = s.project.organizationId
       /\ ~s.project.deleted
  /\ s.pc = "exists" => s.name # Undefined
  /\ s.pc = "softDelete" =>
       /\ rows[s.id] # NoProject
       /\ rows[s.id].organizationId = s.organizationId

ProjectsInv ==
  /\ TypeOK
  /\ LiveNamesDiffer
  /\ \A r \in Requests : Sound(projects, request[r])

RowsKept ==
  /\ projects' \in [ProjectIds -> Project \cup {NoProject}]
  /\ \A p \in ProjectIds :
       projects[p] # NoProject =>
         /\ projects'[p] # NoProject
         /\ projects'[p].organizationId = projects[p].organizationId

LEMMA SoundKept ==
  ASSUME ProjectsInv, RowsKept, NEW r \in Requests
  PROVE  Sound(projects', request[r])
<1>1. TypeOK /\ Sound(projects, request[r])
  BY DEF ProjectsInv
<1>2. CASE request[r].pc \in {"exists", "save"}
  <2>1. request[r].id \in ProjectIds
    BY <1>1, <1>2, RequestSort DEF Updating
  <2> QED
    BY <1>1, <1>2, <2>1 DEF Sound, RowsKept
<1>3. CASE request[r].pc = "softDelete"
  <2>1. request[r].id \in ProjectIds
    BY <1>1, <1>3, RequestSort DEF Deleting
  <2> QED
    BY <1>1, <1>3, <2>1 DEF Sound, RowsKept
<1> QED
  BY <1>1, <1>2, <1>3 DEF Sound

\* Request r goes on in state s, whatever it did to the rows.
LEMMA RequestGoesOn ==
  ASSUME ProjectsInv, NEW r \in Requests, NEW s \in RequestState, Goto(r, s),
         RowsKept, LiveNamesDiffer', Sound(projects', s)
  PROVE  ProjectsInv'
<1>1. /\ request' \in [Requests -> RequestState]
      /\ request'[r] = s
      /\ \A x \in Requests \ {r} : request'[x] = request[x]
  BY DEF Goto, ProjectsInv, TypeOK
<1>2. \A x \in Requests : Sound(projects', request'[x])
  BY <1>1, SoundKept
<1> QED
  BY <1>1, <1>2 DEF ProjectsInv, TypeOK, RowsKept

\* The same of a step that only looks at the rows.
LEMMA LookingStep ==
  ASSUME ProjectsInv, NEW r \in Requests, NEW s \in RequestState, Goto(r, s),
         UNCHANGED projects, Sound(projects, s)
  PROVE  ProjectsInv'
<1>1. RowsKept /\ LiveNamesDiffer' /\ Sound(projects', s)
  BY DEF ProjectsInv, TypeOK, RowsKept, LiveNamesDiffer, NameExists, Finds
<1> QED
  BY <1>1, RequestGoesOn

LEMMA ConflictingStep ==
  ASSUME ProjectsInv, NEW r \in Requests, NEW id \in ProjectIds \cup {Undefined},
         NEW row \in Project, Conflict(r, id, row), UNCHANGED projects
  PROVE  ProjectsInv'
<1> DEFINE s == [pc |-> "conflict", id |-> id, row |-> row]
<1>1. s \in RequestState /\ Goto(r, s) /\ Sound(projects, s)
  BY ConflictType DEF Conflict, Sound
<1> HIDE DEF s
<1> QED
  BY <1>1, LookingStep

\* A row that the index lets pass keeps the names of the living apart.
LEMMA WrittenRow ==
  ASSUME ProjectsInv, NEW p \in ProjectIds, NEW row \in Project,
         ~UniqueViolation(p, row),
         projects[p] # NoProject => row.organizationId = projects[p].organizationId,
         projects' = [projects EXCEPT ![p] = row]
  PROVE  RowsKept /\ LiveNamesDiffer'
<1>1. /\ \A x \in ProjectIds \ {p} : projects'[x] = projects[x]
      /\ projects'[p] = row
      /\ projects' \in [ProjectIds -> Project \cup {NoProject}]
  BY DEF ProjectsInv, TypeOK
<1>2. RowsKept
  BY <1>1, NoProjectIsNoRow DEF RowsKept
<1>3. ASSUME NEW x \in ProjectIds, NEW y \in ProjectIds \ {x},
             ~projects'[x].deleted, ~projects'[y].deleted,
             projects'[x].organizationId = projects'[y].organizationId,
             projects'[x].name = projects'[y].name
      PROVE  FALSE
  <2>1. CASE x = p
    BY <1>1, <1>3, <2>1 DEF UniqueViolation, NameExists, Finds
  <2>2. CASE y = p
    BY <1>1, <1>3, <2>2 DEF UniqueViolation, NameExists, Finds
  <2>3. CASE x # p /\ y # p
    BY <1>1, <1>3, <2>3 DEF ProjectsInv, LiveNamesDiffer, NameExists, Finds
  <2> QED
    BY <2>1, <2>2, <2>3
<1> QED
  BY <1>2, <1>3 DEF LiveNamesDiffer, NameExists, Finds

-----------------------------------------------------------------------------
(***************************************************************************)
(* The steps.                                                              *)
(***************************************************************************)

LEMMA IdleStates ==
  Idle \in RequestState /\ \A rows : Sound(rows, Idle)
BY DEF RequestState, Idle, Sound

LEMMA CreateSteps ==
  ASSUME ProjectsInv, NEW r \in Requests,
         \/ \E actor \in Actors, name \in Names : Create(r, actor, name)
         \/ \E p \in ProjectIds : Insert(r, p)
  PROVE  ProjectsInv'
<1>0. TypeOK
  BY DEF ProjectsInv
<1>1. ASSUME NEW actor \in Actors, NEW name \in Names, Create(r, actor, name)
      PROVE  ProjectsInv'
  <2> DEFINE row == NewRow(actor, name)
             s   == [pc |-> "insert", row |-> row]
  <2>1. row \in Project /\ ~row.deleted
    BY NewRowType
  <2>2. UNCHANGED projects /\ (Conflict(r, Undefined, row) \/ Goto(r, s))
    BY <1>1 DEF Create
  <2> HIDE DEF row
  <2>3. s \in RequestState /\ Sound(projects, s)
    BY <2>1 DEF RequestState, Creating, Sound
  <2> HIDE DEF s
  <2> QED
    BY <2>1, <2>2, <2>3, ConflictingStep, LookingStep
<1>2. ASSUME NEW p \in ProjectIds, Insert(r, p)
      PROVE  ProjectsInv'
  <2>1. request[r].row \in Project /\ projects[p] = NoProject
    BY <1>0, <1>2, RequestSort DEF Insert, Creating
  <2>2. CASE UniqueViolation(p, request[r].row)
    BY <1>2, <2>1, <2>2, ConflictingStep DEF Insert
  <2>3. CASE ~UniqueViolation(p, request[r].row)
    <3>1. Goto(r, Idle) /\ projects' = [projects EXCEPT ![p] = request[r].row]
      BY <1>2, <2>3 DEF Insert
    <3>2. RowsKept /\ LiveNamesDiffer'
      BY <2>1, <2>3, <3>1, WrittenRow
    <3> QED
      BY <3>1, <3>2, IdleStates, RequestGoesOn
  <2> QED
    BY <2>2, <2>3
<1> QED
  BY <1>1, <1>2

LEMMA UpdateBegins ==
  ASSUME ProjectsInv, NEW r \in Requests, NEW actor \in Actors, NEW p \in ProjectIds,
         NEW name \in OptionalName, Update(r, actor, p, name)
  PROVE  ProjectsInv'
<1> DEFINE pc == IF name \in {Undefined, projects[p].name} THEN "save" ELSE "exists"
           s  == [pc |-> pc, id |-> p, project |-> projects[p], name |-> name]
<1>1. /\ projects[p] \in Project
      /\ projects[p] # NoProject
      /\ ~projects[p].deleted
  BY FoundIsRow DEF Update, ProjectsInv
<1>2. Goto(r, s) /\ UNCHANGED projects
  BY DEF Update
<1>3. pc \in {"exists", "save"} /\ (pc = "exists" => name # Undefined)
  OBVIOUS
<1> HIDE DEF pc
<1>4. s \in RequestState
  BY <1>1, <1>3 DEF RequestState, Updating
<1>5. Sound(projects, s)
  BY <1>1, <1>3 DEF Sound
<1> HIDE DEF s
<1> QED
  BY <1>2, <1>4, <1>5, LookingStep

LEMMA ExistsStep ==
  ASSUME ProjectsInv, NEW r \in Requests, Exists(r)
  PROVE  ProjectsInv'
<1>1. /\ TypeOK
      /\ request[r].pc = "exists"
      /\ request[r] \in Updating
      /\ UNCHANGED projects
      /\ Sound(projects, request[r])
  BY RequestSort DEF ProjectsInv, Exists
<1> DEFINE row == RenamedTo(request[r].project, request[r].name)
           s   == [request[r] EXCEPT !.pc = "save"]
<1>2. CASE request' = [request EXCEPT ![r].pc = "save"]
  <2>1. Goto(r, s)
    BY <1>2 DEF Goto
  <2>2. s \in Updating /\ s.pc = "save"
    BY <1>1 DEF Updating
  <2>3. s.id = request[r].id /\ s.project = request[r].project
    BY <1>1 DEF Updating
  <2> HIDE DEF s
  <2>4. s \in RequestState /\ Sound(projects, s)
    BY <1>1, <2>2, <2>3 DEF RequestState, Sound
  <2> QED
    BY <1>1, <2>1, <2>4, LookingStep
<1>3. CASE Conflict(r, request[r].id, row)
  <2>1. request[r].name \in Names
    BY <1>1 DEF Updating, OptionalName, Sound
  <2> QED
    BY <1>1, <1>3, <2>1, RenamedFields, ConflictingStep DEF Updating
<1> QED
  BY <1>2, <1>3 DEF Exists

LEMMA SaveStep ==
  ASSUME ProjectsInv, NEW r \in Requests, Save(r)
  PROVE  ProjectsInv'
<1> DEFINE p   == request[r].id
           row == SavedRow(projects[p], request[r].project, request[r].name)
<1>1. /\ TypeOK
      /\ request[r].pc = "save"
      /\ request[r] \in Updating
      /\ Sound(projects, request[r])
  BY RequestSort DEF ProjectsInv, Save
<1>2. /\ p \in ProjectIds
      /\ projects[p] \in Project
      /\ projects[p].organizationId = request[r].project.organizationId
  BY <1>1 DEF Updating, Sound, TypeOK
<1>3. row \in Project /\ row.organizationId = projects[p].organizationId
  <2>1. /\ request[r].project \in Project
        /\ request[r].name \in OptionalName
    BY <1>1 DEF Updating
  <2> QED
    BY <1>2, <2>1, SavedRowFields, ZenonT(30)
<1>4. CASE UniqueViolation(p, row)
  <2>1. Conflict(r, p, row) /\ UNCHANGED projects
    BY <1>4 DEF Save
  <2> QED
    BY <1>2, <1>3, <2>1, ConflictingStep
<1>5. CASE ~UniqueViolation(p, row)
  <2>1. Goto(r, Idle) /\ projects' = [projects EXCEPT ![p] = row]
    BY <1>5 DEF Save
  <2> HIDE DEF row
  <2>2. RowsKept /\ LiveNamesDiffer'
    BY <1>2, <1>3, <1>5, <2>1, WrittenRow
  <2> QED
    BY <2>1, <2>2, IdleStates, RequestGoesOn
<1> QED
  BY <1>4, <1>5

LEMMA DeleteSteps ==
  ASSUME ProjectsInv, NEW r \in Requests,
         \/ \E actor \in Actors, p \in ProjectIds : Delete(r, actor, p)
         \/ SoftDelete(r)
  PROVE  ProjectsInv'
<1>0. TypeOK
  BY DEF ProjectsInv
<1>1. ASSUME NEW actor \in Actors, NEW p \in ProjectIds, Delete(r, actor, p)
      PROVE  ProjectsInv'
  <2> DEFINE s == [pc |-> "softDelete", id |-> p,
                   organizationId |-> actor.organizationId]
  <2>1. /\ projects[p] # NoProject
        /\ projects[p].organizationId = actor.organizationId
        /\ Goto(r, s)
        /\ UNCHANGED projects
    BY <1>0, <1>1, FoundIsRow DEF Delete
  <2>2. s \in RequestState /\ Sound(projects, s)
    BY <2>1, ActorsAssumption DEF RequestState, Deleting, Sound, Actor
  <2> HIDE DEF s
  <2> QED
    BY <2>1, <2>2, LookingStep
<1>2. CASE SoftDelete(r)
  <2> DEFINE p   == request[r].id
             row == [projects[p] EXCEPT !.deleted = TRUE]
  <2>1. /\ p \in ProjectIds
        /\ projects[p] \in Project
        /\ Goto(r, Idle)
        /\ projects' = projects \/ projects' = [projects EXCEPT ![p] = row]
    BY <1>0, <1>2, RequestSort DEF SoftDelete, Deleting, ProjectsInv, Sound, TypeOK
  <2>2. /\ row \in Project
        /\ row.deleted
        /\ row.organizationId = projects[p].organizationId
    BY <2>1 DEF Project
  <2> HIDE DEF row
  <2>3. CASE projects' = projects
    BY <2>1, <2>3, IdleStates, LookingStep
  <2>4. CASE projects' = [projects EXCEPT ![p] = row]
    <3>1. ~UniqueViolation(p, row)
      BY <2>2 DEF UniqueViolation
    <3>2. RowsKept /\ LiveNamesDiffer'
      BY <2>1, <2>2, <2>4, <3>1, WrittenRow
    <3> QED
      BY <2>1, <3>2, IdleStates, RequestGoesOn
  <2> QED
    BY <2>1, <2>3, <2>4
<1> QED
  BY <1>1, <1>2

LEMMA ProjectsStep ==
  ASSUME ProjectsInv, [Next]_vars
  PROVE  ProjectsInv'
<1>1. ASSUME NEW r \in Requests, ProjectsController(r)
      PROVE  ProjectsInv'
  BY <1>1, CreateSteps, UpdateBegins, DeleteSteps DEF ProjectsController
<1>2. ASSUME NEW r \in Requests, Respond(r)
      PROVE  ProjectsInv'
  BY <1>2, IdleStates, LookingStep DEF Respond
<1>3. ASSUME NEW r \in Requests, RequestStep(r), ~Respond(r)
      PROVE  ProjectsInv'
  BY <1>3, CreateSteps, ExistsStep, SaveStep, DeleteSteps DEF RequestStep
<1>4. ASSUME UNCHANGED projects, request' \in [Requests -> RequestState],
             \A r \in Requests : Sound(projects, request'[r])
      PROVE  ProjectsInv'
  BY <1>4 DEF ProjectsInv, TypeOK, LiveNamesDiffer, NameExists, Finds
<1>5. CASE ProcessExit
  BY <1>4, <1>5, IdleStates DEF ProcessExit
<1>6. CASE UNCHANGED vars
  BY <1>4, <1>6 DEF vars, ProjectsInv, TypeOK
<1> QED
  BY <1>1, <1>2, <1>3, <1>5, <1>6 DEF Next

LEMMA ProjectsInvariant == Spec => []ProjectsInv
<1>1. Init => ProjectsInv
  BY IdleStates DEF Init, ProjectsInv, TypeOK, LiveNamesDiffer, NoProject
<1>2. ProjectsInv /\ [Next]_vars => ProjectsInv'
  BY ProjectsStep
<1> QED
  BY <1>1, <1>2, PTL DEF Spec

-----------------------------------------------------------------------------
(***************************************************************************)
(* The theorems.                                                           *)
(***************************************************************************)

\* The rows of projects and the requests of projects.service.ts are always of
\* their types: no update writes a row that is not there.
THEOREM TypeCorrect == Spec => []TypeOK
<1>1. ProjectsInv => TypeOK
  BY DEF ProjectsInv
<1> QED
  BY <1>1, ProjectsInvariant, PTL

\* However many creations, renamings, deletions and restorations race, the live
\* projects of an organization have different names.
THEOREM NamesOfTheLiving == Spec => []LiveNamesDiffer
<1>1. ProjectsInv => LiveNamesDiffer
  BY DEF ProjectsInv
<1> QED
  BY <1>1, ProjectsInvariant, PTL

LEMMA RenamedStepHolds ==
  ASSUME ProjectsInv, [Next]_vars
  PROVE  RenamedStep
<1> SUFFICES ASSUME NEW p \in ProjectIds, projects[p] # NoProject,
                    projects'[p].name # projects[p].name
             PROVE  \E r \in Requests :
                      /\ request[r].pc = "save"
                      /\ request[r].id = p
                      /\ request[r].name = projects'[p].name
  BY DEF RenamedStep
<1>0. TypeOK
  BY DEF ProjectsInv
<1>1. ASSUME NEW r \in Requests, NEW x \in ProjectIds, Insert(r, x)
      PROVE  FALSE
  BY <1>0, <1>1 DEF Insert, TypeOK
<1>2. ASSUME NEW r \in Requests, SoftDelete(r)
      PROVE  FALSE
  <2>1. projects[p] \in Project
    BY <1>0 DEF TypeOK
  <2>2. request[r].id \in ProjectIds
    BY <1>0, <1>2, RequestSort DEF SoftDelete, Deleting
  <2> QED
    BY <1>0, <1>2, <2>1, <2>2 DEF SoftDelete, TypeOK, Project
<1>3. ASSUME NEW r \in Requests, Save(r)
      PROVE  /\ request[r].pc = "save"
             /\ request[r].id = p
             /\ request[r].name = projects'[p].name
  <2> DEFINE x   == request[r].id
             row == SavedRow(projects[x], request[r].project, request[r].name)
  <2>1. /\ request[r].pc = "save"
        /\ request[r] \in Updating
        /\ x \in ProjectIds
        /\ projects[x] \in Project
    BY <1>0, <1>3, RequestSort DEF Save, Updating, ProjectsInv, Sound, TypeOK
  <2>2. row.name = (IF request[r].name = Undefined THEN projects[x].name
                                                   ELSE request[r].name)
    <3>1. request[r].project \in Project /\ request[r].name \in OptionalName
      BY <2>1 DEF Updating
    <3> QED
      BY <2>1, <3>1, SavedRowFields, ZenonT(30)
  <2>3. projects' = [projects EXCEPT ![x] = row] \/ UNCHANGED projects
    BY <1>3 DEF Save
  <2> HIDE DEF row
  <2> QED
    BY <1>0, <2>1, <2>2, <2>3 DEF TypeOK
<1>4. CASE UNCHANGED projects
  BY <1>4
<1> QED
  BY <1>1, <1>2, <1>3, <1>4, Zenon
     DEF Next, vars, ProjectsController, RequestStep, Create, Update, Exists, Delete,
         Respond, ProcessExit

\* No update without a name, and no restoration, gives a project another name
\* than the one it has when the save is applied.
THEOREM RenamedWhenAsked == Spec => RenamedOnlyOnDemand
<1>1. ProjectsInv /\ [Next]_vars => [RenamedStep]_vars
  BY RenamedStepHolds
<1> QED
  BY <1>1, ProjectsInvariant, PTL DEF Spec, RenamedOnlyOnDemand

-----------------------------------------------------------------------------
(***************************************************************************)
(* The refinement of ProjectRegistry: what a request has asked for is a      *)
(* function of its state, the rows are the register.                        *)
(***************************************************************************)

Calls == [r \in Requests |-> Asked(request[r])]

LEMMA AskedSort ==
  ASSUME NEW s
  PROVE  /\ s.pc = "idle" => Asked(s) = Registry!Idle
         /\ s.pc = "insert" =>
              Asked(s) = Registry!Call("register", Undefined, s.row.name,
                                       s.row.organizationId)
         /\ s.pc \in {"exists", "save"} =>
              Asked(s) = Registry!Call("rename", s.id, s.name, s.project.organizationId)
         /\ s.pc = "softDelete" =>
              Asked(s) = Registry!Call("retire", s.id, Undefined, s.organizationId)
         /\ s.pc = "conflict" =>
              Asked(s) = Registry!Call("refused", s.id, s.row.name, s.row.organizationId)
BY DEF Asked, Registry!Idle, Registry!Call

LEMMA IdleAsks == Asked(Idle) = Registry!Idle
BY AskedSort DEF Idle

LEMMA CallFields ==
  ASSUME NEW op, NEW p, NEW name, NEW o
  PROVE  /\ Registry!Call(op, p, name, o).op = op
         /\ Registry!Call(op, p, name, o).id = p
         /\ Registry!Call(op, p, name, o).name = name
         /\ Registry!Call(op, p, name, o).organizationId = o
BY DEF Registry!Call

LEMMA TakenIsExists ==
  ASSUME NEW p, NEW name, NEW o
  PROVE  Registry!Taken(p, name, o) <=> NameExists(p, name, o)
BY DEF Registry!Taken, NameExists, Finds

\* A request that goes on is a call that goes on.
LEMMA CallMoves ==
  ASSUME TypeOK, NEW r \in Requests, NEW s, Goto(r, s)
  PROVE  /\ Calls[r] = Asked(request[r])
         /\ Calls' = [Calls EXCEPT ![r] = Asked(s)]
<1>1. request'[r] = s /\ \A x \in Requests \ {r} : request'[x] = request[x]
  BY DEF Goto, TypeOK
<1> QED
  BY <1>1 DEF Calls

LEMMA InitMaps ==
  ASSUME Init
  PROVE  Registry!Init
<1>1. Calls = [r \in Requests |-> Registry!Idle]
  BY IdleAsks DEF Init, Calls
<1> QED
  BY <1>1 DEF Init, Registry!Init, Registry!NoProject, NoProject, Calls

\* A step that answers 409.
LEMMA RefusalMaps ==
  ASSUME TypeOK, NEW r \in Requests, NEW p, NEW row, Conflict(r, p, row),
         NameExists(p, row.name, row.organizationId), UNCHANGED projects
  PROVE  Registry!Refuse(r, p, row.name, row.organizationId)
<1> DEFINE s == [pc |-> "conflict", id |-> p, row |-> row]
<1>1. Goto(r, s)
  BY DEF Conflict
<1>2. Asked(s) = Registry!Call("refused", p, row.name, row.organizationId)
  <2>1. s.pc = "conflict" /\ s.id = p /\ s.row = row
    OBVIOUS
  <2> HIDE DEF s
  <2> QED
    BY <2>1, AskedSort
<1> HIDE DEF s
<1>3. Calls' = [Calls EXCEPT ![r] = Registry!Call("refused", p, row.name, row.organizationId)]
  BY <1>1, <1>2, CallMoves
<1> QED
  BY <1>3, TakenIsExists DEF Registry!Refuse, Calls

\* create()
LEMMA CreateMaps ==
  ASSUME ProjectsInv, NEW r \in Requests, NEW actor \in Actors, NEW name \in Names,
         Create(r, actor, name)
  PROVE  Registry!Next
<1> DEFINE row == NewRow(actor, name)
           s   == [pc |-> "insert", row |-> row]
           o   == actor.organizationId
<1>1. /\ TypeOK
      /\ UNCHANGED projects
      /\ request[r] = Idle
      /\ o \in Organizations
      /\ row.name = name
      /\ row.organizationId = o
  BY ActorsAssumption DEF ProjectsInv, Create, NewRow, Actor
<1>2. CASE NameExists(Undefined, name, o)
  <2>1. Conflict(r, Undefined, row)
    BY <1>2 DEF Create
  <2> HIDE DEF row
  <2>2. Registry!Refuse(r, Undefined, name, o)
    BY <1>1, <1>2, <2>1, RefusalMaps
  <2>3. Calls[r] = Registry!Idle
    BY <1>1, IdleAsks DEF Calls
  <2>4. Registry!RefuseAtOnce(r, name, o)
    BY <2>2, <2>3 DEF Registry!RefuseAtOnce, Calls
  <2> QED
    BY <1>1, <2>4 DEF Registry!Next
<1>3. CASE ~NameExists(Undefined, name, o)
  <2>1. Goto(r, s)
    BY <1>3 DEF Create
  <2>2. s.pc = "insert" /\ s.row = row
    OBVIOUS
  <2> HIDE DEF s, row
  <2>3. Asked(s) = Registry!Call("register", Undefined, name, o)
    BY <1>1, <2>2, AskedSort
  <2>4. /\ Calls[r] = Registry!Idle
        /\ Calls' = [Calls EXCEPT ![r] = Registry!Call("register", Undefined, name, o)]
    BY <1>1, <2>1, <2>3, IdleAsks, CallMoves
  <2>5. Registry!AskNew(r, name, o)
    BY <1>1, <2>4 DEF Registry!AskNew, Registry!Ask, Calls
  <2> QED
    BY <1>1, <2>5 DEF Registry!Next
<1> QED
  BY <1>2, <1>3

LEMMA InsertMaps ==
  ASSUME ProjectsInv, NEW r \in Requests, NEW p \in ProjectIds, Insert(r, p)
  PROVE  Registry!Next
<1> DEFINE row == request[r].row
<1>1. /\ TypeOK
      /\ request[r].pc = "insert"
      /\ projects[p] = NoProject
      /\ row \in Project
      /\ ~row.deleted
  BY RequestSort DEF ProjectsInv, Insert, Creating, Sound
<1>2. Calls[r] = Registry!Call("register", Undefined, row.name, row.organizationId)
  BY <1>1, AskedSort DEF Calls
<1>3. CASE UniqueViolation(p, row)
  <2>1. Conflict(r, Undefined, row) /\ UNCHANGED projects
    BY <1>3 DEF Insert
  <2>2. NameExists(Undefined, row.name, row.organizationId)
    BY <1>3, UndefinedAssumption DEF UniqueViolation, NameExists
  <2>3. Registry!Refuse(r, Undefined, row.name, row.organizationId)
    BY <1>1, <2>1, <2>2, RefusalMaps
  <2>4. Registry!RefuseNew(r)
    BY <1>2, <2>3, CallFields DEF Registry!RefuseNew, Calls
  <2> QED
    BY <2>4 DEF Registry!Next
<1>4. CASE ~UniqueViolation(p, row)
  <2>1. Goto(r, Idle) /\ projects' = [projects EXCEPT ![p] = row]
    BY <1>4 DEF Insert
  <2>2. Calls' = [Calls EXCEPT ![r] = Registry!Idle]
    BY <1>1, <2>1, IdleAsks, CallMoves
  <2>3. row = Registry!Entry(row.name, row.organizationId, FALSE)
    BY <1>1 DEF Project, Registry!Entry
  <2>4. ~Registry!Taken(p, row.name, row.organizationId)
    BY <1>1, <1>4, TakenIsExists DEF UniqueViolation
  <2>5. Registry!Write(r, p, Registry!Entry(row.name, row.organizationId, FALSE))
    BY <2>1, <2>2, <2>3 DEF Registry!Write, Calls
  <2>6. Registry!Register(r, p)
    <3>1. /\ Calls[r].op = "register"
          /\ Calls[r].name = row.name
          /\ Calls[r].organizationId = row.organizationId
      BY <1>2, CallFields
    <3>2. projects[p] = Registry!NoProject
      BY <1>1 DEF Registry!NoProject, NoProject
    <3> QED
      BY <2>4, <2>5, <3>1, <3>2 DEF Registry!Register, Calls
  <2> QED
    BY <2>6 DEF Registry!Next
<1> QED
  BY <1>3, <1>4

\* The beginnings of update() and of softDelete().
LEMMA AskMaps ==
  ASSUME ProjectsInv, NEW r \in Requests, NEW actor \in Actors, NEW p \in ProjectIds,
         \/ \E name \in OptionalName : Update(r, actor, p, name)
         \/ Delete(r, actor, p)
  PROVE  Registry!Next
<1>1. /\ TypeOK
      /\ UNCHANGED projects
      /\ request[r] = Idle
      /\ ~projects[p].deleted
      /\ projects[p].organizationId = actor.organizationId
  BY DEF ProjectsInv, Update, Delete, Finds
<1>2. Calls[r] = Registry!Idle
  BY <1>1, IdleAsks DEF Calls
<1>3. ASSUME NEW name \in OptionalName, Update(r, actor, p, name)
      PROVE  Registry!Next
  <2> DEFINE pc == IF name \in {Undefined, projects[p].name} THEN "save" ELSE "exists"
             s  == [pc |-> pc, id |-> p, project |-> projects[p], name |-> name]
  <2>1. Goto(r, s)
    BY <1>3 DEF Update
  <2>2. /\ s.pc \in {"exists", "save"}
        /\ s.id = p
        /\ s.name = name
        /\ s.project.organizationId = projects[p].organizationId
    OBVIOUS
  <2> HIDE DEF s
  <2>3. Asked(s) = Registry!Call("rename", p, name, projects[p].organizationId)
    BY <2>2, AskedSort
  <2>4. Calls' = [Calls EXCEPT ![r] =
                    Registry!Call("rename", p, name, projects[p].organizationId)]
    BY <1>1, <2>1, <2>3, CallMoves
  <2>5. Registry!AskChange(r, "rename", p, name)
    BY <1>1, <1>2, <2>4 DEF Registry!AskChange, Registry!Ask, Calls
  <2> QED
    BY <2>5 DEF Registry!Next, OptionalName
<1>4. ASSUME Delete(r, actor, p)
      PROVE  Registry!Next
  <2> DEFINE s == [pc |-> "softDelete", id |-> p,
                   organizationId |-> actor.organizationId]
  <2>1. Goto(r, s)
    BY <1>4 DEF Delete
  <2>2. /\ s.pc = "softDelete"
        /\ s.id = p
        /\ s.organizationId = projects[p].organizationId
    BY <1>1
  <2> HIDE DEF s
  <2>3. Asked(s) = Registry!Call("retire", p, Undefined, projects[p].organizationId)
    BY <2>2, AskedSort
  <2>4. Calls' = [Calls EXCEPT ![r] =
                    Registry!Call("retire", p, Undefined, projects[p].organizationId)]
    BY <1>1, <2>1, <2>3, CallMoves
  <2>5. Registry!AskChange(r, "retire", p, Undefined)
    BY <1>1, <1>2, <2>4 DEF Registry!AskChange, Registry!Ask, Calls
  <2> QED
    BY <2>5 DEF Registry!Next
<1> QED
  BY <1>3, <1>4

\* update() goes on: its lookup shows the caller nothing, or the 409.
LEMMA ExistsMaps ==
  ASSUME ProjectsInv, NEW r \in Requests, Exists(r)
  PROVE  [Registry!Next]_(Registry!vars)
<1> DEFINE p   == request[r].id
           row == RenamedTo(request[r].project, request[r].name)
           s   == [request[r] EXCEPT !.pc = "save"]
<1>1. /\ TypeOK
      /\ UNCHANGED projects
      /\ request[r].pc = "exists"
      /\ request[r] \in Updating
      /\ request[r].name \in Names
      /\ request[r].name # Undefined
      /\ request[r].project \in Project
      /\ projects[p].organizationId = request[r].project.organizationId
  BY RequestSort DEF ProjectsInv, Exists, Updating, Sound, OptionalName
<1>2. Calls[r] = Registry!Call("rename", p, request[r].name, projects[p].organizationId)
  BY <1>1, AskedSort DEF Calls
<1>3. p \in ProjectIds
  BY <1>1 DEF Updating
<1>4. CASE NameExists(p, row.name, row.organizationId)
  <2>1. Conflict(r, p, row)
    BY <1>4 DEF Exists
  <2>2. row.name = request[r].name /\ row.organizationId = projects[p].organizationId
    BY <1>1, RenamedFields
  <2> HIDE DEF row
  <2>3. Registry!Refuse(r, p, request[r].name, projects[p].organizationId)
    BY <1>1, <1>4, <2>1, <2>2, RefusalMaps
  <2>4. Registry!RefuseChange(r)
    <3>1. /\ Calls[r].op = "rename"
          /\ Calls[r].id = p
          /\ Calls[r].name = request[r].name
      BY <1>2, CallFields
    <3>2. Registry!NameAfter(p, request[r].name) = request[r].name
      BY <1>1 DEF Registry!NameAfter
    <3> QED
      BY <2>3, <3>1, <3>2 DEF Registry!RefuseChange, Calls
  <2> QED
    BY <2>4 DEF Registry!Next
<1>5. CASE ~NameExists(p, row.name, row.organizationId)
  <2>1. Goto(r, s)
    BY <1>5 DEF Exists, Goto
  <2>2. /\ s.pc = "save"
        /\ s.id = p
        /\ s.name = request[r].name
        /\ s.project = request[r].project
    BY <1>1 DEF Updating
  <2> HIDE DEF s
  <2>3. Asked(s) = Asked(request[r])
    BY <1>1, <2>2, AskedSort
  <2>4. Calls' = Calls
    <3>1. Calls' = [Calls EXCEPT ![r] = Asked(s)] /\ Calls[r] = Asked(request[r])
      BY <1>1, <2>1, CallMoves, Zenon
    <3>2. Calls' = [Calls EXCEPT ![r] = Calls[r]]
      BY <2>3, <3>1
    <3> QED
      BY <3>2 DEF Calls
  <2> QED
    BY <1>1, <2>4 DEF Registry!vars, Calls
<1> QED
  BY <1>4, <1>5

LEMMA SaveMaps ==
  ASSUME ProjectsInv, NEW r \in Requests, Save(r)
  PROVE  Registry!Next
<1> DEFINE p    == request[r].id
           row  == SavedRow(projects[p], request[r].project, request[r].name)
           name == Registry!NameAfter(p, request[r].name)
           o    == projects[p].organizationId
<1>1. /\ TypeOK
      /\ request[r].pc = "save"
      /\ request[r] \in Updating
      /\ projects[p] # NoProject
      /\ o = request[r].project.organizationId
      /\ ~request[r].project.deleted
  BY RequestSort DEF ProjectsInv, Save, Sound
<1>2. /\ p \in ProjectIds
      /\ projects[p] \in Project
      /\ request[r].project \in Project
      /\ request[r].name \in OptionalName
  BY <1>1 DEF Updating, TypeOK
<1>3. name \in Names
  BY <1>2 DEF Registry!NameAfter, OptionalName, Project
<1>4. row = RenamedTo(request[r].project, name)
  BY DEF SavedRow, Registry!NameAfter
<1>5. /\ row \in Project
      /\ row.name = name
      /\ row.organizationId = o
      /\ ~row.deleted
  BY <1>1, <1>2, <1>3, <1>4, RenamedFields
<1> HIDE DEF name
<1>6. /\ Calls[r].op = "rename"
      /\ Calls[r].id = p
      /\ Calls[r].name = request[r].name
  BY <1>1, AskedSort, CallFields DEF Calls
<1>7. CASE UniqueViolation(p, row)
  <2>1. Conflict(r, p, row) /\ UNCHANGED projects
    BY <1>7 DEF Save
  <2>2. NameExists(p, row.name, row.organizationId)
    BY <1>7 DEF UniqueViolation
  <2> HIDE DEF row
  <2>3. Registry!Refuse(r, p, name, o)
    BY <1>1, <1>5, <2>1, <2>2, RefusalMaps
  <2>4. Registry!RefuseChange(r)
    BY <1>6, <2>3 DEF Registry!RefuseChange, Calls, name
  <2> QED
    BY <2>4 DEF Registry!Next
<1>8. CASE ~UniqueViolation(p, row)
  <2>1. Goto(r, Idle) /\ projects' = [projects EXCEPT ![p] = row]
    BY <1>8 DEF Save
  <2>2. ~Registry!Taken(p, name, o)
    BY <1>5, <1>8, TakenIsExists DEF UniqueViolation
  <2> HIDE DEF row
  <2>3. row = Registry!Entry(name, o, FALSE)
    BY <1>5 DEF Project, Registry!Entry
  <2>4. Calls' = [Calls EXCEPT ![r] = Registry!Idle]
    BY <1>1, <2>1, IdleAsks, CallMoves
  <2>5. Registry!Write(r, p, Registry!Entry(name, o, FALSE))
    BY <2>1, <2>3, <2>4 DEF Registry!Write, Calls
  <2>6. Registry!Rename(r)
    BY <1>6, <2>2, <2>5 DEF Registry!Rename, Calls, name
  <2> QED
    BY <2>6 DEF Registry!Next
<1> QED
  BY <1>7, <1>8

LEMMA RetiredEntry ==
  ASSUME NEW row \in Project
  PROVE  [row EXCEPT !.deleted = TRUE]
           = Registry!Entry(row.name, row.organizationId, TRUE)
<1> DEFINE a == [row EXCEPT !.deleted = TRUE]
<1>1. /\ a \in Project
      /\ a.name = row.name
      /\ a.organizationId = row.organizationId
      /\ a.deleted
  BY DEF Project
<1> HIDE DEF a
<1>2. a = [name |-> a.name, organizationId |-> a.organizationId, deleted |-> a.deleted]
  BY <1>1 DEF Project
<1>3. a.deleted = TRUE
  BY <1>1 DEF Project
<1> QED
  BY <1>1, <1>2, <1>3 DEF a, Registry!Entry

LEMMA SoftDeleteMaps ==
  ASSUME ProjectsInv, NEW r \in Requests, SoftDelete(r)
  PROVE  Registry!Next
<1> DEFINE p     == request[r].id
           entry == Registry!Entry(projects[p].name, projects[p].organizationId, TRUE)
<1>1. /\ TypeOK
      /\ request[r].pc = "softDelete"
      /\ p \in ProjectIds
      /\ projects[p] \in Project
      /\ projects[p].organizationId = request[r].organizationId
  BY RequestSort DEF ProjectsInv, SoftDelete, Deleting, Sound, TypeOK
<1>2. [projects[p] EXCEPT !.deleted = TRUE] = entry
  BY <1>1, RetiredEntry
<1>3. projects' = [projects EXCEPT ![p] = entry]
  BY <1>1, <1>2 DEF SoftDelete, TypeOK
<1>4. Calls' = [Calls EXCEPT ![r] = Registry!Idle]
  BY <1>1, IdleAsks, CallMoves DEF SoftDelete
<1>5. Calls[r].op = "retire" /\ Calls[r].id = p
  BY <1>1, AskedSort, CallFields DEF Calls
<1>6. Registry!Write(r, p, entry)
  BY <1>3, <1>4 DEF Registry!Write, Calls
<1>7. Registry!Retire(r)
  BY <1>5, <1>6 DEF Registry!Retire, Calls
<1> QED
  BY <1>7 DEF Registry!Next

\* The answer 409, and the end of the process.
LEMMA EndMaps ==
  ASSUME ProjectsInv, (\E r \in Requests : Respond(r)) \/ ProcessExit
  PROVE  Registry!Next
<1>1. ASSUME NEW r \in Requests, Respond(r)
      PROVE  Registry!Next
  <2>1. /\ TypeOK
        /\ UNCHANGED projects
        /\ request[r].pc = "conflict"
        /\ Goto(r, Idle)
    BY <1>1 DEF ProjectsInv, Respond
  <2>2. Calls[r].op = "refused" /\ Calls' = [Calls EXCEPT ![r] = Registry!Idle]
    BY <2>1, IdleAsks, AskedSort, CallFields, CallMoves
  <2>3. Registry!Answer(r)
    BY <2>1, <2>2 DEF Registry!Answer, Calls
  <2> QED
    BY <2>3 DEF Registry!Next
<1>2. ASSUME ProcessExit
      PROVE  Registry!Next
  <2>1. UNCHANGED projects /\ Calls' = [r \in Requests |-> Registry!Idle]
    BY <1>2, IdleAsks DEF ProcessExit, Calls
  <2>2. Registry!Abandon
    BY <2>1 DEF Registry!Abandon, Calls
  <2> QED
    BY <2>2 DEF Registry!Next
<1> QED
  BY <1>1, <1>2

LEMMA StepMaps ==
  ASSUME ProjectsInv, [Next]_vars
  PROVE  [Registry!Next]_(Registry!vars)
<1>1. ASSUME NEW r \in Requests, ProjectsController(r)
      PROVE  Registry!Next
  BY <1>1, CreateMaps, AskMaps DEF ProjectsController
<1>2. ASSUME NEW r \in Requests, RequestStep(r)
      PROVE  [Registry!Next]_(Registry!vars)
  BY <1>2, InsertMaps, ExistsMaps, SaveMaps, SoftDeleteMaps, EndMaps DEF RequestStep
<1>3. CASE ProcessExit
  BY <1>3, EndMaps
<1>4. CASE UNCHANGED vars
  BY <1>4 DEF vars, Registry!vars
<1> QED
  BY <1>1, <1>2, <1>3, <1>4 DEF Next

\* The concurrent calls of projects.service.ts have the effect of single steps
\* on a register of names, and a 409 is what the register answers then.
THEOREM ProjectsKeepRegister == Spec => KeepsRegister
<1>1. ProjectsInv /\ [Next]_vars => [Registry!Next]_(Registry!vars)
  BY StepMaps
<1> QED
  BY <1>1, InitMaps, ProjectsInvariant, PTL DEF Spec, KeepsRegister, Registry!Spec

-----------------------------------------------------------------------------
(***************************************************************************)
(* Pages.                                                                  *)
(***************************************************************************)

LEMMA Quotient ==
  ASSUME NEW a \in Nat, NEW b \in Nat \ {0}
  PROVE  /\ a \div b \in Nat
         /\ (a \div b) * b <= a
         /\ a < (a \div b) * b + b
OBVIOUS

LEMMA Multiples ==
  ASSUME NEW b \in Nat \ {0}, NEW j \in Nat, NEW k \in Nat, j <= k
  PROVE  /\ j * b \in Nat /\ k * b \in Nat
         /\ j * b <= k * b
OBVIOUS

\* Page k begins behind k - 1 full pages.
LEMMA SkipType ==
  ASSUME NEW k \in Nat \ {0}, NEW size \in Nat \ {0}
  PROVE  Skip(k, size) \in Nat
<1>1. (k - 1) * size \in Nat
  BY Multiples
<1> QED
  BY <1>1 DEF Skip

\* A row is on one page,
LEMMA RowHasPage ==
  ASSUME NEW i \in Nat \ {0}, NEW size \in Nat \ {0}
  PROVE  \E k \in Nat \ {0} : i \in (Skip(k, size) + 1)..(Skip(k, size) + size)
<1> DEFINE q == (i - 1) \div size
<1>1. /\ q \in Nat
      /\ q * size <= i - 1
      /\ i - 1 < q * size + size
  BY Quotient
<1> HIDE DEF q
<1>2. q + 1 \in Nat \ {0} /\ Skip(q + 1, size) = q * size /\ q * size \in Nat
  BY <1>1, Multiples DEF Skip
<1>3. i \in (Skip(q + 1, size) + 1)..(Skip(q + 1, size) + size)
  BY <1>1, <1>2
<1> QED
  BY <1>2, <1>3

\* and on no other.
LEMMA RowHasOnePage ==
  ASSUME NEW i \in Nat \ {0}, NEW size \in Nat \ {0},
         NEW j \in Nat \ {0}, NEW k \in Nat \ {0},
         i \in (Skip(j, size) + 1)..(Skip(j, size) + size),
         i \in (Skip(k, size) + 1)..(Skip(k, size) + size)
  PROVE  j = k
<1>1. ASSUME NEW x \in Nat \ {0}, NEW y \in Nat \ {0}, x < y,
             i <= Skip(x, size) + size, Skip(y, size) + 1 <= i
      PROVE  FALSE
  <2>1. x * size <= (y - 1) * size /\ x * size \in Nat /\ (y - 1) * size \in Nat
    BY <1>1, Multiples
  <2>2. Skip(x, size) + size = x * size
    BY DEF Skip
  <2>3. Skip(y, size) = (y - 1) * size
    BY DEF Skip
  <2> QED
    BY <1>1, <2>1, <2>2, <2>3
<1>2. ~(j < k)
  BY <1>1, SkipType
<1>3. ~(k < j)
  BY <1>1, SkipType
<1> QED
  BY <1>2, <1>3

\* The page of the last row is the last page.
LEMMA PagesReachTotal ==
  ASSUME NEW total \in Nat, NEW size \in Nat \ {0}, NEW k \in Nat \ {0}
  PROVE  k \in 1..TotalPages(total, size) <=> Skip(k, size) < total
<1> DEFINE n == (total + size - 1) \div size
<1>1. /\ n \in Nat
      /\ n * size <= total + size - 1
      /\ total + size - 1 < n * size + size
  BY Quotient
<1> HIDE DEF n
<1>2. k \in 1..TotalPages(total, size) <=> k <= n
  BY <1>1 DEF TotalPages, n
<1>3. ASSUME k <= n
      PROVE  Skip(k, size) < total
  <2>1. (k - 1) * size <= (n - 1) * size /\ (k - 1) * size \in Nat
    BY <1>1, <1>3, Multiples
  <2>2. (n - 1) * size = n * size - size /\ n * size \in Nat
    BY <1>1, Multiples
  <2> QED
    BY <1>1, <2>1, <2>2 DEF Skip
<1>4. ASSUME n < k
      PROVE  ~(Skip(k, size) < total)
  <2>1. n * size <= (k - 1) * size /\ (k - 1) * size \in Nat /\ n * size \in Nat
    BY <1>1, <1>4, Multiples
  <2> QED
    BY <1>1, <2>1 DEF Skip
<1> QED
  BY <1>1, <1>2, <1>3, <1>4

LEMMA PagesHold == PagesShowEachOnce
<1> SUFFICES ASSUME NEW o \in Organizations, NEW size \in PageSizes,
                    NEW order \in Orders(Listed(o))
             PROVE  LET pages == 1..TotalPages(Cardinality(Listed(o)), size)
                    IN  /\ \A p \in Listed(o) :
                             \E k \in pages : \A j \in pages :
                               p \in Items(order, j, size) <=> j = k
                        /\ \A k \in pages : Items(order, k, size) # {}
  BY DEF PagesShowEachOnce
<1> DEFINE total == Cardinality(Listed(o))
           pages == 1..TotalPages(total, size)
<1>1. total \in Nat
  <2>1. Listed(o) \in SUBSET ProjectIds
    BY DEF Listed
  <2> QED
    BY <2>1, FiniteAssumption, FS_Subset, FS_CardinalityType
<1>2. size \in Nat \ {0}
  BY PagesAssumption
<1>3. /\ order \in [1..total -> Listed(o)]
      /\ \A i, j \in 1..total : order[i] = order[j] => i = j
      /\ \A p \in Listed(o) : \E i \in 1..total : order[i] = p
  BY DEF Orders
<1> HIDE DEF total
<1>4. ASSUME NEW p \in Listed(o)
      PROVE  \E k \in pages : \A j \in pages : p \in Items(order, j, size) <=> j = k
  <2>1. PICK i \in 1..total : order[i] = p
    BY <1>3
  <2>2. i \in Nat \ {0} /\ i <= total
    BY <1>1, <2>1
  <2>3. PICK k \in Nat \ {0} : i \in (Skip(k, size) + 1)..(Skip(k, size) + size)
    BY <1>2, <2>2, RowHasPage
  <2>4. Skip(k, size) < total
    BY <1>1, <1>2, <2>2, <2>3, SkipType
  <2>5. k \in pages
    BY <1>1, <1>2, <2>4, PagesReachTotal
  <2>6. ASSUME NEW j \in pages
        PROVE  p \in Items(order, j, size) <=> j = k
    <3>1. j \in Nat \ {0}
      BY <1>1, <1>2, Quotient DEF TotalPages
    <3>2. p \in Items(order, j, size) <=> i \in (Skip(j, size) + 1)..(Skip(j, size) + size)
      BY <1>3, <2>1 DEF Items
    <3> QED
      BY <1>2, <2>2, <2>3, <3>1, <3>2, RowHasOnePage
  <2> QED
    BY <2>5, <2>6
<1>5. ASSUME NEW k \in pages
      PROVE  Items(order, k, size) # {}
  <2>1. k \in Nat \ {0}
    BY <1>1, <1>2, Quotient DEF TotalPages
  <2>2. Skip(k, size) \in Nat /\ Skip(k, size) < total
    BY <1>1, <1>2, <1>5, <2>1, SkipType, PagesReachTotal
  <2>3. /\ Skip(k, size) + 1 \in (Skip(k, size) + 1)..(Skip(k, size) + size)
        /\ Skip(k, size) + 1 \in 1..total
    BY <1>1, <1>2, <2>2
  <2>4. order[Skip(k, size) + 1] \in Items(order, k, size)
    BY <1>3, <2>3 DEF Items
  <2> QED
    BY <2>4
<1> QED
  BY <1>4, <1>5 DEF total

\* The pages of a list, for every number of projects and every page size, show
\* each live project of the organization once and are never empty.
THEOREM PagesPartition == Spec => []PagesShowEachOnce
BY PagesHold, PTL
=============================================================================
