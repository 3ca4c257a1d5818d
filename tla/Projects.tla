------------------------------ MODULE Projects ------------------------------
(***************************************************************************)
(* The rows of the table projects under concurrent create(), update() and   *)
(* softDelete() of projects.service.ts.  Each asks the database first and    *)
(* writes in a call of its own; what decides on names in the end is the      *)
(* unique index over the live projects of an organization, whose violation   *)
(* is answered with 409 as the lookups before it are.                       *)
(*                                                                         *)
(* A 403 or 404 changes nothing and is a guard.  A body with a null name     *)
(* passes IsOptional and fails at the NOT NULL column: an answer 500 without *)
(* effect, left out.                                                       *)
(***************************************************************************)
EXTENDS Policy, FiniteSets

CONSTANTS
  Organizations,
  Actors,      \* the access-token payloads of the callers
  ProjectIds,  \* bound: the projects that can be created
  Names,
  PageSizes,   \* the values of itemsPerPage
  Requests     \* concurrent requests to the project endpoints

Actor == [role : UserRole, organizationId : Organizations]

ASSUME ActorsAssumption    == Actors \subseteq Actor
ASSUME FiniteAssumption    == IsFiniteSet(ProjectIds)
ASSUME PagesAssumption     == PageSizes \subseteq Nat \ {0}
ASSUME UndefinedAssumption == Undefined \notin Names \cup ProjectIds

VARIABLES
  projects,  \* projects[p]: the row of p, or NoProject
  request    \* the requests under way

vars == <<projects, request>>

NoProject == [deleted |-> TRUE]

Project == [name : Names, organizationId : Organizations, deleted : BOOLEAN]

OptionalName == Names \cup {Undefined}

Idle == [pc |-> "idle"]

\* The requests under way, by handler and by what they wait for.
Creating == [pc : {"insert"}, row : Project]

Updating == [pc : {"exists", "save"}, id : ProjectIds, project : Project,
             name : OptionalName]

Deleting == [pc : {"softDelete"}, id : ProjectIds, organizationId : Organizations]

\* An answer 409, with the row that was not written: that of id, or of none yet.
Conflicting == [pc : {"conflict"}, id : ProjectIds \cup {Undefined}, row : Project]

RequestState == {Idle} \cup Creating \cup Updating \cup Deleting \cup Conflicting

TypeOK ==
  /\ projects \in [ProjectIds -> Project \cup {NoProject}]
  /\ request \in [Requests -> RequestState]

Init ==
  /\ projects = [p \in ProjectIds |-> NoProject]
  /\ request = [r \in Requests |-> Idle]

Goto(r, s) == request' = [request EXCEPT ![r] = s]

Conflict(r, id, row) == Goto(r, [pc |-> "conflict", id |-> id, row |-> row])

-----------------------------------------------------------------------------
(***************************************************************************)
(* Lookups and the index.                                                  *)
(***************************************************************************)

\* Mutant: deleted projects are found too.
FindsDeletedToo(p, organizationId) ==
  projects[p] # NoProject /\ projects[p].organizationId = organizationId

\* getById(): {where: {id, organizationId, deletedAt: IsNull()}}
Finds(p, organizationId) ==
  /\ ~projects[p].deleted
  /\ projects[p].organizationId = organizationId

\* A live project other than id has the name, in that organization.
NameExists(id, name, organizationId) ==
  \E p \in ProjectIds \ {id} :
    Finds(p, organizationId) /\ projects[p].name = name

\* Mutant: no index; the lookups decide.
NoIndex(id, row) == FALSE

\* uq_projects_org_name_active, UNIQUE WHERE deleted_at IS NULL: whether it
\* keeps row from being written under id.
UniqueViolation(id, row) ==
  ~row.deleted /\ NameExists(id, row.name, row.organizationId)

-----------------------------------------------------------------------------
(***************************************************************************)
(* create()                                                                *)
(***************************************************************************)

NewRow(actor, name) ==
  [name |-> name, organizationId |-> actor.organizationId, deleted |-> FALSE]

Create(r, actor, name) ==
  /\ request[r] = Idle
  /\ IF NameExists(Undefined, name, actor.organizationId)
       THEN Conflict(r, Undefined, NewRow(actor, name))
       ELSE Goto(r, [pc |-> "insert", row |-> NewRow(actor, name)])
  /\ UNCHANGED projects

Insert(r, p) ==
  LET row == request[r].row
  IN  /\ request[r].pc = "insert"
      /\ projects[p] = NoProject
      /\ IF UniqueViolation(p, row)
           THEN Conflict(r, Undefined, row) /\ UNCHANGED projects
           ELSE projects' = [projects EXCEPT ![p] = row] /\ Goto(r, Idle)

-----------------------------------------------------------------------------
(***************************************************************************)
(* update()                                                                *)
(***************************************************************************)

\* The name is looked up when the body gives one that is new to the row found.
Update(r, actor, p, name) ==
  /\ request[r] = Idle
  /\ Finds(p, actor.organizationId)
  /\ Goto(r, [pc |-> IF name \in {Undefined, projects[p].name} THEN "save" ELSE "exists",
              id |-> p, project |-> projects[p], name |-> name])
  /\ UNCHANGED projects

RenamedTo(project, name) == [project EXCEPT !.name = name]

Exists(r) ==
  LET row == RenamedTo(request[r].project, request[r].name)
  IN  /\ request[r].pc = "exists"
      /\ IF NameExists(request[r].id, row.name, row.organizationId)
           THEN Conflict(r, request[r].id, row)
           ELSE request' = [request EXCEPT ![r].pc = "save"]
      /\ UNCHANGED projects

\* Mutant: a body without a name writes the name that was found.
SavedSnapshot(row, project, name) ==
  IF name = Undefined THEN project ELSE RenamedTo(project, name)

\* Mutant: the undefined of an absent name is written as well.
SpreadWritten(row, project, name) == RenamedTo(project, name)

\* save({...project, ...dto}): a name that the body leaves out is undefined in
\* the spread and not written.  Organization and deletedAt, null when the row
\* was found, come from the snapshot: a project deleted meanwhile is restored.
SavedRow(row, project, name) ==
  RenamedTo(project, IF name = Undefined THEN row.name ELSE name)

Save(r) ==
  LET p   == request[r].id
      row == SavedRow(projects[p], request[r].project, request[r].name)
  IN  /\ request[r].pc = "save"
      /\ IF UniqueViolation(p, row)
           THEN Conflict(r, p, row) /\ UNCHANGED projects
           ELSE projects' = [projects EXCEPT ![p] = row] /\ Goto(r, Idle)

-----------------------------------------------------------------------------
(***************************************************************************)
(* softDelete(), and the answer 409.                                       *)
(***************************************************************************)

Delete(r, actor, p) ==
  /\ request[r] = Idle
  /\ Finds(p, actor.organizationId)
  /\ Goto(r, [pc |-> "softDelete", id |-> p,
              organizationId |-> actor.organizationId])
  /\ UNCHANGED projects

\* UPDATE ... SET deleted_at WHERE id and organization_id.
SoftDelete(r) ==
  LET p == request[r].id
  IN  /\ request[r].pc = "softDelete"
      /\ projects' = IF projects[p].organizationId = request[r].organizationId
                       THEN [projects EXCEPT ![p].deleted = TRUE]
                       ELSE projects
      /\ Goto(r, Idle)

Respond(r) ==
  /\ request[r].pc = "conflict"
  /\ Goto(r, Idle)
  /\ UNCHANGED projects

\* The API process dies (main.ts exits on an uncaught error) with its calls.
ProcessExit ==
  /\ request' = [r \in Requests |-> Idle]
  /\ UNCHANGED projects

-----------------------------------------------------------------------------
(***************************************************************************)
(* list(): one page of the live projects, and how many pages there are.     *)
(***************************************************************************)

Listed(organizationId) == {p \in ProjectIds : Finds(p, organizationId)}

\* The results of ORDER BY created_at DESC; which one it is does not matter.
Orders(S) ==
  {order \in [1..Cardinality(S) -> S] :
     /\ \A i, j \in DOMAIN order : order[i] = order[j] => i = j
     /\ \A p \in S : \E i \in DOMAIN order : order[i] = p}

\* Mutant: pages are counted from 0.
SkipFromZero(currentPage, itemsPerPage) == currentPage * itemsPerPage

Skip(currentPage, itemsPerPage) == (currentPage - 1) * itemsPerPage

Items(order, currentPage, itemsPerPage) ==
  LET skip == Skip(currentPage, itemsPerPage)
  IN  {order[i] : i \in (skip + 1)..(skip + itemsPerPage) \cap DOMAIN order}

\* Math.ceil(total / itemsPerPage)
TotalPages(total, itemsPerPage) == (total + itemsPerPage - 1) \div itemsPerPage

-----------------------------------------------------------------------------
ProjectsController(r) ==
  \E actor \in Actors :
    /\ Auth({"owner", "manager"}, actor)
    /\ \/ \E name \in Names : Create(r, actor, name)
       \/ \E p \in ProjectIds, name \in OptionalName : Update(r, actor, p, name)
       \/ \E p \in ProjectIds : Delete(r, actor, p)

\* The steps of a handler after its first await.
RequestStep(r) ==
  \/ \E p \in ProjectIds : Insert(r, p)
  \/ Exists(r)
  \/ Save(r)
  \/ SoftDelete(r)
  \/ Respond(r)

Next ==
  \/ \E r \in Requests : ProjectsController(r) \/ RequestStep(r)
  \/ ProcessExit

Spec == Init /\ [][Next]_vars

-----------------------------------------------------------------------------
(***************************************************************************)
(* Properties.                                                             *)
(***************************************************************************)

\* Live projects of one organization have different names, although names are
\* looked up before they are written, a name is looked up only when it differs
\* from one read earlier, and an update may bring a deleted project back.
LiveNamesDiffer ==
  \A p \in ProjectIds :
    ~projects[p].deleted =>
      ~NameExists(p, projects[p].name, projects[p].organizationId)

\* Who reads the pages 1 to totalPages while nothing changes sees every live
\* project of its organization on exactly one of them, and no empty page.
PagesShowEachOnce ==
  \A o \in Organizations, size \in PageSizes :
    \A order \in Orders(Listed(o)) :
      LET pages == 1..TotalPages(Cardinality(Listed(o)), size)
      IN  /\ \A p \in Listed(o) :
               \E k \in pages : \A j \in pages : p \in Items(order, j, size) <=> j = k
          /\ \A k \in pages : Items(order, k, size) # {}

\* A project gets another name only by a request that asks for it: an update
\* without a name does not undo a renaming it did not see, and neither does the
\* return of a deleted project.
RenamedStep ==
  \A p \in ProjectIds :
    /\ projects[p] # NoProject
    /\ projects'[p].name # projects[p].name
    => \E r \in Requests :
         /\ request[r].pc = "save"
         /\ request[r].id = p
         /\ request[r].name = projects'[p].name

RenamedOnlyOnDemand == [][RenamedStep]_vars

\* What the caller of a request in state s has asked for.
Asked(s) ==
  LET Call(op, p, name, o) == [op |-> op, id |-> p, name |-> name, organizationId |-> o]
  IN  CASE s.pc = "idle" -> [op |-> "idle"]
        [] s.pc = "insert" ->
             Call("register", Undefined, s.row.name, s.row.organizationId)
        [] s.pc \in {"exists", "save"} ->
             Call("rename", s.id, s.name, s.project.organizationId)
        [] s.pc = "softDelete" ->
             Call("retire", s.id, Undefined, s.organizationId)
        [] s.pc = "conflict" ->
             Call("refused", s.id, s.row.name, s.row.organizationId)

Registry == INSTANCE ProjectRegistry WITH
  Callers  <- Requests,
  Nothing  <- Undefined,
  register <- projects,
  call     <- [r \in Requests |-> Asked(request[r])]

\* The calls of projects.service.ts, each of several database calls with others
\* in between and some on a row read earlier, have the effect of single steps on
\* a register of names, and a 409 is what that register would have answered.
KeepsRegister == Registry!Spec
=============================================================================
