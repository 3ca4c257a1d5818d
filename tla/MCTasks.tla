------------------------------- MODULE MCTasks -------------------------------
(***************************************************************************)
(* Instances of Tasks for TLC: an organization with an owner and an         *)
(* employee, a foreign owner, a project of each organization.                *)
(***************************************************************************)
EXTENDS Tasks

CONSTANTS q1, q2, t1

MCOrganizations == {"org1", "org2"}
MCUsers    == {"owner1", "emp1", "owner2"}
MCAccount  == [owner1 |-> [role |-> "owner", organizationId |-> "org1"],
               emp1   |-> [role |-> "employee", organizationId |-> "org1"],
               owner2 |-> [role |-> "owner", organizationId |-> "org2"]]
MCProjects   == {"p1", "p2"}
MCProjectOrg == [p1 |-> "org1", p2 |-> "org2"]
MCPriority   == {"low", "high"}

NewTask(projectId, assigneeId, status, priority, dueDate) ==
  [projectId |-> projectId, assigneeId |-> assigneeId, status |-> status,
   priority |-> priority, dueDate |-> dueDate]

Change(assigneeId, status, priority, dueDate) ==
  [assigneeId |-> assigneeId, status |-> status, priority |-> priority,
   dueDate |-> dueDate]

\* Every kind of body: own and foreign project, own, other and foreign
\* assignee, a forbidden status, a priority.
MCCreateDtos ==
  {NewTask("p1", Undefined, Undefined, Undefined, 0),
   NewTask("p1", "emp1", "in_progress", Undefined, 0),
   NewTask("p1", "owner2", Undefined, "high", 1),
   NewTask("p2", "emp1", "overdue", Undefined, 0)}

MCUpdateDtos ==
  {Change(Undefined, "done", Undefined, Undefined),
   Change(Undefined, "overdue", Undefined, Undefined),
   Change(Undefined, "todo", Undefined, 1),
   Change("owner1", Undefined, "high", Undefined),
   Change("owner2", Undefined, Undefined, Undefined)}

FewCreateDtos == {NewTask("p1", "emp1", Undefined, Undefined, 0),
                  NewTask("p1", Undefined, "in_progress", Undefined, 1)}
FewUpdateDtos == {Change(Undefined, "done", Undefined, Undefined),
                  Change(Undefined, "in_progress", Undefined, 1)}

TwoRequests == {q1, q2}
OneTask     == {t1}
=============================================================================
