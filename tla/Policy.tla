------------------------------- MODULE Policy -------------------------------
(***************************************************************************)
(* The role tables and predicates of tasks.policy.ts, user.policy.ts and   *)
(* reports.policy.ts.  An actor is the access-token payload                 *)
(* [sub, role, organizationId]; the guards that throw ForbiddenException    *)
(* are written as predicates that are FALSE where the code throws.          *)
(*                                                                         *)
(* A field that is absent from a request body or a query is Undefined.      *)
(***************************************************************************)
EXTENDS Naturals

CONSTANT Undefined

UserRole   == {"owner", "manager", "employee"}
TaskStatus == {"todo", "in_progress", "done", "overdue"}

\* RolesGuard behind the decorator of a route: @Auth() lets in whoever holds a
\* token, @Auth(roles) those whose token has one of the roles.
Auth(roles, actor) == roles = {} \/ actor.role \in roles

RolesThatReadOnlyOwnTasks == {"employee"}
CanAssignTaskToOthers     == {"owner", "manager"}
CanSetPriorityOnCreate    == {"owner", "manager"}
CanChangeAssigneeOnUpdate == {"owner", "manager"}
CanChangePriorityOnUpdate == {"owner", "manager"}

CanReadTask(actor, task) ==
  actor.role \in RolesThatReadOnlyOwnTasks => task.assigneeId = actor.sub

CanDeleteTask(actor, task) == CanReadTask(actor, task)

CanUpdateTask(actor, task, dto) ==
  /\ CanReadTask(actor, task)
  /\ dto.status # "overdue"
  /\ dto.assigneeId # Undefined => actor.role \in CanChangeAssigneeOnUpdate
  /\ dto.priority # Undefined => actor.role \in CanChangePriorityOnUpdate

\* normalizeCreateTaskInput: when it throws, and the assignee it computes.
CreateInputAllowed(actor, dto) ==
  /\ dto.status # "overdue"
  /\ actor.role \notin CanAssignTaskToOthers =>
       dto.assigneeId \in {Undefined, actor.sub}
  /\ dto.priority # Undefined => actor.role \in CanSetPriorityOnCreate

NormalizedAssignee(actor, dto) ==
  IF actor.role \in CanAssignTaskToOthers /\ dto.assigneeId # Undefined
    THEN dto.assigneeId
    ELSE actor.sub

\* Both user tables hold the same sets: who may create, and who may delete, whom.
AllowedUserRoles ==
  [owner    |-> {"manager", "employee"},
   manager  |-> {"employee"},
   employee |-> {}]

AllowedToDeleteUser(actor, user) ==
  /\ user.sub # actor.sub
  /\ user.role \in AllowedUserRoles[actor.role]
=============================================================================
