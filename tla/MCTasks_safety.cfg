SPECIFICATION FairSpec
CONSTANTS
  Undefined = Undefined
  q1 = q1
  q2 = q2
  t1 = t1
  Organizations <- MCOrganizations
  Users <- MCUsers
  Account <- MCAccount
  Projects <- MCProjects
  ProjectOrg <- MCProjectOrg
  TaskPriority <- MCPriority
  TaskIds <- OneTask
  Requests <- TwoRequests
  CreateDtos <- MCCreateDtos
  UpdateDtos <- MCUpdateDtos
  MaxNow = 1
  MaxDeletions = 1
INVARIANTS TypeOK TenantConsistent
PROPERTIES OverdueOnlyWhenPastDue ReassignedOnlyByStaff ChangedOnlyByTenant RestoredOnlyByOldUpdate PastDueIsHandled
