SPECIFICATION FairSpec
CONSTANTS
  Undefined = Undefined
  Organizations <- MCOrganizations
  Users <- MCUsers
  Account <- MCAccount
  TaskIds <- MCTasks
  InitialAssignee <- MCAssignee
  JobIds <- MCJobs
  Requests <- MCRequests
  Clients <- MCClients
  MaxFaults = 2
  MaxDeletions = 1
INVARIANTS TypeOK ReportsStayInScope EndMatchesLastEvent ListenersHear
PROPERTIES JobsEnd KeepsPromise
