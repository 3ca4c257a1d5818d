SPECIFICATION Spec
CONSTANTS
  Undefined = Undefined
  r1 = r1
  r2 = r2
  w1 = w1
  w2 = w2
  Organizations <- TwoOrganizations
  Users <- MCUsers
  Actors <- ThreeActors
  Queries <- FourQueries
  Readers <- OneReader
  Writers <- OneWriter
  MaxCommits = 0
  MaxFaults = 1
  MaxCrashes = 0
INVARIANTS ServedMatchesRequest
