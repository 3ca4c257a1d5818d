SPECIFICATION Spec
CONSTANTS
  Undefined = Undefined
  r1 = r1
  r2 = r2
  w1 = w1
  w2 = w2
  Organizations <- OneOrganization
  Users <- MCUsers
  Actors <- OneActor
  Queries <- OneQuery
  Readers <- TwoReaders
  Writers <- OneWriter
  MaxCommits = 2
  MaxFaults = 2
  MaxCrashes = 0
INVARIANTS FailedReadIsFresh
