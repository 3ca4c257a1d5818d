SPECIFICATION Spec
CONSTANTS
  Undefined = Undefined
  p1 = p1
  p2 = p2
  p3 = p3
  q1 = q1
  q2 = q2
  q3 = q3
  n1 = n1
  n2 = n2
  Organizations <- MCOrganizations
  Actors <- MCActors
  ProjectIds <- MCProjectIds
  Names <- MCNames
  PageSizes <- MCPageSizes
  Requests <- MCRequests
SYMMETRY Symmetry
INVARIANTS TypeOK LiveNamesDiffer PagesShowEachOnce
PROPERTIES RenamedOnlyOnDemand KeepsRegister
