SPECIFICATION Spec
CONSTANTS
  Undefined = Undefined
  u1 = u1
  u2 = u2
  o1 = o1
  o2 = o2
  q1 = q1
  q2 = q2
  UserIds <- TwoUsers
  OrgIds <- TwoOrgs
  Emails <- MCEmails
  Names <- MCNames
  TokenIds <- MCTokenIds
  AccessIds <- MCAccessIds
  Requests <- TwoRequests
  MaxFaults = 0
INVARIANTS ConflictsAnswered409
