-------------------------- MODULE MCTasksListCache --------------------------
(***************************************************************************)
(* Instances of TasksListCache for TLC.                                     *)
(***************************************************************************)
EXTENDS TasksListCache, TLC

CONSTANTS r1, r2, w1, w2

Payload(sub, role, o) == [sub |-> sub, role |-> role, organizationId |-> o]

Owner    == Payload("owner1", "owner", "org1")
Employee == Payload("emp1", "employee", "org1")
Stranger == Payload("owner2", "owner", "org2")

MCUsers == {"owner1", "emp1", "owner2"}

ListQuery(page, status, assigneeId) ==
  [page |-> page, status |-> status, priority |-> Undefined,
   assigneeId |-> assigneeId]

AllTasks == ListQuery(1, Undefined, Undefined)

\* One organization, one query: the interleavings of fills and bumps.
OneOrganization == {"org1"}
OneActor        == {Owner}
OneQuery        == {AllTasks}

\* Two organizations, staff and an employee, queries that differ in one field.
TwoOrganizations == {"org1", "org2"}
ThreeActors      == {Owner, Employee, Stranger}
FourQueries      == {AllTasks, ListQuery(2, Undefined, Undefined),
                     ListQuery(1, "done", Undefined),
                     ListQuery(1, Undefined, "emp1")}

TwoReaders == {r1, r2}
TwoWriters == {w1, w2}
OneReader  == {r1}
OneWriter  == {w1}

Symmetry == Permutations(TwoReaders) \cup Permutations(TwoWriters)
=============================================================================
