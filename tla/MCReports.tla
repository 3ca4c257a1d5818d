----------------------------- MODULE MCReports -----------------------------
(***************************************************************************)
(* An instance of Reports for TLC: an organization with an owner, a manager  *)
(* and an employee, each with a task or without, and an employee of another. *)
(***************************************************************************)
EXTENDS Reports

MCOrganizations == {"org1", "org2"}
MCStaff   == {"owner", "manager", "employee"}
MCUsers   == MCStaff \cup {"stranger"}
MCAccount == [u \in MCUsers |->
  [role           |-> IF u = "stranger" THEN "employee" ELSE u,
   organizationId |-> IF u = "stranger" THEN "org2" ELSE "org1"]]
MCTasks   == {"t1", "t2"}
MCAssignee == [t1 |-> "owner", t2 |-> "stranger"]
MCJobs     == {1}
MCClients  == {"manager"}
MCRequests == {"q1"}
=============================================================================
