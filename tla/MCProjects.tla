----------------------------- MODULE MCProjects -----------------------------
(***************************************************************************)
(* Instances of Projects for TLC: staff and an employee of one organization, *)
(* and a foreign owner.                                                    *)
(***************************************************************************)
EXTENDS Projects, TLC

CONSTANTS p1, p2, p3, q1, q2, q3, n1, n2

Payload(role, o) == [role |-> role, organizationId |-> o]

MCOrganizations == {"org1", "org2"}
MCActors        == {Payload("manager", "org1"), Payload("employee", "org1"),
                    Payload("owner", "org2")}
MCProjectIds    == {p1, p2, p3}
MCNames         == {n1, n2}
MCPageSizes     == 1..3
MCRequests      == {q1, q2, q3}

Symmetry == Permutations(MCProjectIds) \cup Permutations(MCRequests)
              \cup Permutations(MCNames)
=============================================================================
