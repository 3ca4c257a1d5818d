--------------------------- MODULE ReportPromise ---------------------------
(***************************************************************************)
(* What POST /reports/tasks promises to its requester, without a queue, a    *)
(* worker or a process in sight: an accepted job is announced at most twice,  *)
(* never again once it has completed or failed, always as what it ended as,   *)
(* and it does not end before a requester who stayed in the room has been     *)
(* told.  Reports implements it (KeepsPromise there); whom a report may count *)
(* is a property of its own there (ReportsStayInScope).                      *)
(***************************************************************************)
EXTENDS Naturals

CONSTANTS
  Users,
  JobIds,
  Nobody     \* who has requested a job that was never accepted

VARIABLES
  requester,  \* requester[j]: who has asked for j
  fate,       \* fate[j]: what has become of j
  lastEvent,  \* lastEvent[j]: the last announcement about j
  announced,  \* announced[j]: how many there were
  listening,  \* listening[j]: the requester is in the room since the POST, not yet told
  room        \* the users who hear what is sent to them

vars == <<requester, fate, lastEvent, announced, listening, room>>

Init ==
  /\ requester = [j \in JobIds |-> Nobody]
  /\ fate = [j \in JobIds |-> "none"]
  /\ lastEvent = [j \in JobIds |-> "none"]
  /\ announced = [j \in JobIds |-> 0]
  /\ listening = [j \in JobIds |-> FALSE]
  /\ room = {}

Accept(j, u) ==
  /\ fate[j] = "none"
  /\ fate' = [fate EXCEPT ![j] = "pending"]
  /\ requester' = [requester EXCEPT ![j] = u]
  /\ listening' = [listening EXCEPT ![j] = u \in room]
  /\ UNCHANGED <<lastEvent, announced, room>>

\* A run of the job that a second stall has overtaken may still speak.
Announce(j, event) ==
  /\ fate[j] \in {"pending", "stalled"}
  /\ announced[j] < 2
  /\ announced' = [announced EXCEPT ![j] = announced[j] + 1]
  /\ lastEvent' = [lastEvent EXCEPT ![j] = event]
  /\ listening' = [listening EXCEPT ![j] = listening[j] /\ requester[j] \notin room]
  /\ UNCHANGED <<requester, fate, room>>

\* The events are the only trace of a result: nobody may still wait for one.
End(j, outcome) ==
  /\ fate[j] = "pending"
  /\ ~listening[j]
  /\ outcome = "completed" => lastEvent[j] = "done"
  /\ outcome = "failed" => lastEvent[j] = "failed"
  /\ fate' = [fate EXCEPT ![j] = outcome]
  /\ UNCHANGED <<requester, lastEvent, announced, listening, room>>

Enter(u) ==
  /\ room' = room \cup {u}
  /\ UNCHANGED <<requester, fate, lastEvent, announced, listening>>

\* One user's socket closes, or all do.
Leave(us) ==
  /\ room' = room \ us
  /\ listening' = [j \in JobIds |-> listening[j] /\ requester[j] \notin us]
  /\ UNCHANGED <<requester, fate, lastEvent, announced>>

Next ==
  \/ \E j \in JobIds :
       \/ \E u \in Users : Accept(j, u)
       \/ \E event \in {"done", "failed"} : Announce(j, event)
       \/ \E outcome \in {"completed", "failed", "stalled"} : End(j, outcome)
  \/ \E u \in Users : Enter(u)
  \/ \E us \in SUBSET Users : Leave(us)

Spec == Init /\ [][Next]_vars
=============================================================================
