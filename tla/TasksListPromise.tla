-------------------------- MODULE TasksListPromise --------------------------
(***************************************************************************)
(* What GET /tasks promises, without a cache in sight: a list is computed    *)
(* for the caller that asked, from a database that may be older than the      *)
(* present one but not older than the last bump applied before the request    *)
(* began.  TasksListCache, with its versions, keys and entries, implements it *)
(* (KeepsPromise there).                                                    *)
(*                                                                         *)
(* A view is the WHERE clause and the page that a caller's list is made of.  *)
(***************************************************************************)
EXTENDS Naturals

CONSTANTS
  Organizations,
  Views,     \* [where |-> [organizationId |-> o, ...], page |-> ...]
  Callers    \* concurrent list requests

VARIABLES
  commits,   \* commits[o]: the commits that touched tasks of o
  promised,  \* promised[o]: how many of them a request that begins now sees
  broken,    \* whether Redis has lost bumps, which ends every promise
  call       \* the list requests under way

vars == <<commits, promised, broken, call>>

Idle == [pc |-> "idle"]

Init ==
  /\ commits = [o \in Organizations |-> 0]
  /\ promised = [o \in Organizations |-> 0]
  /\ broken = FALSE
  /\ call = [c \in Callers |-> Idle]

\* A mutation, or the cron, commits.
Mutate(os) ==
  /\ commits' = [o \in Organizations |-> IF o \in os THEN commits[o] + 1 ELSE commits[o]]
  /\ UNCHANGED <<promised, broken, call>>

\* From a bump on every new request sees what has been committed.
Bump(o) ==
  /\ promised' = [promised EXCEPT ![o] = IF broken THEN @ ELSE commits[o]]
  /\ UNCHANGED <<commits, broken, call>>

\* The request notes what it was promised when it begins.
Ask(c, view) ==
  /\ call[c] = Idle
  /\ call' = [call EXCEPT ![c] =
       [pc |-> "asked", view |-> view,
        floor |-> promised[view.where.organizationId]]]
  /\ UNCHANGED <<commits, promised, broken>>

\* The version could not be read: no promise to this request.
Excuse(c) ==
  /\ call[c].pc = "asked"
  /\ call' = [call EXCEPT ![c].floor = 0]
  /\ UNCHANGED <<commits, promised, broken>>

Answer(c) ==
  LET view == call[c].view
  IN  /\ call[c].pc = "asked"
      /\ \E seq \in call[c].floor..commits[view.where.organizationId] :
           call' = [call EXCEPT ![c] =
             [pc |-> "answered",
              response |-> [where |-> view.where, page |-> view.page, seq |-> seq]]]
      /\ UNCHANGED <<commits, promised, broken>>

Return(c) ==
  /\ call[c].pc = "answered"
  /\ call' = [call EXCEPT ![c] = Idle]
  /\ UNCHANGED <<commits, promised, broken>>

\* The process dies with the requests under way.
Abandon ==
  /\ call' = [c \in Callers |-> Idle]
  /\ UNCHANGED <<commits, promised, broken>>

\* Redis loses bumps.
Break ==
  /\ broken' = TRUE
  /\ promised' = [o \in Organizations |-> 0]
  /\ call' = [c \in Callers |->
       IF call[c].pc = "asked" THEN [call[c] EXCEPT !.floor = 0] ELSE call[c]]
  /\ UNCHANGED commits

Next ==
  \/ \E os \in SUBSET Organizations : Mutate(os)
  \/ \E o \in Organizations : Bump(o)
  \/ \E c \in Callers :
       \/ \E view \in Views : Ask(c, view)
       \/ Excuse(c)
       \/ Answer(c)
       \/ Return(c)
  \/ Abandon
  \/ Break

Spec == Init /\ [][Next]_vars
=============================================================================
