--------------------------- MODULE ProjectRegistry ---------------------------
(***************************************************************************)
(* What the project endpoints promise about concurrent callers, without      *)
(* lookups, snapshots or an index in sight: a register in which every call    *)
(* takes effect at one moment between its request and its answer, or is      *)
(* refused because, at such a moment, a live project of the organization has  *)
(* the name.  Projects implements it (KeepsRegister there).                  *)
(*                                                                         *)
(* A change can be asked only of a live project, but may take effect when it  *)
(* is deleted: it then brings the project back, under the same rule.          *)
(***************************************************************************)
EXTENDS Naturals

CONSTANTS
  Organizations,
  Names,
  ProjectIds,
  Callers,     \* concurrent callers
  Nothing      \* no name, or no project

VARIABLES
  register,  \* register[p]: name, organization and deletion of p, or NoProject
  call       \* what the callers have asked for

vars == <<register, call>>

NoProject == [deleted |-> TRUE]

Entry(name, o, deleted) ==
  [name |-> name, organizationId |-> o, deleted |-> deleted]

Idle == [op |-> "idle"]

\* A call for the project p of o, or for a new one when p is Nothing.
Call(op, p, name, o) ==
  [op |-> op, id |-> p, name |-> name, organizationId |-> o]

Taken(p, name, o) ==
  \E q \in ProjectIds \ {p} :
    ~register[q].deleted /\ register[q].organizationId = o /\ register[q].name = name

\* The name that a call which gives none leaves the project.
NameAfter(p, name) == IF name = Nothing THEN register[p].name ELSE name

Init ==
  /\ register = [p \in ProjectIds |-> NoProject]
  /\ call = [c \in Callers |-> Idle]

Ask(c, s) ==
  /\ call[c] = Idle
  /\ UNCHANGED register
  /\ call' = [call EXCEPT ![c] = s]

AskNew(c, name, o) == Ask(c, Call("register", Nothing, name, o))

\* Renaming, or saving as it is, and retiring.
AskChange(c, op, p, name) ==
  ~register[p].deleted /\ Ask(c, Call(op, p, name, register[p].organizationId))

Write(c, p, entry) ==
  /\ register' = [register EXCEPT ![p] = entry]
  /\ call' = [call EXCEPT ![c] = Idle]

Register(c, p) ==
  /\ call[c].op = "register"
  /\ register[p] = NoProject
  /\ ~Taken(p, call[c].name, call[c].organizationId)
  /\ Write(c, p, Entry(call[c].name, call[c].organizationId, FALSE))

Rename(c) ==
  LET p == call[c].id
      name == NameAfter(p, call[c].name)
      o == register[p].organizationId
  IN  /\ call[c].op = "rename"
      /\ ~Taken(p, name, o)
      /\ Write(c, p, Entry(name, o, FALSE))

Retire(c) ==
  LET p == call[c].id
  IN  /\ call[c].op = "retire"
      /\ Write(c, p, Entry(register[p].name, register[p].organizationId, TRUE))

\* A refusal names what was asked for: the name is taken when it is refused.
Refuse(c, p, name, o) ==
  /\ UNCHANGED register
  /\ Taken(p, name, o)
  /\ call' = [call EXCEPT ![c] = Call("refused", p, name, o)]

RefuseAtOnce(c, name, o) == call[c] = Idle /\ Refuse(c, Nothing, name, o)

RefuseNew(c) ==
  /\ call[c].op = "register"
  /\ Refuse(c, Nothing, call[c].name, call[c].organizationId)

RefuseChange(c) ==
  LET p == call[c].id
  IN  /\ call[c].op = "rename"
      /\ Refuse(c, p, NameAfter(p, call[c].name), register[p].organizationId)

Answer(c) ==
  /\ call[c].op = "refused"
  /\ call' = [call EXCEPT ![c] = Idle]
  /\ UNCHANGED register

\* The process ends with the calls under way.
Abandon ==
  /\ call' = [c \in Callers |-> Idle]
  /\ UNCHANGED register

Next ==
  \/ \E c \in Callers :
       \/ \E name \in Names, o \in Organizations :
            AskNew(c, name, o) \/ RefuseAtOnce(c, name, o)
       \/ \E p \in ProjectIds, name \in Names \cup {Nothing} :
            AskChange(c, "rename", p, name)
       \/ \E p \in ProjectIds : AskChange(c, "retire", p, Nothing)
       \/ \E p \in ProjectIds : Register(c, p)
       \/ Rename(c) \/ Retire(c)
       \/ RefuseNew(c) \/ RefuseChange(c) \/ Answer(c)
  \/ Abandon

Spec == Init /\ [][Next]_vars
=============================================================================
