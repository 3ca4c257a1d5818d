--------------------------- MODULE AccountsProofs ---------------------------
(***************************************************************************)
(* Theorems about Accounts, for any number of users, organizations, emails, *)
(* names, sessions, access tokens, concurrent requests and faults.          *)
(***************************************************************************)
EXTENDS Accounts, TLAPS

-----------------------------------------------------------------------------
(***************************************************************************)
(* Types.                                                                  *)
(***************************************************************************)

LEMMA NoRowIsNoUser ==
  ASSUME TypeOK, NEW u \in UserIds
  PROVE  /\ users[u] # NoRow => users[u] \in User
         /\ NoRow \notin User
         /\ users[u].role = "owner" => users[u] # NoRow
BY DEF TypeOK, NoRow, User, UserRole

LEMMA PayloadType ==
  ASSUME TypeOK, NEW u \in UserIds, users[u] # NoRow
  PROVE  PayloadOf(u) \in AccessTokenPayload
BY NoRowIsNoUser DEF PayloadOf, AccessTokenPayload, User

LEMMA AllowedAreRoles ==
  ASSUME NEW role \in UserRole
  PROVE  /\ AllowedUserRoles[role] \subseteq UserRole
         /\ "owner" \notin AllowedUserRoles[role]
BY DEF AllowedUserRoles, UserRole

\* The pc of a request tells which fields it has.
LEMMA RequestSort ==
  ASSUME TypeOK, NEW r \in Requests
  PROVE  /\ request[r].pc \in {"name", "transaction"} => request[r] \in Registering
         /\ request[r].pc = "session" => request[r] \in OpeningSession
         /\ request[r].pc \in {"exists", "sign"} => request[r] \in Refreshing
         /\ request[r].pc = "insertUser" => request[r] \in CreatingUser
         /\ request[r].pc = "deleteUser" => request[r] \in DeletingUser
<1>1. request[r] \in RequestState
  BY DEF TypeOK
<1>2. CASE request[r] = Idle
  BY <1>2 DEF Idle
<1>3. CASE request[r] \in Registering
  BY <1>3 DEF Registering
<1>4. CASE request[r] \in OpeningSession
  BY <1>4 DEF OpeningSession
<1>5. CASE request[r] \in Refreshing
  BY <1>5 DEF Refreshing
<1>6. CASE request[r] \in CreatingUser
  BY <1>6 DEF CreatingUser
<1>7. CASE request[r] \in DeletingUser
  BY <1>7 DEF DeletingUser
<1>8. CASE request[r] \in Answered
  BY <1>8 DEF Answered
<1> QED
  BY <1>1, <1>2, <1>3, <1>4, <1>5, <1>6, <1>7, <1>8 DEF RequestState

\* A request that goes on in a state of the right type.
LEMMA GotoType ==
  ASSUME TypeOK, NEW r \in Requests, NEW s \in RequestState, Goto(r, s)
  PROVE  /\ request' \in [Requests -> RequestState]
         /\ request'[r] = s
         /\ \A x \in Requests \ {r} : request'[x] = request[x]
BY DEF TypeOK, Goto

LEMMA AnswerType ==
  ASSUME TypeOK, NEW r \in Requests, NEW status \in {"409", "500", "503"},
         Answer(r, status)
  PROVE  /\ request' \in [Requests -> RequestState]
         /\ request'[r].pc = "answer"
         /\ \A x \in Requests \ {r} : request'[x] = request[x]
<1> DEFINE s == [pc |-> "answer", status |-> status]
<1>1. s \in RequestState
  BY DEF RequestState, Answered
<1>2. Goto(r, s)
  BY DEF Answer
<1> QED
  BY <1>1, <1>2, GotoType

LEMMA IdleType ==
  ASSUME TypeOK, NEW r \in Requests, Goto(r, Idle)
  PROVE  /\ request' \in [Requests -> RequestState]
         /\ request'[r].pc = "idle"
         /\ \A x \in Requests \ {r} : request'[x] = request[x]
BY GotoType DEF RequestState, Idle

\* The answer of EXISTS, and the found name, are kept in the pc alone.
LEMMA PcType ==
  ASSUME TypeOK, NEW r \in Requests, NEW pc,
         \/ request[r].pc = "name" /\ pc = "transaction"
         \/ request[r].pc = "exists" /\ pc = "sign",
         request' = [request EXCEPT ![r].pc = pc]
  PROVE  /\ request' \in [Requests -> RequestState]
         /\ request'[r].pc = pc
         /\ request[r].pc = "exists" =>
              /\ request'[r].loggedOut = request[r].loggedOut
              /\ request'[r].token = request[r].token
         /\ \A x \in Requests \ {r} : request'[x] = request[x]
<1> DEFINE s == [request[r] EXCEPT !.pc = pc]
<1>1. Goto(r, s)
  BY DEF Goto
<1>2. CASE request[r].pc = "name"
  <2>1. request[r] \in Registering /\ s \in Registering
    BY <1>2, RequestSort DEF Registering
  <2> QED
    BY <1>1, <1>2, <2>1, GotoType DEF RequestState, Registering
<1>3. CASE request[r].pc = "exists"
  <2>1. request[r] \in Refreshing /\ s \in Refreshing
    BY <1>3, RequestSort DEF Refreshing
  <2> QED
    BY <1>1, <1>3, <2>1, GotoType DEF RequestState, Refreshing
<1> QED
  BY <1>2, <1>3

-----------------------------------------------------------------------------
(***************************************************************************)
(* The inductive invariant.  Requests: no creation or deletion under way is *)
(* of an owner; a refresh that began after the logout of its session does    *)
(* not find the session.  Sessions: one that was logged out is gone, and     *)
(* its id is not taken again while somebody holds the token.                 *)
(***************************************************************************)

RequestInv(r) ==
  /\ request[r].pc = "insertUser" => request[r].role # "owner"
  /\ request[r].pc = "deleteUser" =>
       /\ users[request[r].id] # NoRow
       /\ users[request[r].id].role # "owner"
  /\ request[r].pc = "exists" /\ ~lost /\ request[r].loggedOut =>
       request[r].token \notin sessions
  /\ request[r].pc = "sign" /\ ~lost => ~request[r].loggedOut

SessionsInv ==
  /\ loggedOut \subseteq refreshTokens
  /\ ~lost => loggedOut \cap sessions = {}

AccountsInv ==
  /\ TypeOK
  /\ OwnersStand
  /\ LiveEmailsDiffer
  /\ SessionsInv
  /\ \A r \in Requests : RequestInv(r)

\* Rows stay, and keep their roles.
RowsKept ==
  \A u \in UserIds :
    users[u] # NoRow => users'[u] # NoRow /\ users'[u].role = users[u].role

\* No session that a refresh under way asks for appears.
SessionsKept ==
  ~lost' =>
    /\ ~lost
    /\ \A x \in Requests :
         request[x].pc = "exists" /\ request[x].token \notin sessions =>
           request[x].token \notin sessions'

\* The requests that a step is not about.
LEMMA OtherRequests ==
  ASSUME TypeOK, RowsKept, SessionsKept, NEW x \in Requests, RequestInv(x),
         request'[x] = request[x]
  PROVE  RequestInv(x)'
<1>1. request[x].pc = "deleteUser" => request[x].id \in UserIds
  BY RequestSort DEF DeletingUser
<1> QED
  BY <1>1 DEF RequestInv, RowsKept, SessionsKept

LEMMA AccountsInit ==
  ASSUME Init
  PROVE  AccountsInv
<1>1. TypeOK
  BY DEF Init, TypeOK, RequestState
<1>2. OwnersStand /\ LiveEmailsDiffer
  BY DEF Init, OwnersStand, LiveEmailsDiffer, NoRow, Live
<1>3. SessionsInv
  BY DEF Init, SessionsInv
<1>4. \A r \in Requests : RequestInv(r)
  BY DEF Init, RequestInv, Idle
<1> QED
  BY <1>1, <1>2, <1>3, <1>4 DEF AccountsInv

\* A step that leaves both tables and the sessions as they are: what remains is
\* the request it is about.
LEMMA QuietStep ==
  ASSUME AccountsInv, NEW r \in Requests, RequestInv(r)',
         request' \in [Requests -> RequestState],
         \A x \in Requests \ {r} : request'[x] = request[x],
         accessTokens' \in [AccessIds -> AccessTokenPayload \cup {NoRow}],
         faults' \in Nat,
         UNCHANGED <<db, redis, refreshTokens, loggedOut>>
  PROVE  AccountsInv'
<1>1. TypeOK'
  BY DEF AccountsInv, TypeOK, db, redis
<1>2. OwnersStand' /\ LiveEmailsDiffer' /\ SessionsInv'
  BY DEF AccountsInv, OwnersStand, LiveEmailsDiffer, SessionsInv, Live, db, redis
<1>3. RowsKept /\ SessionsKept
  BY DEF RowsKept, SessionsKept, db, redis
<1>4. ASSUME NEW x \in Requests \ {r}
      PROVE  RequestInv(x)'
  BY <1>3, <1>4, OtherRequests DEF AccountsInv
<1> QED
  BY <1>1, <1>2, <1>4 DEF AccountsInv

\* A step of Redis, of a clock or of the whole process: both tables stay, and
\* each request stays or ends.
LEMMA OutsideStep ==
  ASSUME AccountsInv, SessionsKept,
         UNCHANGED db,
         sessions' \subseteq RefreshTokenPayload,
         durable' \subseteq RefreshTokenPayload,
         refreshTokens' \subseteq RefreshTokenPayload,
         loggedOut' \subseteq RefreshTokenPayload,
         accessTokens' \in [AccessIds -> AccessTokenPayload \cup {NoRow}],
         faults' \in Nat, lost' \in BOOLEAN,
         request' = request \/ request' = [x \in Requests |-> Idle],
         SessionsInv'
  PROVE  AccountsInv'
<1>1. TypeOK'
  BY DEF AccountsInv, TypeOK, RequestState, db
<1>2. OwnersStand' /\ LiveEmailsDiffer'
  BY DEF AccountsInv, OwnersStand, LiveEmailsDiffer, Live, db
<1>3. RowsKept
  BY DEF RowsKept, db
<1>4. CASE request' = request
  BY <1>1, <1>2, <1>3, <1>4, OtherRequests DEF AccountsInv
<1>5. CASE request' = [x \in Requests |-> Idle]
  <2>1. \A x \in Requests : RequestInv(x)'
    BY <1>5 DEF RequestInv, Idle
  <2> QED
    BY <1>1, <1>2, <2>1 DEF AccountsInv
<1> QED
  BY <1>4, <1>5

\* A step of request r that ends it and leaves tables and Redis alone.
LEMMA EndingStep ==
  ASSUME AccountsInv, NEW r \in Requests,
         \/ Goto(r, Idle)
         \/ \E status \in {"409", "500", "503"} : Answer(r, status),
         accessTokens' \in [AccessIds -> AccessTokenPayload \cup {NoRow}],
         faults' \in Nat,
         UNCHANGED <<db, redis, refreshTokens, loggedOut>>
  PROVE  AccountsInv'
<1>1. /\ request' \in [Requests -> RequestState]
      /\ request'[r].pc \in {"idle", "answer"}
      /\ \A x \in Requests \ {r} : request'[x] = request[x]
  BY IdleType, AnswerType DEF AccountsInv
<1>2. RequestInv(r)'
  BY <1>1 DEF RequestInv
<1> QED
  BY <1>1, <1>2, QuietStep

LEMMA FaultType ==
  ASSUME TypeOK, Fault
  PROVE  faults' \in Nat
BY DEF TypeOK, Fault

LEMMA HandOutType ==
  ASSUME TypeOK, NEW i \in AccessIds, NEW payload \in AccessTokenPayload,
         HandOut(i, payload)
  PROVE  accessTokens' \in [AccessIds -> AccessTokenPayload \cup {NoRow}]
BY DEF TypeOK, HandOut

\* A step that takes request r on to state s and changes nothing else.
LEMMA GoingOnStep ==
  ASSUME AccountsInv, NEW r \in Requests, NEW s \in RequestState, Goto(r, s),
         s.pc = "insertUser" => s.role # "owner",
         s.pc = "deleteUser" =>
           users[s.id] # NoRow /\ users[s.id].role # "owner",
         s.pc = "exists" /\ ~lost /\ s.loggedOut => s.token \notin sessions,
         s.pc # "sign",
         UNCHANGED <<db, redis, tokens, faults>>
  PROVE  AccountsInv'
<1>1. /\ request' \in [Requests -> RequestState]
      /\ request'[r] = s
      /\ \A x \in Requests \ {r} : request'[x] = request[x]
  BY GotoType DEF AccountsInv
<1>2. RequestInv(r)'
  BY <1>1 DEF RequestInv, db, redis
<1>3. /\ accessTokens' \in [AccessIds -> AccessTokenPayload \cup {NoRow}]
      /\ faults' \in Nat
      /\ UNCHANGED <<db, redis, refreshTokens, loggedOut>>
  BY DEF AccountsInv, TypeOK, tokens
<1> QED
  BY <1>1, <1>2, <1>3, QuietStep

\* register() before its transaction, and login().
LEMMA LookupSteps ==
  ASSUME AccountsInv, NEW r \in Requests,
         \/ \E email \in Emails, name \in Names : Register(r, email, name)
         \/ RegisterName(r)
         \/ \E u \in UserIds : Login(r, u)
  PROVE  AccountsInv'
<1>1. ASSUME NEW email \in Emails, NEW name \in Names, Register(r, email, name)
      PROVE  AccountsInv'
  <2>1. UNCHANGED <<db, redis, tokens, faults>>
    BY <1>1 DEF Register
  <2>2. CASE Answer(r, "409")
    BY <2>1, <2>2, EndingStep DEF AccountsInv, TypeOK, tokens
  <2>3. CASE Goto(r, [pc |-> "name", email |-> email, name |-> name])
    <3>1. [pc |-> "name", email |-> email, name |-> name] \in RequestState
      BY DEF RequestState, Registering
    <3> QED
      BY <2>1, <2>3, <3>1, GoingOnStep
  <2> QED
    BY <1>1, <2>2, <2>3 DEF Register
<1>2. ASSUME RegisterName(r)
      PROVE  AccountsInv'
  <2>1. UNCHANGED <<db, redis, tokens, faults>> /\ request[r].pc = "name"
    BY <1>2 DEF RegisterName
  <2>2. CASE Answer(r, "409")
    BY <2>1, <2>2, EndingStep DEF AccountsInv, TypeOK, tokens
  <2>3. CASE request' = [request EXCEPT ![r].pc = "transaction"]
    <3>1. /\ request' \in [Requests -> RequestState]
          /\ request'[r].pc = "transaction"
          /\ \A x \in Requests \ {r} : request'[x] = request[x]
      BY <2>1, <2>3, PcType DEF AccountsInv
    <3>2. RequestInv(r)'
      BY <3>1 DEF RequestInv
    <3> QED
      BY <2>1, <3>1, <3>2, QuietStep DEF AccountsInv, TypeOK, tokens
  <2> QED
    BY <1>2, <2>2, <2>3 DEF RegisterName
<1>3. ASSUME NEW u \in UserIds, Login(r, u)
      PROVE  AccountsInv'
  <2> DEFINE s == [pc |-> "session", payload |-> PayloadOf(u)]
  <2>1. s \in RequestState
    BY <1>3, PayloadType DEF AccountsInv, Login, Live, RequestState, OpeningSession
  <2>2. Goto(r, s) /\ UNCHANGED <<db, redis, tokens, faults>>
    BY <1>3 DEF Login
  <2>3. s.pc = "session"
    OBVIOUS
  <2> HIDE DEF s
  <2> QED
    BY <2>1, <2>2, <2>3, GoingOnStep
<1> QED
  BY <1>1, <1>2, <1>3

\* register(): the transaction writes all three rows or none.
LEMMA TransactionStep ==
  ASSUME AccountsInv, NEW r \in Requests, NEW u \in UserIds, NEW o \in OrgIds,
         RegisterTransaction(r, u, o)
  PROVE  AccountsInv'
<1> DEFINE email == request[r].email
           name  == request[r].name
           user  == NewUser(email, "owner", o)
           s     == [pc |-> "session",
                     payload |-> [sub |-> u, role |-> "owner", organizationId |-> o]]
<1>0. /\ TypeOK
      /\ email \in Emails /\ name \in Names
      /\ UNCHANGED <<redis, tokens, faults>>
  BY RequestSort DEF AccountsInv, RegisterTransaction, Registering
<1>1. CASE EmailTaken(email)
  <2>1. Answer(r, "500") /\ UNCHANGED db
    BY <1>1 DEF RegisterTransaction
  <2> QED
    BY <1>0, <2>1, EndingStep DEF TypeOK, tokens
<1>2. CASE ~EmailTaken(email)
  <2>1. /\ users[u] = NoRow
        /\ organizations[o] = NoRow
        /\ organizations' = [organizations EXCEPT ![o] = [name |-> name, ownerId |-> u]]
        /\ users' = [users EXCEPT ![u] = user]
        /\ Goto(r, s)
    BY <1>2 DEF RegisterTransaction
  <2>0. /\ user.role = "owner"
        /\ user.organizationId = o
        /\ user.email = email
        /\ user.deleted = FALSE
    BY DEF NewUser
  <2>2. user \in User /\ user # NoRow
    <3>1. user \in User
      BY <1>0 DEF NewUser, User, UserRole
    <3> QED
      BY <1>0, <3>1, NoRowIsNoUser
  <2> HIDE DEF user
  <2>3. /\ users' \in [UserIds -> User \cup {NoRow}]
        /\ users'[u] = user
        /\ \A v \in UserIds \ {u} : users'[v] = users[v]
    BY <1>0, <2>1, <2>2 DEF TypeOK
  <2>4. /\ organizations' \in [OrgIds -> Organization \cup {NoRow}]
        /\ organizations'[o] = [name |-> name, ownerId |-> u]
        /\ \A p \in OrgIds \ {o} : organizations'[p] = organizations[p]
    BY <1>0, <2>1 DEF TypeOK, Organization
  <2>5. s \in RequestState
    BY DEF RequestState, OpeningSession, AccessTokenPayload, UserRole
  <2>6. /\ request' \in [Requests -> RequestState]
        /\ request'[r] = s
        /\ \A x \in Requests \ {r} : request'[x] = request[x]
    BY <1>0, <2>1, <2>5, GotoType
  <2>7. TypeOK'
    BY <1>0, <2>3, <2>4, <2>6 DEF TypeOK, redis, tokens
  <2>8. OwnersStand'
    <3>1. ASSUME NEW p \in OrgIds, organizations'[p] # NoRow
          PROVE  /\ users'[organizations'[p].ownerId] # NoRow
                 /\ ~users'[organizations'[p].ownerId].deleted
                 /\ users'[organizations'[p].ownerId].role = "owner"
                 /\ users'[organizations'[p].ownerId].organizationId = p
      <4>1. CASE p = o
        BY <2>0, <2>2, <2>3, <2>4, <4>1
      <4>2. CASE p # o
        <5>1. organizations[p] # NoRow /\ organizations'[p] = organizations[p]
          BY <2>4, <3>1, <4>2
        <5>2. /\ Live(organizations[p].ownerId)
              /\ users[organizations[p].ownerId].role = "owner"
              /\ users[organizations[p].ownerId].organizationId = p
          BY <5>1 DEF AccountsInv, OwnersStand
        <5>3. organizations[p].ownerId \in UserIds
          BY <1>0, <5>1 DEF TypeOK, Organization
        <5>4. organizations[p].ownerId # u
          BY <2>1, <5>2 DEF Live
        <5> QED
          BY <2>3, <5>1, <5>2, <5>3, <5>4 DEF Live
      <4> QED
        BY <4>1, <4>2
    <3>2. ASSUME NEW v \in UserIds, users'[v].role = "owner"
          PROVE  /\ organizations'[users'[v].organizationId] # NoRow
                 /\ organizations'[users'[v].organizationId].ownerId = v
      <4>1. CASE v = u
        BY <2>0, <2>3, <2>4, <4>1 DEF NoRow
      <4>2. CASE v # u
        <5>1. users'[v] = users[v] /\ users[v].role = "owner"
          BY <2>3, <3>2, <4>2
        <5>2. /\ organizations[users[v].organizationId] # NoRow
              /\ organizations[users[v].organizationId].ownerId = v
          BY <5>1 DEF AccountsInv, OwnersStand
        <5>3. users[v].organizationId \in OrgIds \ {o}
          BY <1>0, <2>1, <5>1, <5>2, NoRowIsNoUser DEF User
        <5> QED
          BY <2>4, <5>1, <5>2, <5>3
      <4> QED
        BY <4>1, <4>2
    <3> QED
      BY <3>1, <3>2 DEF OwnersStand, Live
  <2>9. LiveEmailsDiffer'
    BY <1>2, <2>0, <2>3 DEF AccountsInv, LiveEmailsDiffer, Live, EmailTaken
  <2>10. SessionsInv'
    BY <1>0 DEF AccountsInv, SessionsInv, redis, tokens
  <2>11. RowsKept /\ SessionsKept
    BY <1>0, <2>1, <2>3 DEF RowsKept, SessionsKept, redis
  <2>12. RequestInv(r)'
    BY <2>6 DEF RequestInv
  <2>13. ASSUME NEW x \in Requests \ {r}
         PROVE  RequestInv(x)'
    BY <1>0, <2>6, <2>11, <2>13, OtherRequests DEF AccountsInv
  <2> QED
    BY <2>7, <2>8, <2>9, <2>10, <2>12, <2>13 DEF AccountsInv
<1> QED
  BY <1>1, <1>2

\* A step that writes the row of u, who is no owner, and ends request r.
LEMMA UserRowStep ==
  ASSUME AccountsInv, NEW r \in Requests, NEW u \in UserIds, NEW user \in User,
         users' = [users EXCEPT ![u] = user],
         users[u].role # "owner", user.role # "owner",
         users[u] # NoRow => user.role = users[u].role,
         ~user.deleted => ~EmailTaken(user.email),
         Goto(r, Idle),
         UNCHANGED <<organizations, redis, tokens, faults>>
  PROVE  AccountsInv'
<1>1. /\ users' \in [UserIds -> User \cup {NoRow}]
      /\ users'[u] = user
      /\ user # NoRow
      /\ \A v \in UserIds \ {u} : users'[v] = users[v]
  BY NoRowIsNoUser DEF AccountsInv, TypeOK
<1>2. /\ request' \in [Requests -> RequestState]
      /\ request'[r].pc = "idle"
      /\ \A x \in Requests \ {r} : request'[x] = request[x]
  BY IdleType DEF AccountsInv
<1>3. TypeOK'
  BY <1>1, <1>2 DEF AccountsInv, TypeOK, redis, tokens
<1>4. OwnersStand'
  <2>1. ASSUME NEW p \in OrgIds, organizations[p] # NoRow
        PROVE  organizations[p].ownerId \in UserIds \ {u}
    BY <2>1 DEF AccountsInv, OwnersStand, TypeOK, Organization
  <2> QED
    BY <1>1, <2>1 DEF AccountsInv, OwnersStand, Live
<1>5. LiveEmailsDiffer'
  BY <1>1 DEF AccountsInv, LiveEmailsDiffer, Live, EmailTaken
<1>6. SessionsInv' /\ SessionsKept /\ RowsKept
  BY <1>1 DEF AccountsInv, SessionsInv, SessionsKept, RowsKept, redis, tokens
<1>7. RequestInv(r)'
  BY <1>2 DEF RequestInv
<1>8. ASSUME NEW x \in Requests \ {r}
      PROVE  RequestInv(x)'
  BY <1>2, <1>6, <1>8, OtherRequests DEF AccountsInv
<1> QED
  BY <1>3, <1>4, <1>5, <1>6, <1>7, <1>8 DEF AccountsInv

\* UserService.create() and softDelete(): the writes.
LEMMA UserWrites ==
  ASSUME AccountsInv, NEW r \in Requests,
         \/ \E u \in UserIds : InsertUser(r, u)
         \/ SoftDeleteUser(r)
  PROVE  AccountsInv'
<1>0. TypeOK /\ RequestInv(r)
  BY DEF AccountsInv
<1>1. ASSUME NEW u \in UserIds, InsertUser(r, u)
      PROVE  AccountsInv'
  <2>1. /\ request[r] \in CreatingUser
        /\ request[r].role # "owner"
        /\ UNCHANGED <<organizations, redis, tokens, faults>>
    BY <1>0, <1>1, RequestSort DEF InsertUser, RequestInv
  <2>2. CASE EmailTaken(request[r].email)
    <3>1. Answer(r, "500") /\ UNCHANGED db
      BY <1>1, <2>2 DEF InsertUser, db
    <3> QED
      BY <1>0, <2>1, <3>1, EndingStep DEF TypeOK, tokens
  <2>3. CASE ~EmailTaken(request[r].email)
    <3> DEFINE user == NewUser(request[r].email, request[r].role,
                               request[r].organizationId)
    <3>1. users[u] = NoRow /\ users' = [users EXCEPT ![u] = user] /\ Goto(r, Idle)
      BY <1>1, <2>3 DEF InsertUser
    <3>2. user \in User /\ user.role # "owner" /\ user.email = request[r].email
      BY <2>1 DEF NewUser, User, CreatingUser
    <3>3. users[u].role # "owner"
      BY <3>1 DEF NoRow
    <3> HIDE DEF user
    <3> QED
      BY <2>1, <2>3, <3>1, <3>2, <3>3, UserRowStep
  <2> QED
    BY <2>2, <2>3
<1>2. ASSUME SoftDeleteUser(r)
      PROVE  AccountsInv'
  <2> DEFINE u == request[r].id
             user == [users[u] EXCEPT !.deleted = TRUE]
  <2>1. /\ u \in UserIds
        /\ users[u] \in User
        /\ users[u].role # "owner"
        /\ Goto(r, Idle)
        /\ UNCHANGED <<organizations, redis, tokens, faults>>
    BY <1>0, <1>2, RequestSort, NoRowIsNoUser DEF SoftDeleteUser, RequestInv, DeletingUser
  <2>2. CASE users[u].organizationId = request[r].organizationId
    <3>1. users' = [users EXCEPT ![u] = user]
      BY <1>2, <2>2 DEF SoftDeleteUser
    <3>2. user \in User /\ user.role = users[u].role /\ user.deleted
      BY <2>1 DEF User
    <3> HIDE DEF user
    <3> QED
      BY <2>1, <3>1, <3>2, UserRowStep
  <2>3. CASE users[u].organizationId # request[r].organizationId
    <3>1. UNCHANGED db
      BY <1>2, <2>1, <2>3 DEF SoftDeleteUser, db
    <3> QED
      BY <1>0, <2>1, <3>1, EndingStep DEF TypeOK, tokens
  <2> QED
    BY <2>2, <2>3
<1> QED
  BY <1>1, <1>2

\* refresh(): what is true of the session when EXISTS answers stays true.
LEMMA RefreshSteps ==
  ASSUME AccountsInv, NEW r \in Requests,
         \/ \E token \in RefreshTokenPayload : Refresh(r, token)
         \/ Exists(r)
         \/ ExistsFailed(r)
         \/ \E i \in AccessIds : Sign(r, i)
  PROVE  AccountsInv'
<1>0. TypeOK /\ RequestInv(r) /\ SessionsInv
  BY DEF AccountsInv
<1>1. ASSUME NEW token \in RefreshTokenPayload, Refresh(r, token)
      PROVE  AccountsInv'
  <2> DEFINE s == [pc |-> "exists", token |-> token, payload |-> PayloadOf(token.sub),
                   loggedOut |-> token \in loggedOut]
  <2>1. /\ Goto(r, s)
        /\ UNCHANGED <<db, redis, tokens, faults>>
        /\ users[token.sub] # NoRow
    BY <1>1 DEF Refresh, Live
  <2>2. PayloadOf(token.sub) \in AccessTokenPayload
    BY <1>0, <2>1, PayloadType DEF RefreshTokenPayload
  <2>3. s \in RequestState
    BY <2>2 DEF RequestState, Refreshing
  <2>4. s.pc = "exists" /\ (~lost /\ s.loggedOut => s.token \notin sessions)
    BY <1>0 DEF SessionsInv
  <2> HIDE DEF s
  <2> QED
    BY <2>1, <2>3, <2>4, GoingOnStep
<1>2. ASSUME Exists(r)
      PROVE  AccountsInv'
  <2>1. UNCHANGED <<db, redis, tokens, faults>> /\ request[r].pc = "exists"
    BY <1>2 DEF Exists
  <2>2. CASE request[r].token \notin sessions
    BY <1>0, <1>2, <2>1, <2>2, EndingStep DEF Exists, TypeOK, tokens
  <2>3. CASE request[r].token \in sessions
    <3>1. request' = [request EXCEPT ![r].pc = "sign"]
      BY <1>2, <2>3 DEF Exists
    <3>2. /\ request' \in [Requests -> RequestState]
          /\ request'[r].pc = "sign"
          /\ request'[r].loggedOut = request[r].loggedOut
          /\ \A x \in Requests \ {r} : request'[x] = request[x]
      BY <1>0, <2>1, <3>1, PcType
    <3>3. RequestInv(r)'
      BY <1>0, <2>1, <2>3, <3>2 DEF RequestInv, redis
    <3> QED
      BY <1>0, <2>1, <3>2, <3>3, QuietStep DEF TypeOK, tokens
  <2> QED
    BY <2>2, <2>3
<1>3. ASSUME ExistsFailed(r)
      PROVE  AccountsInv'
  BY <1>0, <1>3, FaultType, EndingStep DEF ExistsFailed, TypeOK, tokens
<1>4. ASSUME NEW i \in AccessIds, Sign(r, i)
      PROVE  AccountsInv'
  <2>1. request[r].payload \in AccessTokenPayload
    BY <1>0, <1>4, RequestSort DEF Sign, Refreshing
  <2>2. accessTokens' \in [AccessIds -> AccessTokenPayload \cup {NoRow}]
    BY <1>0, <1>4, <2>1, HandOutType DEF Sign
  <2> QED
    BY <1>0, <1>4, <2>2, EndingStep DEF Sign, TypeOK
<1> QED
  BY <1>1, <1>2, <1>3, <1>4

\* The SET of a session whose id nobody has, whether it is answered or not.
LEMMA SessionSteps ==
  ASSUME AccountsInv, NEW r \in Requests, NEW tid \in TokenIds,
         \/ \E i \in AccessIds : SetSession(r, tid, i)
         \/ SetSessionFailed(r, tid)
  PROVE  AccountsInv'
<1> DEFINE token == [sub |-> request[r].payload.sub, tid |-> tid]
<1>0. TypeOK /\ SessionsInv /\ FreshTid(tid) /\ request[r].pc = "session"
  BY DEF AccountsInv, SetSession, SetSessionFailed
<1>1. /\ request[r].payload \in AccessTokenPayload
      /\ token \in RefreshTokenPayload
  BY <1>0, RequestSort DEF OpeningSession, AccessTokenPayload, RefreshTokenPayload
<1>2. /\ token.tid = tid
      /\ token \notin refreshTokens
      /\ \A x \in Requests : request[x].pc = "exists" => request[x].token # token
  BY <1>0 DEF FreshTid
<1> HIDE DEF token
<1>3. /\ sessions' \in {sessions, sessions \cup {token}}
      /\ refreshTokens' \in {refreshTokens, refreshTokens \cup {token}}
      /\ UNCHANGED <<db, durable, loggedOut, lost>>
  BY DEF SetSession, SetSessionFailed, tokens, token
<1>4. /\ accessTokens' \in [AccessIds -> AccessTokenPayload \cup {NoRow}]
      /\ faults' \in Nat
  <2>1. CASE SetSessionFailed(r, tid)
    BY <1>0, <2>1, FaultType DEF SetSessionFailed, TypeOK, tokens
  <2>2. CASE \E i \in AccessIds : SetSession(r, tid, i)
    BY <1>0, <1>1, <2>2, HandOutType DEF SetSession, TypeOK
  <2> QED
    BY <2>1, <2>2
<1>5. /\ request' \in [Requests -> RequestState]
      /\ request'[r].pc \in {"idle", "answer"}
      /\ \A x \in Requests \ {r} : request'[x] = request[x]
  BY <1>0, IdleType, AnswerType DEF SetSession, SetSessionFailed
<1>6. TypeOK'
  BY <1>0, <1>1, <1>3, <1>4, <1>5 DEF TypeOK, db
<1>7. OwnersStand' /\ LiveEmailsDiffer' /\ RowsKept
  BY <1>3 DEF AccountsInv, OwnersStand, LiveEmailsDiffer, Live, RowsKept, db
<1>8. SessionsInv'
  BY <1>0, <1>2, <1>3 DEF SessionsInv
<1>9. SessionsKept
  BY <1>2, <1>3 DEF SessionsKept
<1>10. RequestInv(r)'
  BY <1>5 DEF RequestInv
<1>11. ASSUME NEW x \in Requests \ {r}
       PROVE  RequestInv(x)'
  BY <1>0, <1>5, <1>7, <1>9, <1>11, OtherRequests DEF AccountsInv
<1> QED
  BY <1>6, <1>7, <1>8, <1>10, <1>11 DEF AccountsInv

\* UserService.create() and softDelete() before their writes: neither is of an
\* owner, by the role map.
LEMMA UserDecisions ==
  ASSUME AccountsInv, NEW r \in Requests, NEW actor \in AccessTokenPayload,
         \/ \E email \in Emails, role \in UserRole : CreateUser(r, actor, email, role)
         \/ \E u \in UserIds : DeleteUser(r, actor, u)
  PROVE  AccountsInv'
<1>0. TypeOK /\ actor.role \in UserRole /\ actor.organizationId \in OrgIds
  BY DEF AccountsInv, AccessTokenPayload
<1>1. ASSUME NEW email \in Emails, NEW role \in UserRole,
             CreateUser(r, actor, email, role)
      PROVE  AccountsInv'
  <2>1. /\ UNCHANGED <<db, redis, tokens, faults>>
        /\ role # "owner"
    BY <1>0, <1>1, AllowedAreRoles DEF CreateUser
  <2>2. CASE Answer(r, "409")
    BY <1>0, <2>1, <2>2, EndingStep DEF TypeOK, tokens
  <2>3. CASE ~FindsEmail(email)
    <3> DEFINE s == [pc |-> "insertUser", email |-> email, role |-> role,
                     organizationId |-> actor.organizationId]
    <3>1. Goto(r, s)
      BY <1>1, <2>3 DEF CreateUser
    <3>2. s \in RequestState /\ s.pc = "insertUser" /\ s.role = role
      BY <1>0 DEF RequestState, CreatingUser
    <3> HIDE DEF s
    <3> QED
      BY <2>1, <3>1, <3>2, GoingOnStep
  <2> QED
    BY <1>1, <2>2, <2>3 DEF CreateUser
<1>2. ASSUME NEW u \in UserIds, DeleteUser(r, actor, u)
      PROVE  AccountsInv'
  <2> DEFINE s == [pc |-> "deleteUser", id |-> u,
                   organizationId |-> actor.organizationId]
  <2>1. /\ Goto(r, s)
        /\ UNCHANGED <<db, redis, tokens, faults>>
        /\ users[u] # NoRow
    BY <1>2 DEF DeleteUser, Live
  <2>2. users[u].role # "owner"
    BY <1>0, <1>2, AllowedAreRoles DEF DeleteUser, AllowedToDeleteUser, PayloadOf
  <2>3. s \in RequestState /\ s.pc = "deleteUser" /\ s.id = u
    BY <1>0 DEF RequestState, DeletingUser
  <2> HIDE DEF s
  <2> QED
    BY <2>1, <2>2, <2>3, GoingOnStep
<1> QED
  BY <1>1, <1>2

\* updateMe() renames a row; nobody's owner changes.
LEMMA OrganizationStep ==
  ASSUME AccountsInv, NEW actor \in AccessTokenPayload, NEW name \in Names,
         UpdateOrganization(actor, name)
  PROVE  AccountsInv'
<1> DEFINE o == actor.organizationId
<1>1. /\ TypeOK
      /\ o \in OrgIds
      /\ organizations[o] \in Organization
      /\ organizations' = [organizations EXCEPT ![o].name = name]
      /\ UNCHANGED <<users, redis, tokens, request, faults>>
  BY DEF AccountsInv, UpdateOrganization, TypeOK, AccessTokenPayload
<1>2. /\ organizations' \in [OrgIds -> Organization \cup {NoRow}]
      /\ \A p \in OrgIds :
           /\ organizations'[p] # NoRow <=> organizations[p] # NoRow
           /\ organizations[p] # NoRow =>
                organizations'[p].ownerId = organizations[p].ownerId
  BY <1>1 DEF TypeOK, Organization, NoRow
<1>3. TypeOK'
  BY <1>1, <1>2 DEF TypeOK, redis, tokens
<1>4. OwnersStand'
  <2>1. \A u \in UserIds :
          users[u].role = "owner" => users[u].organizationId \in OrgIds
    BY <1>1, NoRowIsNoUser DEF User
  <2> QED
    BY <1>1, <1>2, <2>1 DEF AccountsInv, OwnersStand, Live
<1>5. LiveEmailsDiffer' /\ SessionsInv' /\ RowsKept /\ SessionsKept
  BY <1>1 DEF AccountsInv, LiveEmailsDiffer, Live, SessionsInv, RowsKept,
              SessionsKept, redis, tokens
<1>6. ASSUME NEW x \in Requests
      PROVE  RequestInv(x)'
  BY <1>1, <1>5, OtherRequests DEF AccountsInv
<1> QED
  BY <1>3, <1>4, <1>5, <1>6 DEF AccountsInv

\* logout(), the clocks, Redis and the end of the process.
LEMMA OutsideSteps ==
  ASSUME AccountsInv,
         \/ \E t \in RefreshTokenPayload :
              Logout(t) \/ LogoutFailed(t) \/ ExpireRefresh(t) \/ ExpireSession(t)
         \/ \E i \in AccessIds : ExpireAccess(i)
         \/ Fsync
         \/ RedisCrash
         \/ ProcessExit
  PROVE  AccountsInv'
<1>0. TypeOK /\ SessionsInv
  BY DEF AccountsInv
<1>1. ASSUME NEW t \in RefreshTokenPayload, Logout(t)
      PROVE  AccountsInv'
  <2>1. SessionsKept /\ SessionsInv'
    BY <1>0, <1>1 DEF Logout, SessionsKept, SessionsInv
  <2> QED
    BY <1>0, <1>1, <2>1, OutsideStep DEF Logout, TypeOK
<1>2. ASSUME NEW t \in RefreshTokenPayload, LogoutFailed(t)
      PROVE  AccountsInv'
  <2>1. SessionsKept /\ SessionsInv'
    BY <1>0, <1>2 DEF LogoutFailed, SessionsKept, SessionsInv, tokens
  <2> QED
    BY <1>0, <1>2, <2>1, FaultType, OutsideStep DEF LogoutFailed, TypeOK, tokens
<1>3. ASSUME NEW t \in RefreshTokenPayload, ExpireRefresh(t)
      PROVE  AccountsInv'
  <2>1. SessionsKept /\ SessionsInv'
    BY <1>0, <1>3 DEF ExpireRefresh, SessionsKept, SessionsInv, redis
  <2> QED
    BY <1>0, <1>3, <2>1, OutsideStep DEF ExpireRefresh, TypeOK, redis
<1>4. ASSUME NEW t \in RefreshTokenPayload, ExpireSession(t)
      PROVE  AccountsInv'
  <2>1. SessionsKept /\ SessionsInv'
    BY <1>0, <1>4 DEF ExpireSession, SessionsKept, SessionsInv, tokens
  <2> QED
    BY <1>0, <1>4, <2>1, OutsideStep DEF ExpireSession, TypeOK, tokens
<1>5. ASSUME NEW i \in AccessIds, ExpireAccess(i)
      PROVE  AccountsInv'
  <2>1. SessionsKept /\ SessionsInv'
    BY <1>0, <1>5 DEF ExpireAccess, SessionsKept, SessionsInv, redis
  <2> QED
    BY <1>0, <1>5, <2>1, OutsideStep DEF ExpireAccess, TypeOK, redis
<1>6. CASE Fsync
  <2>1. SessionsKept /\ SessionsInv'
    BY <1>0, <1>6 DEF Fsync, SessionsKept, SessionsInv, tokens
  <2> QED
    BY <1>0, <1>6, <2>1, OutsideStep DEF Fsync, TypeOK, tokens
<1>7. CASE RedisCrash
  <2>1. SessionsKept /\ SessionsInv'
    BY <1>0, <1>7 DEF RedisCrash, SessionsKept, SessionsInv, tokens
  <2> QED
    BY <1>0, <1>7, <2>1, FaultType, OutsideStep DEF RedisCrash, TypeOK, tokens
<1>8. CASE ProcessExit
  <2>1. SessionsKept /\ SessionsInv'
    BY <1>0, <1>8 DEF ProcessExit, SessionsKept, SessionsInv, redis, tokens, RequestInv, Idle
  <2> QED
    BY <1>0, <1>8, <2>1, FaultType, OutsideStep DEF ProcessExit, TypeOK, redis, tokens
<1> QED
  BY <1>1, <1>2, <1>3, <1>4, <1>5, <1>6, <1>7, <1>8

LEMMA AccountsStep ==
  ASSUME AccountsInv, [Next]_vars
  PROVE  AccountsInv'
<1>1. ASSUME NEW r \in Requests, AuthStep(r) \/ UserStep(r)
      PROVE  AccountsInv'
  <2>1. CASE AuthStep(r)
    BY <2>1, LookupSteps, TransactionStep, SessionSteps, RefreshSteps DEF AuthStep
  <2>2. CASE Respond(r)
    BY <2>2, EndingStep DEF Respond, AccountsInv, TypeOK, tokens
  <2>3. CASE UserStep(r) /\ ~Respond(r)
    BY <2>3, UserWrites DEF UserStep
  <2> QED
    BY <1>1, <2>1, <2>2, <2>3
<1>2. CASE OrganizationsController
  BY <1>2, OrganizationStep DEF OrganizationsController
<1>4. CASE AuthController
  BY <1>4, LookupSteps, SessionSteps, RefreshSteps, OutsideSteps DEF AuthController
<1>5. CASE UserController
  BY <1>5, UserDecisions DEF UserController
<1>3. CASE UNCHANGED vars
  <2>1. SessionsKept /\ SessionsInv'
    BY <1>3 DEF AccountsInv, SessionsKept, SessionsInv, vars
  <2> QED
    BY <1>3, <2>1, OutsideStep DEF AccountsInv, TypeOK, vars, db
<1> QED
  BY <1>1, <1>2, <1>3, <1>4, <1>5, OutsideSteps DEF Next

LEMMA AccountsInvariant == Spec => []AccountsInv
<1>1. Init => AccountsInv
  BY AccountsInit
<1>2. AccountsInv /\ [Next]_vars => AccountsInv'
  BY AccountsStep
<1> QED
  BY <1>1, <1>2, PTL DEF Spec

-----------------------------------------------------------------------------
(***************************************************************************)
(* The way of a payload: from the row of a user to a request, from a request *)
(* to an access token.  What a step may do on it, for every step; both        *)
(* theorems about access tokens rest on it.                                  *)
(***************************************************************************)

Signing(x) == request[x].pc \in {"session", "exists", "sign"}

\* Rows stay, tell the same payload, and once deleted do not change.
RowsFlow ==
  \A u \in UserIds :
    users[u] # NoRow =>
      /\ users'[u] # NoRow
      /\ PayloadOf(u)' = PayloadOf(u)
      /\ users[u].deleted => users'[u] = users[u]

\* A request that may sign keeps its payload or has just read it from the row
\* of a live user.
RequestsFlow ==
  \A x \in Requests :
    Signing(x)' =>
      \/ Signing(x) /\ request'[x].payload = request[x].payload
      \/ \E u \in UserIds : Live(u)' /\ request'[x].payload = PayloadOf(u)'

\* An access token stays, runs out, or is the last step of a request.
TokensFlow ==
  \A i \in AccessIds :
    \/ accessTokens'[i] \in {accessTokens[i], NoRow}
    \/ \E x \in Requests :
         Signing(x) /\ ~Signing(x)' /\ accessTokens'[i] = request[x].payload

PayloadsFlow == RowsFlow /\ RequestsFlow /\ TokensFlow

\* Neither rows nor tokens change, and no request begins to sign.
LEMMA NobodySigns ==
  ASSUME UNCHANGED <<users, accessTokens>>,
         \A x \in Requests : request'[x] = request[x] \/ ~Signing(x)'
  PROVE  PayloadsFlow
BY DEF PayloadsFlow, RowsFlow, RequestsFlow, TokensFlow, Signing, PayloadOf

\* A request goes on to its end, or to a state before it signs.
LEMMA RequestMovesOn ==
  ASSUME TypeOK, NEW r \in Requests,
         \/ Goto(r, Idle)
         \/ \E status \in {"409", "500", "503"} : Answer(r, status)
         \/ request[r].pc = "name" /\ request' = [request EXCEPT ![r].pc = "transaction"]
         \/ \E s \in RequestState :
              Goto(r, s) /\ s.pc \in {"name", "insertUser", "deleteUser"}
  PROVE  /\ \A x \in Requests : request'[x] = request[x] \/ ~Signing(x)'
         /\ ~Signing(r)'
BY IdleType, AnswerType, PcType, GotoType DEF Signing

\* The steps that only answer, look up or write elsewhere.
LEMMA QuietFlow ==
  ASSUME AccountsInv, NEW r \in Requests,
         \/ \E email \in Emails, name \in Names : Register(r, email, name)
         \/ RegisterName(r)
         \/ \E tid \in TokenIds : SetSessionFailed(r, tid)
         \/ ExistsFailed(r)
         \/ Respond(r)
  PROVE  PayloadsFlow
<1>0. TypeOK
  BY DEF AccountsInv
<1>1. UNCHANGED <<users, accessTokens>>
  BY DEF Register, RegisterName, SetSessionFailed, ExistsFailed, Respond, db, tokens
<1>2. ASSUME NEW email \in Emails, NEW name \in Names, Register(r, email, name)
      PROVE  \A x \in Requests : request'[x] = request[x] \/ ~Signing(x)'
  <2> DEFINE s == [pc |-> "name", email |-> email, name |-> name]
  <2>1. s \in RequestState /\ s.pc = "name"
    BY DEF RequestState, Registering
  <2>2. Answer(r, "409") \/ Goto(r, s)
    BY <1>2 DEF Register
  <2> HIDE DEF s
  <2> QED
    BY <1>0, <2>1, <2>2, RequestMovesOn
<1>3. CASE ~ \E email \in Emails, name \in Names : Register(r, email, name)
  BY <1>0, <1>1, <1>3, RequestMovesOn, NobodySigns
     DEF RegisterName, SetSessionFailed, ExistsFailed, Respond
<1> QED
  BY <1>1, <1>2, <1>3, NobodySigns

\* login() and refresh(): the payload is read from the row of a live user.
LEMMA PayloadRead ==
  ASSUME AccountsInv, NEW r \in Requests,
         \/ \E u \in UserIds : Login(r, u)
         \/ \E token \in RefreshTokenPayload : Refresh(r, token)
  PROVE  PayloadsFlow
<1>1. PICK u \in UserIds, s \in RequestState :
        /\ Live(u)
        /\ Goto(r, s)
        /\ s.payload = PayloadOf(u)
        /\ UNCHANGED <<users, accessTokens>>
  <2>1. ASSUME NEW u \in UserIds, Login(r, u)
        PROVE  \E s \in RequestState :
                 /\ Live(u)
                 /\ Goto(r, s)
                 /\ s.payload = PayloadOf(u)
                 /\ UNCHANGED <<users, accessTokens>>
    <3> DEFINE s == [pc |-> "session", payload |-> PayloadOf(u)]
    <3>1. s \in RequestState
      BY <2>1, PayloadType DEF AccountsInv, Login, Live, RequestState, OpeningSession
    <3> QED
      BY <2>1, <3>1 DEF Login, db, tokens
  <2>2. ASSUME NEW token \in RefreshTokenPayload, Refresh(r, token)
        PROVE  \E s \in RequestState :
                 /\ Live(token.sub)
                 /\ Goto(r, s)
                 /\ s.payload = PayloadOf(token.sub)
                 /\ UNCHANGED <<users, accessTokens>>
    <3> DEFINE s == [pc |-> "exists", token |-> token,
                     payload |-> PayloadOf(token.sub),
                     loggedOut |-> token \in loggedOut]
    <3>1. token.sub \in UserIds /\ users[token.sub] # NoRow
      BY <2>2 DEF Refresh, Live, RefreshTokenPayload
    <3>2. s \in RequestState
      BY <3>1, PayloadType DEF AccountsInv, RequestState, Refreshing
    <3> QED
      BY <2>2, <3>2 DEF Refresh, db, tokens
  <2>3. \A token \in RefreshTokenPayload : token.sub \in UserIds
    BY DEF RefreshTokenPayload
  <2> QED
    BY <2>1, <2>2, <2>3
<1>2. /\ request'[r] = s
      /\ \A x \in Requests \ {r} : request'[x] = request[x]
  BY <1>1, GotoType DEF AccountsInv
<1>3. Live(u)' /\ PayloadOf(u)' = PayloadOf(u)
  BY <1>1 DEF Live, PayloadOf
<1>4. RequestsFlow
  BY <1>1, <1>2, <1>3 DEF RequestsFlow, Signing
<1> QED
  BY <1>1, <1>4 DEF PayloadsFlow, RowsFlow, TokensFlow, PayloadOf

\* register(): the payload is that of the row the transaction has written.
LEMMA TransactionFlow ==
  ASSUME AccountsInv, NEW r \in Requests, NEW u \in UserIds, NEW o \in OrgIds,
         RegisterTransaction(r, u, o)
  PROVE  PayloadsFlow
<1> DEFINE user == NewUser(request[r].email, "owner", o)
           s    == [pc |-> "session",
                    payload |-> [sub |-> u, role |-> "owner", organizationId |-> o]]
<1>0. /\ TypeOK
      /\ UNCHANGED accessTokens
      /\ request[r].email \in Emails
  BY RequestSort DEF AccountsInv, RegisterTransaction, Registering, tokens
<1>1. CASE EmailTaken(request[r].email)
  BY <1>0, <1>1, RequestMovesOn, NobodySigns DEF RegisterTransaction, db
<1>2. CASE ~EmailTaken(request[r].email)
  <2>1. /\ users[u] = NoRow
        /\ users' = [users EXCEPT ![u] = user]
        /\ Goto(r, s)
    BY <1>2 DEF RegisterTransaction
  <2>2. /\ user \in User
        /\ user.role = "owner" /\ user.organizationId = o /\ ~user.deleted
    BY <1>0 DEF NewUser, User, UserRole
  <2>3. s \in RequestState
    BY DEF RequestState, OpeningSession, AccessTokenPayload, UserRole
  <2>4. /\ request'[r] = s
        /\ \A x \in Requests \ {r} : request'[x] = request[x]
    BY <1>0, <2>1, <2>3, GotoType
  <2> HIDE DEF user
  <2>5. /\ users'[u] = user
        /\ user # NoRow
        /\ \A v \in UserIds \ {u} : users'[v] = users[v]
    BY <1>0, <2>1, <2>2, NoRowIsNoUser DEF TypeOK
  <2>6. Live(u)' /\ request'[r].payload = PayloadOf(u)'
    BY <2>2, <2>4, <2>5 DEF Live, PayloadOf
  <2>7. RequestsFlow
    BY <2>4, <2>6 DEF RequestsFlow, Signing
  <2>8. RowsFlow
    BY <2>1, <2>5 DEF RowsFlow, PayloadOf
  <2> QED
    BY <1>0, <2>7, <2>8 DEF PayloadsFlow, TokensFlow
<1> QED
  BY <1>1, <1>2

\* refresh() after EXISTS, and the access tokens that are handed out.
LEMMA SigningFlow ==
  ASSUME AccountsInv, NEW r \in Requests,
         \/ Exists(r)
         \/ \E tid \in TokenIds, i \in AccessIds : SetSession(r, tid, i)
         \/ \E i \in AccessIds : Sign(r, i)
  PROVE  PayloadsFlow
<1>0. TypeOK
  BY DEF AccountsInv
<1>1. CASE Exists(r)
  <2>1. UNCHANGED <<users, accessTokens>> /\ request[r].pc = "exists"
    BY <1>1 DEF Exists, db, tokens
  <2>2. CASE Goto(r, Idle)
    BY <1>0, <2>1, <2>2, RequestMovesOn, NobodySigns
  <2>3. CASE request' = [request EXCEPT ![r].pc = "sign"]
    <3>1. request[r] \in Refreshing
      BY <1>0, <2>1, RequestSort
    <3>2. /\ request'[r] = [request[r] EXCEPT !.pc = "sign"]
          /\ \A x \in Requests \ {r} : request'[x] = request[x]
      BY <1>0, <2>3 DEF TypeOK
    <3>3. request'[r].payload = request[r].payload
      BY <3>1, <3>2 DEF Refreshing
    <3>4. RequestsFlow
      BY <2>1, <3>2, <3>3 DEF RequestsFlow, Signing
    <3> QED
      BY <2>1, <3>4 DEF PayloadsFlow, RowsFlow, TokensFlow, PayloadOf
  <2> QED
    BY <1>1, <2>2, <2>3 DEF Exists
<1>2. ASSUME NEW i \in AccessIds, HandOut(i, request[r].payload), Goto(r, Idle),
             Signing(r), UNCHANGED users
      PROVE  PayloadsFlow
  <2>1. /\ \A x \in Requests : request'[x] = request[x] \/ ~Signing(x)'
        /\ ~Signing(r)'
    BY <1>0, <1>2, RequestMovesOn
  <2>2. TokensFlow
    BY <1>0, <1>2, <2>1 DEF TokensFlow, HandOut, TypeOK
  <2>3. RowsFlow /\ RequestsFlow
    BY <1>2, <2>1 DEF RowsFlow, RequestsFlow, Signing, PayloadOf
  <2> QED
    BY <2>2, <2>3 DEF PayloadsFlow
<1>3. ASSUME NEW tid \in TokenIds, NEW i \in AccessIds, SetSession(r, tid, i)
      PROVE  PayloadsFlow
  BY <1>2, <1>3 DEF SetSession, Signing, db
<1>4. ASSUME NEW i \in AccessIds, Sign(r, i)
      PROVE  PayloadsFlow
  BY <1>2, <1>4 DEF Sign, Signing, db
<1> QED
  BY <1>1, <1>3, <1>4

\* The writes of user.service.ts.
LEMMA UserRowFlow ==
  ASSUME AccountsInv, NEW r \in Requests,
         \/ \E u \in UserIds : InsertUser(r, u)
         \/ SoftDeleteUser(r)
  PROVE  PayloadsFlow
<1>0. TypeOK /\ RequestInv(r)
  BY DEF AccountsInv
<1>1. /\ UNCHANGED accessTokens
      /\ \A x \in Requests : request'[x] = request[x] \/ ~Signing(x)'
  <2>1. UNCHANGED accessTokens
    BY DEF InsertUser, SoftDeleteUser, tokens
  <2>2. Goto(r, Idle) \/ Answer(r, "500")
    BY DEF InsertUser, SoftDeleteUser
  <2> QED
    BY <1>0, <2>1, <2>2, RequestMovesOn
<1>2. RowsFlow
  <2>1. ASSUME NEW u \in UserIds, InsertUser(r, u)
        PROVE  RowsFlow
    BY <1>0, <2>1 DEF InsertUser, RowsFlow, PayloadOf, TypeOK
  <2>2. CASE SoftDeleteUser(r)
    <3> DEFINE u == request[r].id
    <3>1. u \in UserIds /\ users[u] \in User
      BY <1>0, <2>2, RequestSort, NoRowIsNoUser DEF SoftDeleteUser, RequestInv, DeletingUser
    <3>2. users' \in {users, [users EXCEPT ![u].deleted = TRUE]}
      BY <2>2 DEF SoftDeleteUser
    <3> HIDE DEF u
    <3>3. users'[u] \in {users[u], [users[u] EXCEPT !.deleted = TRUE]}
      BY <1>0, <3>1, <3>2 DEF TypeOK
    <3>4. \A v \in UserIds \ {u} : users'[v] = users[v]
      BY <1>0, <3>1, <3>2 DEF TypeOK
    <3>5. users[u].deleted => [users[u] EXCEPT !.deleted = TRUE] = users[u]
      BY <3>1 DEF User
    <3>6. /\ users'[u] \in User
          /\ users'[u].role = users[u].role
          /\ users'[u].organizationId = users[u].organizationId
      BY <3>1, <3>3 DEF User
    <3>7. users'[u] # NoRow
      BY <1>0, <3>1, <3>6, NoRowIsNoUser
    <3> QED
      BY <3>1, <3>3, <3>4, <3>5, <3>6, <3>7 DEF RowsFlow, PayloadOf
  <2> QED
    BY <2>1, <2>2
<1> QED
  BY <1>1, <1>2 DEF PayloadsFlow, RequestsFlow, TokensFlow, Signing

\* Decisions about users and organizations, logout, the clocks, Redis, the end
\* of the process.
LEMMA OtherFlow ==
  ASSUME AccountsInv,
         \/ UserController
         \/ OrganizationsController
         \/ \E t \in RefreshTokenPayload :
              Logout(t) \/ LogoutFailed(t) \/ ExpireRefresh(t) \/ ExpireSession(t)
         \/ \E i \in AccessIds : ExpireAccess(i)
         \/ Fsync
         \/ RedisCrash
         \/ ProcessExit
         \/ UNCHANGED vars
  PROVE  PayloadsFlow
<1>0. TypeOK
  BY DEF AccountsInv
<1>1. CASE UserController
  <2>1. PICK r \in Requests, actor \in AccessTokenPayload :
          \/ \E email \in Emails, role \in UserRole : CreateUser(r, actor, email, role)
          \/ \E u \in UserIds : DeleteUser(r, actor, u)
    BY <1>1 DEF UserController
  <2>2. actor.organizationId \in OrgIds
    BY DEF AccessTokenPayload
  <2>3. UNCHANGED <<users, accessTokens>>
    BY <2>1 DEF CreateUser, DeleteUser, db, tokens
  <2>4. ASSUME NEW email \in Emails, NEW role \in UserRole,
               CreateUser(r, actor, email, role)
        PROVE  \A x \in Requests : request'[x] = request[x] \/ ~Signing(x)'
    <3> DEFINE s == [pc |-> "insertUser", email |-> email, role |-> role,
                     organizationId |-> actor.organizationId]
    <3>1. s \in RequestState /\ s.pc = "insertUser"
      BY <2>2 DEF RequestState, CreatingUser
    <3>2. Answer(r, "409") \/ Goto(r, s)
      BY <2>4 DEF CreateUser
    <3> HIDE DEF s
    <3> QED
      BY <1>0, <3>1, <3>2, RequestMovesOn
  <2>5. ASSUME NEW u \in UserIds, DeleteUser(r, actor, u)
        PROVE  \A x \in Requests : request'[x] = request[x] \/ ~Signing(x)'
    <3> DEFINE s == [pc |-> "deleteUser", id |-> u,
                     organizationId |-> actor.organizationId]
    <3>1. s \in RequestState /\ s.pc = "deleteUser"
      BY <2>2 DEF RequestState, DeletingUser
    <3>2. Goto(r, s)
      BY <2>5 DEF DeleteUser
    <3> HIDE DEF s
    <3> QED
      BY <1>0, <3>1, <3>2, RequestMovesOn
  <2> QED
    BY <2>1, <2>3, <2>4, <2>5, NobodySigns
<1>2. ASSUME NEW i \in AccessIds, ExpireAccess(i)
      PROVE  PayloadsFlow
  BY <1>0, <1>2 DEF ExpireAccess, PayloadsFlow, RowsFlow, RequestsFlow, TokensFlow,
                    Signing, PayloadOf, TypeOK, db
<1>3. CASE ProcessExit
  BY <1>3, NobodySigns DEF ProcessExit, Signing, Idle, db, tokens
<1>4. CASE OrganizationsController
  BY <1>4, NobodySigns DEF OrganizationsController, UpdateOrganization, tokens
<1>5. ASSUME NEW t \in RefreshTokenPayload,
             Logout(t) \/ LogoutFailed(t) \/ ExpireRefresh(t) \/ ExpireSession(t)
      PROVE  PayloadsFlow
  BY <1>5, NobodySigns
     DEF Logout, LogoutFailed, ExpireRefresh, ExpireSession, db, tokens
<1>6. CASE Fsync \/ RedisCrash \/ UNCHANGED vars
  BY <1>6, NobodySigns DEF Fsync, RedisCrash, vars, db, tokens
<1> QED
  BY <1>1, <1>2, <1>3, <1>4, <1>5, <1>6

LEMMA PayloadsFlowAlways ==
  ASSUME AccountsInv, [Next]_vars
  PROVE  PayloadsFlow
<1>1. CASE AuthController
  BY <1>1, QuietFlow, PayloadRead, OtherFlow DEF AuthController
<1>2. ASSUME NEW r \in Requests, AuthStep(r)
      PROVE  PayloadsFlow
  BY <1>2, QuietFlow, TransactionFlow, SigningFlow DEF AuthStep
<1>3. ASSUME NEW r \in Requests, UserStep(r)
      PROVE  PayloadsFlow
  BY <1>3, QuietFlow, UserRowFlow DEF UserStep
<1> QED
  BY <1>1, <1>2, <1>3, OtherFlow DEF Next

\* A payload that some row tells.
Truthful(payload) ==
  \E u \in UserIds : users[u] # NoRow /\ payload = PayloadOf(u)

\* What access tokens and the requests before them carry is true of the rows.
AuthorityInv ==
  /\ \A i \in AccessIds : accessTokens[i] # NoRow => Truthful(accessTokens[i])
  /\ \A x \in Requests : Signing(x) => Truthful(request[x].payload)

LEMMA TruthStays ==
  ASSUME RowsFlow, NEW payload, Truthful(payload)
  PROVE  Truthful(payload)'
BY DEF RowsFlow, Truthful, PayloadOf

LEMMA AuthorityStep ==
  ASSUME AccountsInv, AuthorityInv, [Next]_vars
  PROVE  AuthorityInv'
<1>0. RowsFlow /\ RequestsFlow /\ TokensFlow
  BY PayloadsFlowAlways DEF PayloadsFlow
<1>1. ASSUME NEW x \in Requests, Signing(x), NEW payload,
             payload = request[x].payload
      PROVE  Truthful(payload)'
  BY <1>0, <1>1, TruthStays DEF AuthorityInv
<1>2. ASSUME NEW i \in AccessIds, accessTokens'[i] # NoRow
      PROVE  Truthful(accessTokens[i])'
  <2>1. CASE accessTokens'[i] = accessTokens[i]
    BY <1>0, <1>2, <2>1 DEF AuthorityInv, RowsFlow, Truthful, PayloadOf
  <2>2. CASE accessTokens'[i] # accessTokens[i]
    <3>1. PICK x \in Requests : Signing(x) /\ accessTokens'[i] = request[x].payload
      BY <1>0, <1>2, <2>2 DEF TokensFlow
    <3> QED
      BY <1>1, <3>1 DEF Truthful, PayloadOf
  <2> QED
    BY <2>1, <2>2
<1>3. ASSUME NEW x \in Requests, Signing(x)'
      PROVE  Truthful(request[x].payload)'
  <2>1. CASE Signing(x) /\ request'[x].payload = request[x].payload
    BY <1>1, <2>1 DEF Truthful, PayloadOf
  <2>2. CASE \E u \in UserIds : Live(u)' /\ request'[x].payload = PayloadOf(u)'
    BY <2>2 DEF Live, Truthful, PayloadOf
  <2> QED
    BY <1>0, <1>3, <2>1, <2>2 DEF RequestsFlow
<1> QED
  BY <1>2, <1>3 DEF AuthorityInv, Signing

\* The step that DeletedAccessRunsOut allows for a deleted user.
LEMMA DeletedStep ==
  ASSUME AccountsInv, [Next]_vars, NEW u \in UserIds,
         users[u] # NoRow, users[u].deleted
  PROVE  /\ users'[u] = users[u]
         /\ SignersFor(u)' \subseteq SignersFor(u)
         /\ Issued(u) => SignersFor(u)' # SignersFor(u)
<1>0. RowsFlow /\ RequestsFlow /\ TokensFlow
  BY PayloadsFlowAlways DEF PayloadsFlow
<1>1. users'[u] = users[u] /\ ~Live(u)'
  BY <1>0 DEF RowsFlow, Live
<1>2. ASSUME NEW x \in Requests, Signing(x)', request'[x].payload.sub = u
      PROVE  Signing(x) /\ request[x].payload.sub = u
  <2>1. ASSUME NEW v \in UserIds, Live(v)', request'[x].payload = PayloadOf(v)'
        PROVE  FALSE
    BY <1>1, <1>2, <2>1 DEF PayloadOf
  <2> QED
    BY <1>0, <1>2, <2>1 DEF RequestsFlow
<1>3. SignersFor(u)' \subseteq SignersFor(u)
  BY <1>2 DEF SignersFor, Signing
<1>4. ASSUME Issued(u)
      PROVE  SignersFor(u)' # SignersFor(u)
  <2>1. PICK i \in AccessIds : /\ accessTokens'[i] \notin {accessTokens[i], NoRow}
                               /\ accessTokens'[i].sub = u
    BY <1>4 DEF Issued
  <2>2. PICK x \in Requests :
          Signing(x) /\ ~Signing(x)' /\ accessTokens'[i] = request[x].payload
    BY <1>0, <2>1 DEF TokensFlow
  <2>3. x \in SignersFor(u) /\ x \notin SignersFor(u)'
    BY <2>1, <2>2 DEF SignersFor, Signing
  <2> QED
    BY <2>3
<1> QED
  BY <1>1, <1>3, <1>4

-----------------------------------------------------------------------------
(***************************************************************************)
(* The theorems.                                                           *)
(***************************************************************************)

\* The rows, sessions, tokens and requests of auth.service.ts and
\* user.service.ts are always of their types.
THEOREM TypeCorrect == Spec => []TypeOK
<1>1. AccountsInv => TypeOK
  BY DEF AccountsInv
<1> QED
  BY <1>1, AccountsInvariant, PTL

\* However many registrations, creations and deletions race or fail half-way,
\* every organization has its live owner and every owner an organization: the
\* one transaction of register() and the role map of users suffice.
THEOREM OwnersAlwaysStand == Spec => []OwnersStand
<1>1. AccountsInv => OwnersStand
  BY DEF AccountsInv
<1> QED
  BY <1>1, AccountsInvariant, PTL

\* Two live users never have one email, however many register() and create()
\* have passed their check before either writes.
THEOREM EmailsOfTheLiving == Spec => []LiveEmailsDiffer
<1>1. AccountsInv => LiveEmailsDiffer
  BY DEF AccountsInv
<1> QED
  BY <1>1, AccountsInvariant, PTL

\* After a logout that was answered with ok no refresh that begins later signs
\* an access token, until a crash of Redis loses writes.
THEOREM LogoutIsObeyed == Spec => []LogoutEndsSession
<1>1. AccountsInv => LogoutEndsSession
  BY DEF AccountsInv, RequestInv, LogoutEndsSession
<1> QED
  BY <1>1, AccountsInvariant, PTL

\* Role and organization in a valid access token are those of the row of its
\* user, so that the guards and services that trust the token decide as if they
\* had read the row: the reason why the other modules may give an actor one
\* fixed role and organization.
THEOREM TokensAreTrue == Spec => []TokensTellTheTruth
<1>1. Init => AuthorityInv
  BY DEF Init, AuthorityInv, Signing, Idle
<1>2. AccountsInv /\ AuthorityInv /\ [Next]_vars => AuthorityInv'
  BY AuthorityStep
<1>3. AuthorityInv => TokensTellTheTruth
  <2>1. ASSUME NEW payload, Truthful(payload)
        PROVE  users[payload.sub] # NoRow /\ payload = PayloadOf(payload.sub)
    BY <2>1 DEF Truthful, PayloadOf
  <2> QED
    BY <2>1 DEF AuthorityInv, TokensTellTheTruth
<1> QED
  BY <1>1, <1>2, <1>3, AccountsInvariant, PTL DEF Spec

\* A deleted user gets no more access tokens than there were requests under way
\* that could sign one when the row was deleted: no login() and no refresh()
\* that finds the row deleted goes on, and nothing revives the row.
THEOREM DeletedAccessIsUsedUp == Spec => DeletedAccessRunsOut
<1>1. AccountsInv /\ [Next]_vars =>
        [\A u \in UserIds :
           users[u] # NoRow /\ users[u].deleted =>
             /\ users'[u] = users[u]
             /\ SignersFor(u)' \subseteq SignersFor(u)
             /\ Issued(u) => SignersFor(u)' # SignersFor(u)]_vars
  BY DeletedStep
<1> QED
  BY <1>1, AccountsInvariant, PTL DEF Spec, DeletedAccessRunsOut
=============================================================================
