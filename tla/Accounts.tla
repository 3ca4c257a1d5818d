------------------------------ MODULE Accounts ------------------------------
(***************************************************************************)
(* Who exists and who may act: registration, login, refresh and logout of   *)
(* auth.service.ts, creation and deletion of users of user.service.ts and    *)
(* the renaming of an organization, over three stores: the tables users and  *)
(* organizations in Postgres, the refresh sessions in Redis, and the tokens  *)
(* that clients hold.  Every await of the code is a step of its own; the     *)
(* transaction of a registration is one step, its commit.                   *)
(*                                                                         *)
(* Passwords and signatures are taken as right: a wrong one is a request     *)
(* without effect, and so is a token whose time has run out.                *)
(***************************************************************************)
EXTENDS Policy

CONSTANTS
  UserIds, OrgIds,   \* bound: the rows that can be created
  Emails, Names,     \* no more emails than ids: ids are never short
  TokenIds,          \* bound: the refresh sessions that can be opened
  AccessIds,         \* bound: the access tokens valid at one time
  Requests,          \* concurrent requests
  MaxFaults          \* bound: failing Redis calls, crashes of Redis or the process

ASSUME BoundsAssumption == MaxFaults \in Nat

VARIABLES
  users,          \* users[u]: the row of u, or NoRow
  organizations,  \* organizations[o]: the row of o, or NoRow
  sessions,       \* the keys refresh:{sub}:{tid} in Redis
  durable,        \* the sessions that a crash of Redis falls back to
  refreshTokens,  \* the refresh tokens handed out that have not expired
  accessTokens,   \* accessTokens[i]: the payload of an unexpired token, or NoRow
  request,        \* the requests under way
  loggedOut,      \* history: the sessions whose logout was answered with ok
  faults,
  lost            \* whether a crash of Redis has lost unsynced writes

db     == <<users, organizations>>
redis  == <<sessions, durable, lost>>
tokens == <<refreshTokens, accessTokens, loggedOut>>
vars   == <<users, organizations, sessions, durable, refreshTokens,
            accessTokens, request, loggedOut, lost, faults>>

NoRow == [role |-> "none"]

User == [email : Emails, role : UserRole, organizationId : OrgIds,
         deleted : BOOLEAN]

Organization == [name : Names, ownerId : UserIds]

AccessTokenPayload == [sub : UserIds, role : UserRole, organizationId : OrgIds]

RefreshTokenPayload == [sub : UserIds, tid : TokenIds]

Idle == [pc |-> "idle"]

\* The requests under way, by handler and by what they wait for.
Registering == [pc : {"name", "transaction"}, email : Emails, name : Names]

OpeningSession == [pc : {"session"}, payload : AccessTokenPayload]

\* loggedOut: whether the session was logged out before the request began.
Refreshing == [pc : {"exists", "sign"}, token : RefreshTokenPayload,
               payload : AccessTokenPayload, loggedOut : BOOLEAN]

CreatingUser == [pc : {"insertUser"}, email : Emails, role : UserRole,
                 organizationId : OrgIds]

DeletingUser == [pc : {"deleteUser"}, id : UserIds, organizationId : OrgIds]

Answered == [pc : {"answer"}, status : {"409", "500", "503"}]

RequestState == {Idle} \cup Registering \cup OpeningSession \cup Refreshing
                  \cup CreatingUser \cup DeletingUser \cup Answered

TypeOK ==
  /\ users \in [UserIds -> User \cup {NoRow}]
  /\ organizations \in [OrgIds -> Organization \cup {NoRow}]
  /\ sessions \subseteq RefreshTokenPayload
  /\ durable \subseteq RefreshTokenPayload
  /\ refreshTokens \subseteq RefreshTokenPayload
  /\ accessTokens \in [AccessIds -> AccessTokenPayload \cup {NoRow}]
  /\ request \in [Requests -> RequestState]
  /\ loggedOut \subseteq RefreshTokenPayload
  /\ faults \in Nat
  /\ lost \in BOOLEAN

Init ==
  /\ users = [u \in UserIds |-> NoRow]
  /\ organizations = [o \in OrgIds |-> NoRow]
  /\ sessions = {}
  /\ durable = {}
  /\ refreshTokens = {}
  /\ accessTokens = [i \in AccessIds |-> NoRow]
  /\ request = [r \in Requests |-> Idle]
  /\ loggedOut = {}
  /\ faults = 0
  /\ lost = FALSE

Fault == faults < MaxFaults /\ faults' = faults + 1

Goto(r, s) == request' = [request EXCEPT ![r] = s]

Answer(r, status) == Goto(r, [pc |-> "answer", status |-> status])

-----------------------------------------------------------------------------
(***************************************************************************)
(* Rows, tokens and constraints.                                           *)
(***************************************************************************)

Live(u) == users[u] # NoRow /\ ~users[u].deleted

\* findOne({where: {email, deletedAt: IsNull()}})
FindsEmail(email) == \E u \in UserIds : Live(u) /\ users[u].email = email

FindsName(name) ==
  \E o \in OrgIds : organizations[o] # NoRow /\ organizations[o].name = name

\* Mutant: no constraint on emails, as there is none on names.
NoConstraint(email) == FALSE

\* The unique constraint on email counts the deleted users as well.
EmailTaken(email) ==
  \E u \in UserIds : users[u] # NoRow /\ users[u].email = email

PayloadOf(u) == [sub |-> u, role |-> users[u].role,
                 organizationId |-> users[u].organizationId]

NewUser(email, role, o) ==
  [email |-> email, role |-> role, organizationId |-> o, deleted |-> FALSE]

\* A caller shows an access token that has not expired.
Holds(actor) == \E i \in AccessIds : accessTokens[i] = actor

\* The response hands out an access token.
HandOut(i, payload) ==
  /\ accessTokens[i] = NoRow
  /\ accessTokens' = [accessTokens EXCEPT ![i] = payload]

-----------------------------------------------------------------------------
(***************************************************************************)
(* register()                                                              *)
(***************************************************************************)

Register(r, email, name) ==
  /\ request[r] = Idle
  /\ IF FindsEmail(email)
       THEN Answer(r, "409")
       ELSE Goto(r, [pc |-> "name", email |-> email, name |-> name])
  /\ UNCHANGED <<db, redis, tokens, faults>>

RegisterName(r) ==
  /\ request[r].pc = "name"
  /\ IF FindsName(request[r].name)
       THEN Answer(r, "409")
       ELSE request' = [request EXCEPT ![r].pc = "transaction"]
  /\ UNCHANGED <<db, redis, tokens, faults>>

\* Mutant: the three writes are not one transaction; what precedes the one
\* that fails stays.
WriteWithoutTransaction(r, u, o) ==
  LET email == request[r].email
      name  == request[r].name
  IN  /\ request[r].pc = "transaction"
      /\ organizations[o] = NoRow
      /\ organizations' = [organizations EXCEPT ![o] = [name |-> name, ownerId |-> u]]
      /\ IF EmailTaken(email)
           THEN Answer(r, "500") /\ UNCHANGED users
           ELSE /\ users[u] = NoRow
                /\ users' = [users EXCEPT ![u] = NewUser(email, "owner", o)]
                /\ Goto(r, [pc |-> "session",
                            payload |-> [sub |-> u, role |-> "owner",
                                         organizationId |-> o]])
      /\ UNCHANGED <<redis, tokens, faults>>

\* Organization, user and owner id are written together or, when the email
\* violates the constraint, not at all; that error is not caught.
RegisterTransaction(r, u, o) ==
  LET email == request[r].email
      name  == request[r].name
  IN  /\ request[r].pc = "transaction"
      /\ IF EmailTaken(email)
           THEN Answer(r, "500") /\ UNCHANGED db
           ELSE /\ users[u] = NoRow
                /\ organizations[o] = NoRow
                /\ organizations' =
                     [organizations EXCEPT ![o] = [name |-> name, ownerId |-> u]]
                /\ users' = [users EXCEPT ![u] = NewUser(email, "owner", o)]
                /\ Goto(r, [pc |-> "session",
                            payload |-> [sub |-> u, role |-> "owner",
                                         organizationId |-> o]])
      /\ UNCHANGED <<redis, tokens, faults>>

-----------------------------------------------------------------------------
(***************************************************************************)
(* login(), and the end it shares with register(): the SET of the session.  *)
(***************************************************************************)

Login(r, u) ==
  /\ request[r] = Idle
  /\ Live(u)
  /\ Goto(r, [pc |-> "session", payload |-> PayloadOf(u)])
  /\ UNCHANGED <<db, redis, tokens, faults>>

\* crypto.randomUUID() returns what no session or token under way has.
FreshTid(tid) ==
  /\ \A t \in sessions \cup durable \cup refreshTokens : t.tid # tid
  /\ \A r \in Requests :
       request[r].pc \in {"exists", "sign"} => request[r].token.tid # tid

SetSession(r, tid, i) ==
  LET token == [sub |-> request[r].payload.sub, tid |-> tid]
  IN  /\ request[r].pc = "session"
      /\ FreshTid(tid)
      /\ sessions' = sessions \cup {token}
      /\ refreshTokens' = refreshTokens \cup {token}
      /\ HandOut(i, request[r].payload)
      /\ Goto(r, Idle)
      /\ UNCHANGED <<db, durable, loggedOut, faults, lost>>

\* The SET fails, or its reply is lost: the caller gets no token.
SetSessionFailed(r, tid) ==
  LET token == [sub |-> request[r].payload.sub, tid |-> tid]
  IN  /\ request[r].pc = "session"
      /\ FreshTid(tid)
      /\ Fault
      /\ sessions' \in {sessions, sessions \cup {token}}
      /\ Answer(r, "503")
      /\ UNCHANGED <<db, durable, tokens, lost>>

-----------------------------------------------------------------------------
(***************************************************************************)
(* refresh() and logout()                                                  *)
(***************************************************************************)

\* Mutant: the user of the token is not asked for.
RefreshForAnybody(r, token) ==
  /\ request[r] = Idle
  /\ token \in refreshTokens
  /\ Goto(r, [pc |-> "exists", token |-> token, payload |-> PayloadOf(token.sub),
              loggedOut |-> token \in loggedOut])
  /\ UNCHANGED <<db, redis, tokens, faults>>

Refresh(r, token) ==
  /\ request[r] = Idle
  /\ token \in refreshTokens
  /\ Live(token.sub)
  /\ Goto(r, [pc |-> "exists", token |-> token, payload |-> PayloadOf(token.sub),
              loggedOut |-> token \in loggedOut])
  /\ UNCHANGED <<db, redis, tokens, faults>>

Exists(r) ==
  /\ request[r].pc = "exists"
  /\ IF request[r].token \in sessions
       THEN request' = [request EXCEPT ![r].pc = "sign"]
       ELSE Goto(r, Idle)
  /\ UNCHANGED <<db, redis, tokens, faults>>

ExistsFailed(r) ==
  /\ request[r].pc = "exists"
  /\ Fault
  /\ Answer(r, "503")
  /\ UNCHANGED <<db, redis, tokens>>

\* Mutant: the access token is signed with the payload of the refresh token.
SignRefreshPayload(r, i) ==
  /\ request[r].pc = "sign"
  /\ HandOut(i, request[r].token)
  /\ Goto(r, Idle)
  /\ UNCHANGED <<db, redis, refreshTokens, loggedOut, faults>>

Sign(r, i) ==
  /\ request[r].pc = "sign"
  /\ HandOut(i, request[r].payload)
  /\ Goto(r, Idle)
  /\ UNCHANGED <<db, redis, refreshTokens, loggedOut, faults>>

\* DEL of the session, answered with ok.
Logout(token) ==
  /\ token \in refreshTokens
  /\ sessions' = sessions \ {token}
  /\ loggedOut' = loggedOut \cup {token}
  /\ UNCHANGED <<db, durable, refreshTokens, accessTokens, request, faults, lost>>

\* Mutant: a failure of the DEL is swallowed and answered with ok.
LogoutAnyway(token) ==
  /\ token \in refreshTokens
  /\ Fault
  /\ sessions' \in {sessions, sessions \ {token}}
  /\ loggedOut' = loggedOut \cup {token}
  /\ UNCHANGED <<db, durable, refreshTokens, accessTokens, request, lost>>

\* The DEL fails, or its reply is lost: 503.
LogoutFailed(token) ==
  /\ token \in refreshTokens
  /\ Fault
  /\ sessions' \in {sessions, sessions \ {token}}
  /\ UNCHANGED <<db, durable, tokens, request, lost>>

-----------------------------------------------------------------------------
(***************************************************************************)
(* Users and organizations.                                                *)
(***************************************************************************)

CreateUser(r, actor, email, role) ==
  /\ request[r] = Idle
  /\ Holds(actor)
  /\ role \in AllowedUserRoles[actor.role]
  /\ IF FindsEmail(email)
       THEN Answer(r, "409")
       ELSE Goto(r, [pc |-> "insertUser", email |-> email, role |-> role,
                     organizationId |-> actor.organizationId])
  /\ UNCHANGED <<db, redis, tokens, faults>>

InsertUser(r, u) ==
  LET email == request[r].email
  IN  /\ request[r].pc = "insertUser"
      /\ IF EmailTaken(email)
           THEN Answer(r, "500") /\ UNCHANGED users
           ELSE /\ users[u] = NoRow
                /\ users' = [users EXCEPT ![u] =
                     NewUser(email, request[r].role, request[r].organizationId)]
                /\ Goto(r, Idle)
      /\ UNCHANGED <<organizations, redis, tokens, faults>>

DeleteUser(r, actor, u) ==
  /\ request[r] = Idle
  /\ Holds(actor)
  /\ Live(u)
  /\ users[u].organizationId = actor.organizationId
  /\ AllowedToDeleteUser(actor, PayloadOf(u))
  /\ Goto(r, [pc |-> "deleteUser", id |-> u,
              organizationId |-> actor.organizationId])
  /\ UNCHANGED <<db, redis, tokens, faults>>

\* Mutant: the deletion takes the role away as well.
SoftDeleteAndDemote(r) ==
  LET u == request[r].id
  IN  /\ request[r].pc = "deleteUser"
      /\ users' = [users EXCEPT ![u].deleted = TRUE, ![u].role = "employee"]
      /\ Goto(r, Idle)
      /\ UNCHANGED <<organizations, redis, tokens, faults>>

\* UPDATE ... SET deleted_at WHERE id and organization_id.
SoftDeleteUser(r) ==
  LET u == request[r].id
  IN  /\ request[r].pc = "deleteUser"
      /\ users' = IF users[u].organizationId = request[r].organizationId
                    THEN [users EXCEPT ![u].deleted = TRUE]
                    ELSE users
      /\ Goto(r, Idle)
      /\ UNCHANGED <<organizations, redis, tokens, faults>>

\* updateMe() reads the row and writes back one column that no decision was
\* taken on; organizations are never deleted.
UpdateOrganization(actor, name) ==
  LET o == actor.organizationId
  IN  /\ Holds(actor)
      /\ organizations[o] # NoRow
      /\ organizations' = [organizations EXCEPT ![o].name = name]
      /\ UNCHANGED <<users, redis, tokens, request, faults>>

Respond(r) ==
  /\ request[r].pc = "answer"
  /\ Goto(r, Idle)
  /\ UNCHANGED <<db, redis, tokens, faults>>

-----------------------------------------------------------------------------
(***************************************************************************)
(* Expiry, Redis and the process.                                          *)
(***************************************************************************)

ExpireAccess(i) ==
  /\ accessTokens[i] # NoRow
  /\ accessTokens' = [accessTokens EXCEPT ![i] = NoRow]
  /\ UNCHANGED <<db, redis, refreshTokens, loggedOut, request, faults>>

ExpireSession(s) ==
  /\ s \in sessions
  /\ sessions' = sessions \ {s}
  /\ UNCHANGED <<db, durable, tokens, request, faults, lost>>

\* A refresh token whose time has run out no longer verifies.
ExpireRefresh(token) ==
  /\ token \in refreshTokens
  /\ refreshTokens' = refreshTokens \ {token}
  /\ loggedOut' = loggedOut \ {token}
  /\ UNCHANGED <<db, redis, accessTokens, request, faults>>

Fsync ==
  /\ durable' = sessions
  /\ UNCHANGED <<db, sessions, tokens, request, faults, lost>>

RedisCrash ==
  /\ Fault
  /\ lost' = TRUE
  /\ sessions' = durable
  /\ UNCHANGED <<db, durable, tokens, request>>

ProcessExit ==
  /\ Fault
  /\ request' = [r \in Requests |-> Idle]
  /\ UNCHANGED <<db, redis, tokens>>

-----------------------------------------------------------------------------
AuthController ==
  \/ \E r \in Requests :
       \/ \E email \in Emails, name \in Names : Register(r, email, name)
       \/ \E u \in UserIds : Login(r, u)
       \/ \E token \in RefreshTokenPayload : Refresh(r, token)
  \/ \E token \in RefreshTokenPayload : Logout(token) \/ LogoutFailed(token)

UserController ==
  \E r \in Requests, actor \in AccessTokenPayload :
    /\ Auth({"owner", "manager"}, actor)
    /\ \/ \E email \in Emails, role \in UserRole : CreateUser(r, actor, email, role)
       \/ \E u \in UserIds : DeleteUser(r, actor, u)

OrganizationsController ==
  \E actor \in AccessTokenPayload, name \in Names :
    Auth({"owner"}, actor) /\ UpdateOrganization(actor, name)

\* The steps of a handler after its first await.
AuthStep(r) ==
  \/ RegisterName(r)
  \/ \E u \in UserIds, o \in OrgIds : RegisterTransaction(r, u, o)
  \/ \E tid \in TokenIds, i \in AccessIds : SetSession(r, tid, i)
  \/ \E tid \in TokenIds : SetSessionFailed(r, tid)
  \/ Exists(r)
  \/ ExistsFailed(r)
  \/ \E i \in AccessIds : Sign(r, i)

UserStep(r) ==
  \/ \E u \in UserIds : InsertUser(r, u)
  \/ SoftDeleteUser(r)
  \/ Respond(r)

Next ==
  \/ AuthController
  \/ UserController
  \/ OrganizationsController
  \/ \E r \in Requests : AuthStep(r) \/ UserStep(r)
  \/ \E i \in AccessIds : ExpireAccess(i)
  \/ \E t \in RefreshTokenPayload : ExpireRefresh(t) \/ ExpireSession(t)
  \/ Fsync
  \/ RedisCrash
  \/ ProcessExit

Spec == Init /\ [][Next]_vars

\* Every access token is signed with an expiry.
FairSpec == Spec /\ \A i \in AccessIds : WF_vars(ExpireAccess(i))

-----------------------------------------------------------------------------
(***************************************************************************)
(* Properties.                                                             *)
(***************************************************************************)

\* An organization always has its owner, a live user of it, and no other:
\* whatever registrations fail half-way and whoever is created or deleted.
OwnersStand ==
  /\ \A o \in OrgIds :
       organizations[o] # NoRow =>
         LET u == organizations[o].ownerId
         IN  Live(u) /\ users[u].role = "owner" /\ users[u].organizationId = o
  /\ \A u \in UserIds :
       users[u].role = "owner" =>
         /\ organizations[users[u].organizationId] # NoRow
         /\ organizations[users[u].organizationId].ownerId = u

\* Two live users have different emails, so that a login is of one user,
\* although the handlers check before they write.
LiveEmailsDiffer ==
  \A u, v \in UserIds :
    Live(u) /\ Live(v) /\ users[u].email = users[v].email => u = v

\* A refresh that begins after the logout of its session was answered with ok
\* gets no access token; one that was under way may.  Only a crash of Redis
\* that loses the DEL is excluded.
LogoutEndsSession ==
  \A r \in Requests :
    request[r].pc = "sign" /\ ~lost => ~request[r].loggedOut

\* A deleted user cannot act for ever: users can be deleted only once, and from
\* some moment on no access token of a deleted user is valid, whatever refresh
\* tokens and sessions are left and whichever requests were under way.
DeletedLosesAccess ==
  <>[](\A i \in AccessIds : accessTokens[i] # NoRow => Live(accessTokens[i].sub))

\* No handler looks at the tables again to learn who its caller is: role and
\* organization are read from the access token.  They are those of the caller's
\* row in every token that is valid, however long ago the row was read for it.
TokensTellTheTruth ==
  \A i \in AccessIds :
    accessTokens[i] # NoRow =>
      /\ users[accessTokens[i].sub] # NoRow
      /\ accessTokens[i] = PayloadOf(accessTokens[i].sub)

\* The requests under way that may still end in an access token of u.
SignersFor(u) ==
  {r \in Requests : /\ request[r].pc \in {"session", "exists", "sign"}
                    /\ request[r].payload.sub = u}

\* The step hands out an access token of u.
Issued(u) ==
  \E i \in AccessIds :
    /\ accessTokens'[i] # accessTokens[i]
    /\ accessTokens'[i] # NoRow
    /\ accessTokens'[i].sub = u

\* What a deletion leaves of a user's access is used up: no request that could
\* sign for a deleted user begins, each new access token of the user ends one of
\* those that were under way, and the row never lives again.
DeletedAccessRunsOut ==
  [][\A u \in UserIds :
       users[u] # NoRow /\ users[u].deleted =>
         /\ users'[u] = users[u]
         /\ SignersFor(u)' \subseteq SignersFor(u)
         /\ Issued(u) => SignersFor(u)' # SignersFor(u)]_vars

-----------------------------------------------------------------------------
(***************************************************************************)
(* A statement of the documents that the code does not keep.                *)
(***************************************************************************)

\* README.md:226: a conflict of uniqueness is answered with 409.
ConflictsAnswered409 ==
  \A r \in Requests : request[r].pc = "answer" => request[r].status # "500"
=============================================================================
