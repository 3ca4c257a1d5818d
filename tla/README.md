# Verification of the team tasks API

A TLA+ development of the NestJS service in `src/`: organizations with owners,
managers and employees, their projects and tasks, a Redis cache of task lists,
a nightly cron, refresh sessions in Redis, and reports computed by a queue
worker and delivered over WebSocket. The code is the reference; line numbers of
the code are in the `map` of `PROJECT.json`.

## 1. Inventory

| component | state | operations | interacts with | hard behaviour |
|---|---|---|---|---|
| **Tasks** `src/src/modules/tasks/tasks.service.ts`, `tasks.policy.ts`, `tasks.entity.ts` | rows of `tasks` (Postgres) | create, list, getOne, update, softDelete, findAll | looks up projects and users; bumps the list cache; read by reports | every operation is several awaited database calls without a transaction or a lock: what was checked may not hold at the write |
| **Overdue cron** `crons/task-overdue.cron.service.ts` | none | one `UPDATE` at midnight | writes the rows requests are working on; does *not* bump the cache | races updates that read before and write after |
| **Tasks list cache** `tasks-list-cache.service.ts` | Redis: a version per organization, an entry per (organization, version, scope, filters and page) with a TTL | version GET, entry GET/SET, bump (INCR) | filled by list, bumped by mutations | fills race bumps; every call may fail (swallowed) or be resent; Redis may lose the last second; the process may die between commit and bump |
| **Users** `users/user.service.ts`, `user.policy.ts` | rows of `users` | create, list, getById, softDelete | checked by tasks, auth, reports | uniqueness of emails among live users is checked, among all users enforced |
| **Projects** `projects/projects.service.ts` | rows of `projects` | create, list, getOne, update, softDelete | checked by task creation | name check and write are apart; the partial unique index decides; update restores what was deleted meanwhile |
| **Organizations** `organizations/organizations.service.ts` | rows of `organizations` | getMe, updateMe | created by registration | names are checked on registration only, with no constraint behind |
| **Auth and sessions** `auth/auth.service.ts` | Redis `refresh:{user}:{token}` with TTL; tokens held by clients | register, login, refresh, logout, me | creates users and organizations in a transaction, then the session | session write after the commit; refresh reads user, then session; access tokens cannot be revoked |
| **Guards, controllers** `common/guards`, `auth/strategies/jwt.strategy.ts`, `*.controller.ts` | none | verify token, compare role, call the service | in front of every service | a token speaks of the user as it was when it was signed |
| **Reports** `reports/report.service.ts`, `processors/tasks-report-processor.ts` | BullMQ queue in Redis | createTaskReport, process | reads users and tasks one after another; emits events | at-least-once execution, at-most-once notification |
| **Events** `events/events.gateway.ts`, `events-emitter.service.ts` | socket.io rooms | handleConnection, emitToUser | used by reports | a client is connected before it has joined |
| **Startup, shutdown** `main.ts`, `common/utils/close-with-timeout.ts` | the process | signals, uncaught errors | ends every call under way | close races its timeout |
| Migrations, configuration, health, logging, Swagger, exception filter | none at run time | | | not modelled (section 8) |

What makes each correct:

* Tasks: a task, its project and its assignee are of one organization; status
  `overdue` means what it says; only staff reassign and set priorities;
  employees write their own tasks; what is deleted stays deleted; what is past
  due does not stay unmarked.
* Cache: who got the answer to a mutation and then lists sees it; nobody is
  served a list computed for another organization, employee, filter or page;
  staleness ends.
* Accounts: one live owner for each organization; the emails of live users
  differ; registration leaves all or nothing. Sessions: after a logout or the
  deletion of the user no new access token from that session.
* Projects: live projects of an organization have different names; a project is
  renamed only by who asks for it; every call, refusals included, is one step on a
  register of names; the pages of a list show every project once.
* Reports: a job that was accepted ends, as its last event said, and a requester
  that stays connected is told; a report counts its requester and live users whom
  its requester may ask about; its numbers are right at zero, one, odd and even
  counts.

Everything in this code that a test would hardly reach is listed under
`hazards` in `PROJECT.json` with the properties that cover it.

## 2. Modules

| module | what it is |
|---|---|
| `Policy` | roles, statuses, the policy tables and predicates; a guard that throws in the code is a predicate that is false |
| `TasksListCache` | list, bump, the cron as it touches the cache, Redis and its faults |
| `MCTasksListCache` + 5 cfg | instances |
| `TasksListCacheProofs` | theorems about `TasksListCache` |
| `TasksListPromise` | what GET /tasks promises, with no cache in sight; implemented by `TasksListCache` |
| `TasksListPromiseProofs` | the refinement, proved |
| `Tasks` | the rows of tasks, the requests that write them, the cron, deletion of users and projects |
| `MCTasks` + 3 cfg | instances |
| `TasksProofs` | theorems about `Tasks` |
| `Projects` | the rows of projects, the requests that write them, the unique index, the pages of a list |
| `MCProjects` + 1 cfg | an instance |
| `ProjectRegistry` | what the project endpoints promise: a register of names on which every call is one step; implemented by `Projects` |
| `ProjectsProofs` | theorems about `Projects`, the refinement among them |
| `Accounts` | users, organizations, refresh sessions and the tokens clients hold; register, login, refresh, logout, creation and deletion of users |
| `MCAccounts` + 2 cfg | instances |
| `AccountsProofs` | theorems about `Accounts` |
| `Reports` | the request for a report, the queue, the worker, rooms and events, end and restart of the process |
| `MCReports` + 1 cfg | an instance |
| `ReportPromise` | what a requester is promised, with no queue or worker in sight; implemented by `Reports` |
| `ReportsProofs` | theorems about `Reports`, the refinement among them |
| `ReportMath` | the figures of a report as functions of the tasks found |
| `ReportMathProofs` | theorems about `ReportMath` |

`Tasks` and `TasksListCache` are modelled apart because they meet in one place: a
mutation commits and then bumps. `Tasks` has every detail of the commit and
only the position of the bump; `TasksListCache` abstracts the rows to the
number of commits (`dbSeq`) and has every detail of the bump. `Reports` and
`Tasks` meet in the rows of users and tasks, `Projects` and `Tasks` in the
deletion and the return of a project; each has the other's writes as actions.

In every module the requests enter through an operator named after their
controller (`TasksController`, `ProjectsController`, `UserController`, ...), which asks
`Auth` of `Policy`, the `RolesGuard`, for the roles of the route and calls the
handler. GET routes appear where a property is about what they read.

### How `TasksListCache` corresponds to the code

Every `await` is a step. `reader[r]` is a call of `TasksService.list`: `List`
(the request arrives), `GetOrgListVersion` (line 133), `GetHit`/`GetMiss` (140),
`FindAndCount` (159), `Set` (174), `Respond`. Each Redis step has a variant
that fails, with what the `catch` of `tasks-list-cache.service.ts` makes of it,
and INCR and SET have one that is applied and sent again (`maxRetriesPerRequest:
1` in `redis.provider.ts`); resending a GET is the GET. `writer[w]` is a
mutation: `Commit`, then `BumpOrgListCache`. `HandleTaskOverdue` commits to any
set of organizations and leaves the version alone. `Expire` is the TTL;
`Fsync`, `RedisCrash` are `appendfsync everysec` in `docker-compose.yml`;
`ProcessExit` ends all calls (`main.ts`). `epoch` and the field `since` are
history: the commits at each bump, and the version when a request began.

Abstractions:

* an answer is its WHERE clause, its page and the number of commits its first
  SELECT saw; `findAndCount` sends a second SELECT for the total, later, so the
  number is a lower bound for the whole answer, which is what the properties
  compare;
* the 16 hex digits of SHA-1 in the key are free of collisions;
* `page` is the pair (currentPage, itemsPerPage); a filter is a member of a
  small set, `Undefined` when absent;
* keys are records; that the strings are as distinct as the records rests on
  UUIDs holding no colon.

### What `TasksListPromise` promises

`promised[o]` is the number of commits in *o* that the last bump told of. A request
notes it when it begins (`Ask`) and is answered for its own WHERE clause and page
from a database no older than that and no younger than the present one (`Answer`).
A mutation (`Mutate`) promises nothing before its bump (`Bump`). Two things excuse:
`Excuse`, the version could not be read, and `Break`, Redis lost bumps.

`TasksListCache` implements it (`KeepsPromise`) under the mapping at its end:
`promised` is the beginning of the epoch of the current version, `broken` is
`crashes > 0`, and a `list()` counts as answered from the moment its answer is
stored or found (`CallOf`). Keys, versions, entries, fills and their failures are
invisible: stutters.

### How `Projects` corresponds to the code

`request[r]` is a call of `create`, `update` or `softDelete` between two of its
awaits: `Create` (the name is looked up), `Insert`; `Update` (the row is found),
`Exists` (the name is looked up, if the body gives a new one), `Save`; `Delete`,
`SoftDelete`. A 409, from the lookup or from the index, is a state (`Conflict`, then
`Respond`): `ProjectRegistry` says when there may be one. `UniqueViolation` is the partial
unique index of `projects.entity.ts:18`. `SavedRow` is as in `Tasks`: a name the
body leaves out is not written, `deletedAt: null` of the snapshot is.

The pages are operators: `Orders` are the results of `ORDER BY created_at DESC`,
`Skip` and `Items` what `skip` and `take` cut out of them, `TotalPages` the ceiling.
They are read off every reachable state by `PagesShowEachOnce`.

### What `ProjectRegistry` promises

A register has an entry for each project, and a call takes effect on it in one
step at some moment between its request and its answer: `Register`, `Rename`
(which brings a retired project back, if it was asked for before), `Retire`.
`Refuse` needs another live project of the organization with that name at the
moment it happens. There are no lookups and no snapshots: the name that an update
without a name leaves is the one in the register when it takes effect.

`Projects` implements it (`KeepsRegister`): the rows are the register, and `Asked` is
the call that a request stands for. A lookup that finds nothing is a stutter; one
that finds the name is the refusal, as is a violation of the index.

### How `Tasks` corresponds to the code

`request[r]` is a call of `create`, `update` or `softDelete`, between two of its
database calls: `Create` (project found, input normalized), `CreateAssignee`
(assignee found or 404), `Insert`; `Update` (task found, policy), `UpdateAssignee`,
`Save`; `Delete`, `SoftDelete`; then `BumpAndRespond`. An error answer changes
no row: it is a guard, or a step back to `Idle`.

`SavedRow` is the point with the most reasoning behind it. `save({...task,
...dto})` writes the columns whose value is defined. The body is an instance of
`UpdateTaskDto`, whose class fields exist even when the body leaves them out
(`target` ES2023 in `tsconfig.json` makes them own properties holding
`undefined`), so in the spread they hide the snapshot and are not written. The
columns that the DTO lacks come from the snapshot: organization, project, and
`deletedAt: null`.

Abstractions: `save` loads the row, compares and updates, one step here;
TypeORM is outside of the repository. Titles and descriptions are left out.
Deleting a user is one step: role and organization, on which it decides, never
change. `RestoreProject` is an update of projects.service.ts that found the project
before it was deleted. Actors are the payloads of all users, deleted ones too, since an access
token is not revoked. A body with `null` for an optional field passes
`IsOptional` and fails at the NOT NULL column: an error answer, no change.

### How `Accounts` corresponds to the code

`request[r]` is a call of a handler between two of its awaits: `Register` (the
email is looked up), `RegisterName`, `RegisterTransaction`, then `SetSession`,
which `Login` shares; `Refresh` (the user is looked up), `Exists`, `Sign`;
`CreateUser`, `InsertUser`; `DeleteUser`, `SoftDeleteUser`. A 401, 403 or 404
changes nothing and is a guard, or a step back to `Idle`; 409, 500 and 503 are
states, as properties speak of them. `logout()` has one await and is one step.

* The three writes of the transaction are one step, its commit, which is where
  Postgres decides on the unique constraint on emails; that constraint counts
  deleted users, the lookups before it do not.
* `SetSessionFailed` and `LogoutFailed` are calls whose error or lost reply
  ends in 503; the write may have happened.
* `sessions` are the keys of Redis, `durable` what a crash of Redis returns to,
  `refreshTokens` what clients hold: a session may be left without a token (the
  SET succeeded, the reply was lost) and a token without its session.
* `accessTokens` are the tokens that have not expired. `Holds` is the whole
  check of `JwtStrategy.validate`: the user is not looked up.
* `loggedOut`, and the field of the same name in a refresh under way, are
  history: the logout was answered before the refresh began.
* `crypto.randomUUID()` returns an id nobody uses; one whose token and session
  have expired counts as new, which keeps the instances small.

Abstractions: passwords, hashes and signatures are right or the request has no
effect; `updateMe()` reads a row and writes back one column that no decision is
taken on, one step here; ids of users and organizations do not run out, since
every user needs an email of its own and there are no more emails than ids.

### How `Reports` corresponds to the code

`request[r]` is a call of `createTaskReport` that has judged the target and waits
for `queue.add` (`AddJob`, `AddFailed`). `job[j]` is the job in the queue, and,
for the properties, what became of it: the code removes it (`app.module.ts:71`).
`worker` is `process()` between two awaits: `Fetch` runs to the first one in
`getAssigneeIds`, `FindEmployees` and `FindManagers` are its selects, `FindTasks` is
`findAll` with the arithmetic after it, `EmitTaskReportDone` follows the delay and
returns; `EmitTaskReportFailed` is the `catch` and its `throw`. `Finish` is what
BullMQ makes of return and throw. The worker has one job at a time (the default of
`@Processor`) and gives each one attempt.

BullMQ is modelled from its contract: a worker may lose the lock of its job
(`LoseLock`), whoever finishes without the lock changes nothing, and a job that is
active without a lock waits again the first time and fails the second
(`Stall`).

`room` has the users with a socket that has joined: `HandleConnection` is the end
of the handler, after `join`. `EmitToUser` reaches who is there and leaves nothing
behind. `CloseWithTimeout` ends sockets, requests and worker; whether `close()`
came to an end (`closed`) or not (`hung`), `Exit` follows. `lastEvent`, `announced` and
`listening` are history.

The field `scope` of requests, jobs and the worker is history too: the users whom
`TS.md:366-372` lets the report count (`ReportsOn`, the table of roles there) and who
are not deleted (`Scope`), at the moment when the POST judged its target or, without
a target, when the worker took the job up. `ReportsStayInScope` compares with it
what `getAssigneeIds` and `findAll` came to, each with reads of its own.

Abstractions: a report is the set of users whose tasks it counts, so tasks are
their assignees, and `findAll`'s condition on the organization of tasks is one on
that of assignees (`TenantConsistent`). Accounts keep role and organization. Several
signals are one: each handler exits, and the first exit ends the others. Redis
loses nothing here; a job lost in a crash of Redis is listed under `hazards`.

### What `ReportPromise` promises

The requester sees a job that is accepted (`Accept`), announced (`Announce`) as done
or failed, at most twice and to who is in the room, and ended (`End`). Nothing is said of it after
it has completed or failed; only a run that a second stall overtook may still speak
of a job that is given up (`stalled`). A job ends as its last announcement said, and
not while a requester who stayed in the room has heard nothing. Queue, locks, stalls,
reads of the worker and the process are invisible; `Reports` implements it
(`KeepsPromise`) under the mapping at its end. The history variable `announced` counts
what was sent. Whom a report counts is no part of it: `ReportsStayInScope` says that.

### How `ReportMath` corresponds to the code

`TasksReport` is the loop over the tasks found (`tasks-report-processor.ts:133`) with the
assignments before and after it: each counter that the loop increments is the
number of tasks for which it does. `CalculateMedian` is the method of that name on
times that are sorted already, doubled to stay whole. `donePercent` is rounded down;
`avgCompletionTime` is left out.

## 3. Runs

| run | question | bounds, and why they are enough |
|---|---|---|
| `cache_fresh` | do fills that race bumps serve old data as new? | 2 readers, 2 writers, 1 organization, 1 query, 2 commits, 2 faults. A stale fill needs one reader, one commit and its bump; a second reader is served it; two writers give commits bumped in either order; two faults let a lost bump meet a resent one. Readers and writers are symmetric. |
| `cache_match` | is a list ever served to somebody it was not computed for? | owner, employee, foreign owner; four queries that differ in page, status and assignee; no commits, as they play no part. Entries live on between calls, so one reader at a time meets those of all earlier callers. |
| `cache_converge` | does staleness end? | 1 reader, 1 writer, 2 commits, 1 fault, 1 crash of Redis: lost bumps, the cron and a version that repeats after a crash. `KeepsPromise` is checked on the same instance: a fill that races the writer, the cron's commit, every fault and the crash are in it. |
| `cache_cron`, `cache_readerror` | the two statements of `TS.md` of section 6 | smallest instances with the counterexample |
| `tasks_safety` | do interleaved checks and writes keep the rows right, and are past-due tasks marked? | 1 task, 2 requests, 3 accounts (owner, employee, foreign owner), a project of each organization, 1 deletion of users and projects, 1 tick, due dates before and after it: all the races are between two requests, or a request and the cron, on one row. |
| `tasks_resurrect`, `tasks_ownership` | the two statements of section 6 about updates | 1 task, 2 requests |
| `accounts_safety` | who exists and who may act, over all interleavings | 2 users, 2 emails, 2 organizations, 1 name, 2 requests, 1 fault, one refresh session and one access token at a time. Two users are an owner and whom it creates, or two registrations of one email or one name; each race is between two requests. The one session id and the one token are used again after they end, so sessions and tokens of different users follow each other. |
| `projects_safety` | do lookups, index and saves keep names right, and do pages add up? | 3 projects, 2 names, 3 requests, pages of 1 to 3, a manager, an employee and a foreign owner. A name taken while an update waits needs two requests and a project each; the third brings a deletion in between. Pages: empty, full and half-full last ones. Projects, names and requests are symmetric. |
| `accounts_conflict` | the statement of section 6 about conflicts | the same without faults |
| `reports_safety` | is the report right, is it announced rightly, and does the job end? | owner, manager, employee of one organization, an employee of another, a task in each, 1 job, 1 request, a socket of the manager, 2 faults, 1 deletion. The worker has one job at a time, so jobs meet only in the order they are fetched; one job with two faults stalls twice, or stalls and then fails, or ends with a process that hangs after a lost lock. The manager is requester, target and somebody found by the worker. The one deletion comes before the POST, between the POST and the worker, or between its reads. |

Deadlock is checked in every run. Each property of a passing run comes with a
mutant in `PROJECT.json`, a plausible bug of the code that makes the run fail.

What the passing runs show:

* cache: `ReadYourWrites` and its inductive form `VersionTellsFreshness`;
  `ServedMatchesRequest`; `EventuallyFresh` and its safety half `StaleRunsOut` (only a
  commit makes staleness; entries, the file of Redis and fills under way only pass
  it on); `KeepsPromise`, the refinement of `TasksListPromise`;
* tasks: `TenantConsistent`; `OverdueOnlyWhenPastDue`; `ReassignedOnlyByStaff` (the
  assignee and the priority change only to what the body of the saving request
  names, so no update, of an employee or of staff, undoes a reassignment by writing
  back what it read); `ChangedOnlyByTenant` (a row is changed by its own organization, or marked by the
  cron, and never moves); `RestoredOnlyByOldUpdate` (what a deletion is worth, given
  the finding `tasks_resurrect`: no new update finds the task, its row is frozen, and
  each old update can bring it back once); `PastDueIsHandled`;
* projects: `LiveNamesDiffer`; `RenamedOnlyOnDemand`; `PagesShowEachOnce`;
  `KeepsRegister`, the refinement of `ProjectRegistry`, which also says that a 409
  comes only where a live project has the name;
* accounts: `OwnersStand`; `LiveEmailsDiffer`; `LogoutEndsSession`;
  `TokensTellTheTruth` (why a guard may believe the token's role and organization
  without a look at the row); `DeletedAccessRunsOut` (the number of tokens a deleted
  user can still get is that of the requests under way at the deletion);
  `DeletedLosesAccess`;
* reports: `ReportsStayInScope` (whom the worker finds was live when it took the job
  up, a target when the POST was judged; see section 6); `EndMatchesLastEvent`; `ListenersHear`; `JobsEnd`;
  `KeepsPromise`, the refinement of `ReportPromise`.

## 4. Fairness

* `EventuallyFresh` assumes `WF(Expire(k))` for each key: every entry is written
  with `EX`, and Redis removes, or no longer returns, an entry whose time has
  come. Nothing is assumed of requests, bumps or Redis calls; they may stop or
  fail at any time. An entry that is SET again and again gets a new life each
  time, and a new SELECT with it, except by a reader that read before the last
  commit and stores after it; there are finitely many of those.
* `PastDueIsHandled` assumes `WF(HandleTaskOverdue)`: the scheduler runs the job
  every midnight. Requests need not go on.
* `DeletedLosesAccess` assumes `WF(ExpireAccess(i))`: every access token is
  signed with `expiresIn`. Sessions and refresh tokens are not assumed to
  expire, and requests may stop anywhere or go on for ever: a token that is
  signed for a user deleted meanwhile is signed by a refresh (or login) that
  began before the deletion, and there are finitely many.
* `JobsEnd` assumes that the worker fetches and goes on (`WF(WorkerStep)`: every
  select ends, well or badly, and the delay is a timer), that BullMQ looks for
  stalled jobs (`WF(Stall(j))`, a timer of the worker), that a process which began
  to shut down exits (`WF(Exit)`: after `close()` or the timeout,
  `close-with-timeout.ts`), and that docker starts it again (`WF(Restart)`,
  `restart: unless-stopped`). Clients, requests and faults owe nothing.

## 5. Proofs

`TasksListCacheProofs` (TLAPS) proves for all constants that satisfy
`ActorsAssumption`, `QueriesAssumption`, `BoundsAssumption`:

* `TypeCorrect`: `Spec => []TypeOK`;
* `EntriesAsFreshAsTheirVersion`: `Spec => []VersionTellsFreshness`. The
  invariant is inductive together with `TypeOK`: epochs begin at growing
  database states, an entry under version *v* is at least as new as the bump to
  *v*, and so is what a call under way is about to store. `ReadYourWrites`
  alone is not inductive: nothing in it speaks of entries nobody has read yet,
  nor of answers not yet stored. It is qualified by `crashes = 0` because a
  crash of Redis takes the version back;
* `ReadsSeeBumpedWrites`: `Spec => []ReadYourWrites`, from the former: the
  version a call read is no older than the one at its beginning, and epochs are
  ordered;
* `AnswersMatchRequests`: `Spec => []ServedMatchesRequest`, by an invariant over
  the entries of the cache, *and* of the durable copy a crash returns to: an
  entry's answer is the one its key's organization, scope and hash determine.
  It holds with crashes;
* `StalenessRunsOut`: `Spec => StaleRunsOut`, also with crashes: whatever is in the cache
  after a step was there, was in the file of Redis, or was held by a call that had
  read it from the database, and the key a call stores under does not change. It
  is why finitely many expirations end staleness (`EventuallyFresh`).

`TasksListPromiseProofs` proves the refinement, `CacheKeepsPromise`: `Spec =>
KeepsPromise`. `VersionTellsFreshness` gives the lower end of what `Answer` allows and
`ServedMatchesRequest` the view; the upper end needs `PastInv`, which says that
entries, answers and epochs are never ahead of the database. Every action of the
cache is then one of the promise or a stutter, one lemma for each kind.

`TasksProofs` proves for all accounts, projects, bodies, tasks and requests:

* `TypeCorrect`: `Spec => []TypeOK`;
* `TasksStayInTheirTenant`: `Spec => []TenantConsistent`. The strengthening
  speaks of the requests too: a creation under way has a project of its actor's
  organization, and one past its check an assignee of it; an update that goes on
  to save has, if it reassigns, an assignee of the organization of its task;
  the snapshot it holds agrees with the row in the columns nobody changes;
* `OverdueIsEarned`: `Spec => OverdueOnlyWhenPastDue`: no request carries the
  status in its body past its guard, and the save writes no status it was not
  sent;
* `StaffReassigns`: `Spec => ReassignedOnlyByStaff`: a changed assignee or priority is the
  one in the body of the request that saves, which is one of staff. Between
  `assertCanUpdateTask` and the save lies a lookup; what is added (`StaffInv`) is that
  an employee's request which waits for either has neither of them in its body;
* `TasksAreTheTenants`: `Spec => ChangedOnlyByTenant`. `save()` names the row by its id
  and writes organization and project from the snapshot; the invariant has the
  snapshot agree with the row and with the actor until the save. `RowWritten`, which
  says what a step may do to a row, serves this and the next;
* `RestoredByOldUpdates`: `Spec => RestoredOnlyByOldUpdate`. The set `UpdatesOf(t)` of
  updates under way on a deleted task only shrinks, since `findOne` wants
  `deletedAt` null, and a save leaves it for good.

`ProjectsProofs` proves for any projects, names, requests and actors
(`ActorsAssumption`, `UndefinedAssumption`; pages also `FiniteAssumption`,
`PagesAssumption`):

* `TypeCorrect`: `Spec => []TypeOK`;
* `NamesOfTheLiving`: `Spec => []LiveNamesDiffer`. The lookups play no part: the
  index decides at both writes, also when a save makes a deleted row live again;
* `RenamedWhenAsked`: `Spec => RenamedOnlyOnDemand`;
* `ProjectsKeepRegister`: `Spec => KeepsRegister`, the refinement of `ProjectRegistry`,
  one lemma for each action. The steps that need the invariant are those on a row
  read earlier: an entry keeps its organization from the lookup to the save or the
  deletion, and the snapshot was not deleted;
* `PagesPartition`: `Spec => []PagesShowEachOnce`: an item at position *i* is on page
  *(i - 1) div size + 1* alone, and that page is one of `totalPages`.

`ReportMathProofs` proves `MedianIsCentral` (for every sorted sequence: no more than
half of the times below the median, no more than half above, both indices in
range) and `ReportAddsUp` (for every finite set of tasks: the counts by status and
by priority add up to the total, done and overdue tasks are apart, 0 to 100 percent).
These figures depend on no behaviour, so no run has them.

`AccountsProofs` proves, for any sets of ids, emails, names and requests and
any number of faults (`BoundsAssumption`):

* `TypeCorrect`: `Spec => []TypeOK`;
* `OwnersAlwaysStand`: `Spec => []OwnersStand`. What has to be added is what
  requests under way carry: no user about to be inserted is an owner, and no
  user about to be deleted is one, which follows from the role map at the check
  and lasts until the write because no step changes a role;
* `EmailsOfTheLiving`: `Spec => []LiveEmailsDiffer`, inductive as it stands
  because the constraint decides at the write, not the lookup before it;
* `LogoutIsObeyed`: `Spec => []LogoutEndsSession`. The strengthening says that
  the sessions logged out are gone while their tokens are held, that a refresh
  which began after the logout asks for a session that is not there, and that no
  SET brings it back, since new ids differ from every id held or asked for;
* `TokensAreTrue`: `Spec => []TokensTellTheTruth`. The same has to hold of what requests
  are about to sign (`AuthorityInv`): the payload taken from a row in one call and
  signed several calls later. It lasts because no step changes role or
  organization of a row and none removes one;
* `DeletedAccessIsUsedUp`: `Spec => DeletedAccessRunsOut`. Login and refresh look for a
  live user first, so the requests that could sign for a deleted one
  (`SignersFor`) only become fewer, and signing ends one. It is the safety part of
  `DeletedLosesAccess`: with tokens that expire, a finite number of them is the end.

`ReportsProofs` proves, for any accounts, tasks, jobs, requests and any number of
faults and deletions (`TypesAssumption`, `UndefinedAssumption`):

* `TypeCorrect`: `Spec => []TypeOK`;
* `ReportsOnlyInScope`: `Spec => []ReportsStayInScope`. The invariant has a target in
  the scope of its request and then of its job, and says of a worker without a
  target that whom it would find now (`ScopeOfRun`) is in the scope of its run, which
  lasts because users are only deleted, and that it asks for employees or managers
  only for a requester who may ask about them;
* `EndsAsTold`: `Spec => []EndMatchesLastEvent`: a worker that returned or threw
  has sent what goes with it, and one that holds the lock has the only active run;
* `ListenersAreTold`: `Spec => []ListenersHear`. Alone it is not inductive: a
  stalled job ends without an event. What makes it hold is that a job active
  without its worker, or stalled once and without its worker, has no listener left:
  its worker has spoken, or died and the sockets with it;
* `ReportsKeepPromise`: `Spec => KeepsPromise`, the refinement of `ReportPromise`. At most
  two announcements is not inductive: `SaidInv` compares them with the runs of
  `process()` that the job has had (`Runs`, at most one more than it has stalled),
  one less while a run has its announcement still to make.

Only model-checked: the liveness properties `EventuallyFresh`, `PastDueIsHandled`, `DeletedLosesAccess` and `JobsEnd`,
which TLAPS does not reach.

## 6. Where the code and its documents disagree

| run | statement | what the code does |
|---|---|---|
| `cache_cron` | `TS.md:295`: the version grows on any mutation of tasks | the cron (`task-overdue.cron.service.ts:18`) does not bump; lists keep the old status for up to the TTL. (`TS.md` 6.3 lists create, update and delete only.) |
| `cache_readerror` | `TS.md:329`: an error of a cache read leads to the database | a failed read of the version counts as version 0, and an entry of version 0 may be found and served (`tasks-list-cache.service.ts:75`) |
| `tasks_resurrect` | `TS.md:279`: tasks are soft-deleted | an update that found the task before the deletion writes `deleted_at` back to null (`tasks.service.ts:209`) |
| `tasks_ownership` | `TS.md:239`: an employee works only with its own tasks | the check reads the assignee, the write comes later and does not (`tasks.service.ts:209`, `:221`) |
| `accounts_conflict` | `README.md:226`: a conflict of uniqueness is answered with 409 | the lookup counts live users and comes before the hash, the constraint counts all users: a second registration or creation with an email fails at the insert with an error nobody catches, 500 (`user.service.ts:57`, `auth.service.ts:79`) |

Without a run: `TS.md:409` has the worker send the result after the job has ended;
the code sends it before `process()` returns (`tasks-report-processor.ts:165`), so a
job whose lock was lost is announced twice. `EndMatchesLastEvent` is what remains
true of the announcements.

`TS.md:366-372` has a report count the requester and active users (`deleted_at IS NULL`).
The worker selects such users itself, but takes a given target from the job
(`tasks-report-processor.ts:29-31`): one that is deleted after the POST found it
(`report.service.ts:29`) is counted. Likewise a user deleted between the worker's
selects of users and of tasks. `ReportsStayInScope` is what remains true: the target
was active at the POST, whom the worker finds when it took the job up.

`ProjectsService.update` restores a project deleted meanwhile (`projects.service.ts:143`) as
`TasksService.update` does a task; `Projects` has the step, the run for tasks shows
the pattern. Whether two organizations may have one name (`auth.service.ts:61`) and what
becomes of tasks of a deleted project no document says.

## 7. Plan

Done: `Policy`, `TasksListCache`, `TasksListPromise`, `Tasks`, `Projects`,
`ProjectRegistry`, `Accounts`, `Reports`, `ReportPromise`, `ReportMath`, and the proofs
of section 5: every invariant, action property and refinement that a passing run
checks is a theorem. What could follow:

1. The composition of `Tasks` and `TasksListCache`, where `dbSeq` is the history of
   the rows and a list is the rows it selected.
2. A crash of Redis under `Reports`, which loses jobs and sessions alike.
3. An abstract register of users and sessions for `Accounts`, as `ProjectRegistry` is
   for `Projects`.

Runs are combined where one instance answers several questions, and a weaker
statement gives way to a stronger one.

## 8. Not modelled

Configuration, health checks, logging and Swagger keep no state and decide
nothing; of the exception filter there is the status it answers with, where a
property is about it. Migrations are run by hand before the program starts, and
are read for the constraints they leave. GET routes for one row (`getOne`,
`getById`, `getMe`, `me`) and the list of users read once and answer: they take part
in no race a property could be about. Of a report, the average completion time
and fractions of a percent; the contents of titles, descriptions and of the body
of an error.
