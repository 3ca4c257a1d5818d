--------------------------- MODULE TasksListCache ---------------------------
(***************************************************************************)
(* The Redis cache of GET /tasks (tasks-list-cache.service.ts) and the two  *)
(* users of it in tasks.service.ts: list(), which fills and reads it, and   *)
(* the mutations, which commit to Postgres and then bump the version of     *)
(* the organization.  Every await of the code is a step of its own.         *)
(*                                                                         *)
(* The rows are abstracted to dbSeq[o], the number of commits that touched  *)
(* tasks of organization o; a list answer is the filter and the page it was *)
(* computed for and the dbSeq its SELECT saw.  findAndCount sends a second  *)
(* SELECT for the total, later than the first: the seq of an answer is that *)
(* of the first, so it is a lower bound for the whole answer.               *)
(*                                                                         *)
(* Redis calls can fail, or reach Redis twice (ioredis resends a command    *)
(* whose connection broke, redis.provider.ts:20); Redis persists with       *)
(* appendfsync everysec, so a crash loses the last writes.                  *)
(***************************************************************************)
EXTENDS Policy, Sequences

CONSTANTS
  Organizations, Users,
  Actors,       \* the access-token payloads list() is called with
  Queries,      \* the list queries: page stands for (currentPage, itemsPerPage)
  Readers,      \* concurrent calls of list()
  Writers,      \* concurrent calls of create(), update(), softDelete()
  MaxCommits,   \* bound: commits per organization
  MaxFaults,    \* bound: failed or resent Redis calls, crashes of the process
  MaxCrashes    \* bound: crashes of Redis that lose unsynced writes

Pages      == {q.page : q \in Queries}
Statuses   == {q.status : q \in Queries}
Priorities == {q.priority : q \in Queries}
Assignees  == {q.assigneeId : q \in Queries} \cup Users

Query == [page : Pages, status : Statuses, priority : Priorities,
          assigneeId : Assignees]
Actor == [sub : Users, role : UserRole, organizationId : Organizations]

ASSUME ActorsAssumption  == Actors \subseteq Actor
ASSUME QueriesAssumption == Queries \subseteq Query
ASSUME BoundsAssumption  == /\ MaxCommits \in Nat
                            /\ MaxFaults \in Nat
                            /\ MaxCrashes \in Nat

-----------------------------------------------------------------------------
(***************************************************************************)
(* Keys and answers.                                                       *)
(***************************************************************************)

\* Mutant: one scope for everybody.
SharedScope(actor) == <<"staff">>

tasksListScope(actor) ==
  IF actor.role = "employee" THEN <<"emp", actor.sub>> ELSE <<"staff">>

\* The parameters that are hashed; the 64 bits kept of the SHA-1 are taken as
\* free of collisions.
tasksListFiltersHash(actor, query) ==
  [p  |-> query.page,
   s  |-> query.status,
   pr |-> query.priority,
   a  |-> IF actor.role = "employee" THEN Undefined ELSE query.assigneeId]

\* Mutant: the version left out of the key.
UnversionedKey(version, actor, query) ==
  [organizationId |-> actor.organizationId,
   version        |-> 0,
   scope          |-> tasksListScope(actor),
   hash           |-> tasksListFiltersHash(actor, query)]

tasksListCacheEntryKey(version, actor, query) ==
  [organizationId |-> actor.organizationId,
   version        |-> version,
   scope          |-> tasksListScope(actor),
   hash           |-> tasksListFiltersHash(actor, query)]

\* The WHERE clause list() builds.
Where(actor, query) ==
  [organizationId |-> actor.organizationId,
   status         |-> query.status,
   priority       |-> query.priority,
   assigneeId     |-> IF actor.role = "employee" THEN actor.sub
                                                 ELSE query.assigneeId]

\* What list() answers from a database that has seen seq commits.
Response(actor, query, seq) ==
  [where |-> Where(actor, query), page |-> query.page, seq |-> seq]

Scopes == {tasksListScope(a) : a \in Actors}
Hashes == {tasksListFiltersHash(a, q) : a \in Actors, q \in Queries}

Key == [organizationId : Organizations, version : Nat,
        scope : Scopes, hash : Hashes]

ListResponse ==
  [where : [organizationId : Organizations, status : Statuses,
            priority : Priorities, assigneeId : Assignees],
   page : Pages, seq : Nat]

-----------------------------------------------------------------------------
VARIABLES
  dbSeq,    \* dbSeq[o]: commits that touched tasks of o
  version,  \* version[o]: the counter tasks:list:ver:{o} (0 while absent)
  cache,    \* the entries that have not expired, by key
  durable,  \* the version and cache that a crash of Redis falls back to
  reader,   \* the calls of list()
  writer,   \* the calls of the mutations
  faults, crashes,
  epoch     \* history: epoch[o][v + 1] is dbSeq[o] when version[o] became v

vars == <<dbSeq, version, cache, durable, reader, writer, faults, crashes, epoch>>

Idle == [pc |-> "idle"]

\* A call of list() before it has a version, before and after it has an answer.
Starting == [pc : {"version"}, actor : Actors, query : Queries, since : Nat]

Looking == [pc : {"lookup", "select"}, actor : Actors, query : Queries,
            since : Nat, version : Nat, versionFailed : BOOLEAN]

Answering == [pc : {"store", "done"}, actor : Actors, query : Queries,
              since : Nat, version : Nat, versionFailed : BOOLEAN,
              response : ListResponse]

ReaderState == {Idle} \cup Starting \cup Looking \cup Answering

WriterState == {Idle} \cup [pc : {"bump"}, organizationId : Organizations]

CacheState(c) == DOMAIN c \subseteq Key /\ c \in [DOMAIN c -> ListResponse]

TypeOK ==
  /\ dbSeq \in [Organizations -> Nat]
  /\ version \in [Organizations -> Nat]
  /\ CacheState(cache)
  /\ durable.version \in [Organizations -> Nat]
  /\ CacheState(durable.cache)
  /\ reader \in [Readers -> ReaderState]
  /\ writer \in [Writers -> WriterState]
  /\ faults \in Nat
  /\ crashes \in Nat
  /\ epoch \in [Organizations -> Seq(Nat)]

NoEntries == [k \in {} |-> {}]

Init ==
  /\ dbSeq = [o \in Organizations |-> 0]
  /\ version = [o \in Organizations |-> 0]
  /\ cache = NoEntries
  /\ durable = [version |-> version, cache |-> cache]
  /\ reader = [r \in Readers |-> Idle]
  /\ writer = [w \in Writers |-> Idle]
  /\ faults = 0
  /\ crashes = 0
  /\ epoch = [o \in Organizations |-> <<0>>]

Fault == faults < MaxFaults /\ faults' = faults + 1

-----------------------------------------------------------------------------
(***************************************************************************)
(* Mutations: create(), update() and softDelete() write the database and    *)
(* then await bumpOrgListCache(); the nightly cron writes and does not.     *)
(***************************************************************************)

\* INCR of the version key.
IncrVersion(o) ==
  /\ version' = [version EXCEPT ![o] = @ + 1]
  /\ epoch' = [epoch EXCEPT ![o] = Append(@, dbSeq[o])]

Commit(w, o) ==
  /\ writer[w] = Idle
  /\ dbSeq[o] < MaxCommits
  /\ dbSeq' = [dbSeq EXCEPT ![o] = @ + 1]
  /\ writer' = [writer EXCEPT ![w] = [pc |-> "bump", organizationId |-> o]]
  /\ UNCHANGED <<version, cache, durable, reader, faults, crashes, epoch>>

BumpOrgListCache(w) ==
  /\ writer[w].pc = "bump"
  /\ IncrVersion(writer[w].organizationId)
  /\ writer' = [writer EXCEPT ![w] = Idle]
  /\ UNCHANGED <<dbSeq, cache, durable, reader, faults, crashes>>

\* The INCR is applied, its reply is lost and ioredis sends it again.
BumpResent(w) ==
  /\ writer[w].pc = "bump"
  /\ Fault
  /\ IncrVersion(writer[w].organizationId)
  /\ UNCHANGED <<dbSeq, cache, durable, reader, writer, crashes>>

\* The INCR fails; the error is swallowed.
BumpFailed(w) ==
  /\ writer[w].pc = "bump"
  /\ Fault
  /\ writer' = [writer EXCEPT ![w] = Idle]
  /\ UNCHANGED <<dbSeq, version, cache, durable, reader, crashes, epoch>>

\* One UPDATE over the overdue tasks of any organizations, and no bump.
HandleTaskOverdue(os) ==
  /\ \A o \in os : dbSeq[o] < MaxCommits
  /\ dbSeq' = [o \in Organizations |-> IF o \in os THEN dbSeq[o] + 1 ELSE dbSeq[o]]
  /\ UNCHANGED <<version, cache, durable, reader, writer, faults, crashes, epoch>>

-----------------------------------------------------------------------------
(***************************************************************************)
(* list(): GET version, GET entry, and on a miss SELECT and SET.            *)
(***************************************************************************)

ReaderKey(r) ==
  tasksListCacheEntryKey(reader[r].version, reader[r].actor, reader[r].query)

Org(r) == reader[r].actor.organizationId

List(r, actor, query) ==
  /\ reader[r] = Idle
  /\ reader' = [reader EXCEPT ![r] =
       [pc |-> "version", actor |-> actor, query |-> query,
        since |-> version[actor.organizationId]]]
  /\ UNCHANGED <<dbSeq, version, cache, durable, writer, faults, crashes, epoch>>

WithVersion(r, v, failed) ==
  [pc |-> "lookup", actor |-> reader[r].actor, query |-> reader[r].query,
   since |-> reader[r].since, version |-> v, versionFailed |-> failed]

GetOrgListVersion(r) ==
  /\ reader[r].pc = "version"
  /\ reader' = [reader EXCEPT ![r] = WithVersion(r, version[Org(r)], FALSE)]
  /\ UNCHANGED <<dbSeq, version, cache, durable, writer, faults, crashes, epoch>>

\* A failed GET of the version counts as version 0.
GetOrgListVersionFailed(r) ==
  /\ reader[r].pc = "version"
  /\ Fault
  /\ reader' = [reader EXCEPT ![r] = WithVersion(r, 0, TRUE)]
  /\ UNCHANGED <<dbSeq, version, cache, durable, writer, crashes, epoch>>

WithResponse(r, pc, response) ==
  [pc |-> pc, actor |-> reader[r].actor, query |-> reader[r].query,
   since |-> reader[r].since, version |-> reader[r].version,
   versionFailed |-> reader[r].versionFailed, response |-> response]

GetHit(r) ==
  /\ reader[r].pc = "lookup"
  /\ ReaderKey(r) \in DOMAIN cache
  /\ reader' = [reader EXCEPT ![r] = WithResponse(r, "done", cache[ReaderKey(r)])]
  /\ UNCHANGED <<dbSeq, version, cache, durable, writer, faults, crashes, epoch>>

\* Mutant: the null of a miss is answered as if it were an entry.
MissServedAsHit(r) ==
  /\ reader[r].pc = "lookup"
  /\ ReaderKey(r) \notin DOMAIN cache
  /\ reader' = [reader EXCEPT ![r] = WithResponse(r, "done", Undefined)]
  /\ UNCHANGED <<dbSeq, version, cache, durable, writer, faults, crashes, epoch>>

GetMiss(r) ==
  /\ reader[r].pc = "lookup"
  /\ ReaderKey(r) \notin DOMAIN cache
  /\ reader' = [reader EXCEPT ![r].pc = "select"]
  /\ UNCHANGED <<dbSeq, version, cache, durable, writer, faults, crashes, epoch>>

\* A failed GET of the entry counts as a miss.
GetFailed(r) ==
  /\ reader[r].pc = "lookup"
  /\ Fault
  /\ reader' = [reader EXCEPT ![r].pc = "select"]
  /\ UNCHANGED <<dbSeq, version, cache, durable, writer, crashes, epoch>>

FindAndCount(r) ==
  /\ reader[r].pc = "select"
  /\ reader' = [reader EXCEPT ![r] =
       WithResponse(r, "store",
                    Response(reader[r].actor, reader[r].query, dbSeq[Org(r)]))]
  /\ UNCHANGED <<dbSeq, version, cache, durable, writer, faults, crashes, epoch>>

\* SET of the entry, under the key built from the version read at the start.
Put(k, response) ==
  cache' = [x \in DOMAIN cache \cup {k} |-> IF x = k THEN response ELSE cache[x]]

\* Mutant: the key is built again, from the version at the time of the SET.
SetUnderCurrentVersion(r) ==
  /\ reader[r].pc = "store"
  /\ Put([ReaderKey(r) EXCEPT !.version = version[Org(r)]], reader[r].response)
  /\ reader' = [reader EXCEPT ![r].pc = "done"]
  /\ UNCHANGED <<dbSeq, version, durable, writer, faults, crashes, epoch>>

Set(r) ==
  /\ reader[r].pc = "store"
  /\ Put(ReaderKey(r), reader[r].response)
  /\ reader' = [reader EXCEPT ![r].pc = "done"]
  /\ UNCHANGED <<dbSeq, version, durable, writer, faults, crashes, epoch>>

SetResent(r) ==
  /\ reader[r].pc = "store"
  /\ Fault
  /\ Put(ReaderKey(r), reader[r].response)
  /\ UNCHANGED <<dbSeq, version, durable, reader, writer, crashes, epoch>>

SetFailed(r) ==
  /\ reader[r].pc = "store"
  /\ Fault
  /\ reader' = [reader EXCEPT ![r].pc = "done"]
  /\ UNCHANGED <<dbSeq, version, cache, durable, writer, crashes, epoch>>

Respond(r) ==
  /\ reader[r].pc = "done"
  /\ reader' = [reader EXCEPT ![r] = Idle]
  /\ UNCHANGED <<dbSeq, version, cache, durable, writer, faults, crashes, epoch>>

-----------------------------------------------------------------------------
(***************************************************************************)
(* The surroundings: TTL, persistence of Redis, crash of the API process.   *)
(***************************************************************************)

Without(c, ks) == [x \in DOMAIN c \ ks |-> c[x]]

\* Mutant: entries go only when a newer version has replaced them.
ExpireSuperseded(k) ==
  /\ k \in DOMAIN cache
  /\ k.version < version[k.organizationId]
  /\ cache' = Without(cache, {k})
  /\ UNCHANGED <<dbSeq, version, durable, reader, writer, faults, crashes, epoch>>

\* The TTL of an entry (SET ... EX ttl) runs out.
Expire(k) ==
  /\ k \in DOMAIN cache
  /\ cache' = Without(cache, {k})
  /\ UNCHANGED <<dbSeq, version, durable, reader, writer, faults, crashes, epoch>>

Fsync ==
  /\ crashes < MaxCrashes
  /\ durable' = [version |-> version, cache |-> cache]
  /\ UNCHANGED <<dbSeq, version, cache, reader, writer, faults, crashes, epoch>>

RedisCrash ==
  /\ crashes < MaxCrashes
  /\ crashes' = crashes + 1
  /\ version' = durable.version
  /\ cache' = durable.cache
  /\ UNCHANGED <<dbSeq, durable, reader, writer, faults, epoch>>

\* The API process dies (main.ts exits on an uncaught error) with its calls.
ProcessExit ==
  /\ Fault
  /\ reader' = [r \in Readers |-> Idle]
  /\ writer' = [w \in Writers |-> Idle]
  /\ UNCHANGED <<dbSeq, version, cache, durable, crashes, epoch>>

-----------------------------------------------------------------------------
ReaderStep(r) ==
  \/ \E actor \in Actors, query \in Queries : List(r, actor, query)
  \/ GetOrgListVersion(r)
  \/ GetOrgListVersionFailed(r)
  \/ GetHit(r)
  \/ GetMiss(r)
  \/ GetFailed(r)
  \/ FindAndCount(r)
  \/ Set(r)
  \/ SetResent(r)
  \/ SetFailed(r)
  \/ Respond(r)

WriterStep(w) ==
  \/ \E o \in Organizations : Commit(w, o)
  \/ BumpOrgListCache(w)
  \/ BumpResent(w)
  \/ BumpFailed(w)

Next ==
  \/ \E r \in Readers : ReaderStep(r)
  \/ \E w \in Writers : WriterStep(w)
  \/ \E os \in SUBSET Organizations \ {{}} : HandleTaskOverdue(os)
  \/ \E k \in DOMAIN cache : Expire(k)
  \/ Fsync
  \/ RedisCrash
  \/ ProcessExit

Spec == Init /\ [][Next]_vars

(***************************************************************************)
(* Fairness: every entry is SET with EX, so one that stays is removed in    *)
(* the end.  Nothing is assumed of the calls themselves.  A version is at   *)
(* most the number of INCRs, one per commit and one per resend.             *)
(***************************************************************************)
Keys == [organizationId : Organizations, version : 0..(MaxCommits + MaxFaults),
         scope : Scopes, hash : Hashes]

FairSpec == Spec /\ \A k \in Keys : WF_vars(Expire(k))

-----------------------------------------------------------------------------
(***************************************************************************)
(* Properties.                                                             *)
(***************************************************************************)

\* A list request whose own GET of the version succeeded never answers with
\* data older than the last version bump applied before the request began:
\* whoever got the answer to a mutation (whose INCR worked) and then lists
\* sees it, whatever fills were under way and whichever calls failed or were
\* repeated.  Only a crash of Redis that loses INCRs is excluded.
ReadYourWrites ==
  \A r \in Readers :
    reader[r].pc = "done" /\ ~reader[r].versionFailed /\ crashes = 0 =>
      reader[r].response.seq >= epoch[Org(r)][reader[r].since + 1]

\* What a request answers was computed for its own organization, its own
\* visibility (an employee sees only its own tasks), filters and page, also
\* when it comes from the cache and was computed for somebody else.
ServedMatchesRequest ==
  \A r \in Readers :
    reader[r].pc = "done" =>
      /\ reader[r].response.where = Where(reader[r].actor, reader[r].query)
      /\ reader[r].response.page = reader[r].query.page

\* The three parts of the inductive invariant behind ReadYourWrites.
\* Each bump begins an epoch, and epochs begin at growing database states.
EpochsOrdered ==
  \A o \in Organizations :
    /\ Len(epoch[o]) = version[o] + 1
    /\ \A i, j \in 1..Len(epoch[o]) : i <= j => epoch[o][i] <= epoch[o][j]
    /\ \A i \in 1..Len(epoch[o]) : epoch[o][i] <= dbSeq[o]

\* An entry stored under version v holds data no older than the bump to v.
EntriesFresh ==
  \A k \in DOMAIN cache :
    /\ k.version <= version[k.organizationId]
    /\ cache[k].seq >= epoch[k.organizationId][k.version + 1]

\* The same of the data a list() under way holds, before it is stored; and the
\* version it read is no older than its beginning unless the GET failed.
ReaderFresh(r) ==
  /\ reader[r].pc # "idle" => reader[r].since <= version[Org(r)]
  /\ reader[r].pc \notin {"idle", "version"} =>
       /\ reader[r].version <= version[Org(r)]
       /\ ~reader[r].versionFailed => reader[r].since <= reader[r].version
  /\ reader[r].pc \in {"store", "done"} =>
       reader[r].response.seq >= epoch[Org(r)][reader[r].version + 1]

ReadersFresh == \A r \in Readers : ReaderFresh(r)

\* As long as Redis has lost nothing, every entry and every answer under way
\* is at least as fresh as the version in its key says.
VersionTellsFreshness ==
  crashes = 0 => EpochsOrdered /\ EntriesFresh /\ ReadersFresh

\* Once the tasks stop changing, the cache converges: from some moment on no
\* entry is older than the database, whatever bumps were lost, skipped (the
\* cron), applied twice or undone by a crash of Redis.  The TTL does this.
EventuallyFresh ==
  <>[](\A k \in DOMAIN cache : cache[k].seq = dbSeq[k.organizationId])

\* What is older than the database: entries of a cache, with their keys, and
\* the answers that calls of list() are about to store, with theirs.
StaleIn(c) ==
  {<<k, c[k]>> : k \in {x \in DOMAIN c : c[x].seq < dbSeq[x.organizationId]}}

StaleEntries == StaleIn(cache) \cup StaleIn(durable.cache)

StaleCalls == {r \in Readers : /\ reader[r].pc = "store"
                               /\ reader[r].response.seq < dbSeq[Org(r)]}

StaleFills == {<<r, ReaderKey(r), reader[r].response>> : r \in StaleCalls}

\* The safety half of EventuallyFresh.  While the tasks do not change nothing
\* stale arises: no call comes to hold an old answer it will store (an old
\* answer read from the cache is not stored again), and no old answer appears
\* in the cache, or in what a crash of Redis restores, but one that was there
\* already or was about to be stored, under the very key it had then.
StaleRunsOut ==
  [][dbSeq' = dbSeq =>
       /\ StaleFills' \subseteq StaleFills
       /\ StaleEntries' \subseteq
            StaleEntries \cup {<<f[2], f[3]>> : f \in StaleFills}]_vars

-----------------------------------------------------------------------------
(***************************************************************************)
(* The cache implements TasksListPromise.                                   *)
(***************************************************************************)

Views == {[where |-> Where(a, q), page |-> q.page] : a \in Actors, q \in Queries}

\* The commits that the last bump told of; nothing is promised after a crash of
\* Redis.
PromisedSeq(o) == IF crashes = 0 THEN epoch[o][version[o] + 1] ELSE 0

Floor(r) ==
  IF crashes = 0 /\ (reader[r].pc # "version" => ~reader[r].versionFailed)
    THEN epoch[Org(r)][reader[r].since + 1]
    ELSE 0

\* A list() that has an answer it can no longer change its mind about, and has
\* not stored, is still to answer: storing is no business of its caller.
CallOf(r) ==
  CASE reader[r].pc = "idle" -> Idle
    [] reader[r].pc = "done" ->
         [pc |-> "answered", response |-> reader[r].response]
    [] OTHER ->
         [pc    |-> "asked",
          view  |-> [where |-> Where(reader[r].actor, reader[r].query),
                     page  |-> reader[r].query.page],
          floor |-> Floor(r)]

Promise == INSTANCE TasksListPromise WITH
  Callers  <- Readers,
  commits  <- dbSeq,
  promised <- [o \in Organizations |-> PromisedSeq(o)],
  broken   <- crashes > 0,
  call     <- [r \in Readers |-> CallOf(r)]

\* Versions, keys, entries, failing calls and crashes amount to a list that may
\* lag behind the database, is always the caller's own, and never older than
\* the last bump before the request, as long as Redis loses nothing.
KeepsPromise == Promise!Spec

-----------------------------------------------------------------------------
(***************************************************************************)
(* Statements of the specification document that the code does not keep.    *)
(***************************************************************************)

\* TS.md:295: the version grows on every mutation of tasks of the
\* organization.  Then, with no call failing and no bump pending, the newest
\* epoch is the current database.
EveryMutationBumps ==
  \A o \in Organizations :
    faults = 0 /\ crashes = 0 /\ (\A w \in Writers : writer[w] = Idle) =>
      epoch[o][Len(epoch[o])] = dbSeq[o]

\* TS.md:329: a failed cache read falls back to the database, as without a
\* cache.  Then a request whose GET of the version failed is fresh as well.
FailedReadIsFresh ==
  \A r \in Readers :
    reader[r].pc = "done" /\ reader[r].versionFailed /\ crashes = 0 =>
      reader[r].response.seq >= epoch[Org(r)][reader[r].since + 1]
=============================================================================
