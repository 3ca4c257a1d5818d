------------------------ MODULE TasksListCacheProofs ------------------------
(***************************************************************************)
(* Theorems about TasksListCache, for all organizations, actors, queries,   *)
(* numbers of concurrent calls and bounds.                                  *)
(***************************************************************************)
EXTENDS TasksListCache, TLAPS

-----------------------------------------------------------------------------
(***************************************************************************)
(* Facts about keys and answers.                                           *)
(***************************************************************************)

\* Keys and answers are of their types.
LEMMA KeyType ==
  ASSUME NEW v \in Nat, NEW a \in Actors, NEW q \in Queries
  PROVE  tasksListCacheEntryKey(v, a, q) \in Key
BY ActorsAssumption
   DEF tasksListCacheEntryKey, Key, Scopes, Hashes, Actor

LEMMA ResponseType ==
  ASSUME NEW a \in Actors, NEW q \in Queries, NEW n \in Nat
  PROVE  Response(a, q, n) \in ListResponse
<1>1. a \in Actor /\ q \in Query
  BY ActorsAssumption, QueriesAssumption
<1>2. Where(a, q).assigneeId \in Assignees
  BY <1>1 DEF Where, Assignees, Actor, Query
<1> QED
  BY <1>1, <1>2 DEF Response, ListResponse, Where, Actor, Query

\* A SET and an expiry leave a cache of the right type.
LEMMA PutType ==
  ASSUME CacheState(cache), NEW k \in Key, NEW x \in ListResponse, Put(k, x)
  PROVE  CacheState(cache')
BY DEF CacheState, Put

LEMMA WithoutType ==
  ASSUME NEW c, CacheState(c), NEW ks
  PROVE  CacheState(Without(c, ks))
BY DEF CacheState, Without

-----------------------------------------------------------------------------
(***************************************************************************)
(* Type correctness.                                                       *)
(***************************************************************************)

LEMMA InitType == Init => TypeOK
<1> SUFFICES ASSUME Init PROVE TypeOK
  OBVIOUS
<1>1. CacheState(NoEntries)
  BY DEF CacheState, NoEntries
<1>2. epoch \in [Organizations -> Seq(Nat)]
  BY DEF Init
<1> QED
  BY <1>1, <1>2 DEF Init, TypeOK, ReaderState, WriterState, Idle

\* The steps of a mutation.
LEMMA WriterType ==
  ASSUME TypeOK, NEW w \in Writers, WriterStep(w)
  PROVE  TypeOK'
<1> USE BoundsAssumption
<1>1. ASSUME NEW o \in Organizations, Commit(w, o)
      PROVE  TypeOK'
  BY SMTT(30), <1>1 DEF TypeOK, Commit, CacheState, WriterState
<1>2. ASSUME NEW o \in Organizations, IncrVersion(o)
      PROVE  /\ version' \in [Organizations -> Nat]
             /\ epoch' \in [Organizations -> Seq(Nat)]
  <2>1. Append(epoch[o], dbSeq[o]) \in Seq(Nat)
    BY DEF TypeOK
  <2> QED
    BY <1>2, <2>1 DEF TypeOK, IncrVersion
<1>3. writer[w].pc = "bump" => writer[w].organizationId \in Organizations
  BY DEF TypeOK, WriterState, Idle
<1>4. CASE BumpOrgListCache(w)
  BY <1>2, <1>3, <1>4 DEF TypeOK, BumpOrgListCache, CacheState, WriterState
<1>5. CASE BumpResent(w)
  BY SMTT(30), <1>2, <1>3, <1>5 DEF TypeOK, BumpResent, Fault, CacheState
<1>6. CASE BumpFailed(w)
  BY <1>6 DEF TypeOK, BumpFailed, Fault, CacheState, WriterState
<1> QED
  BY <1>1, <1>4, <1>5, <1>6 DEF WriterStep

\* The pc of a list() tells which fields it has.
LEMMA ReaderSort ==
  ASSUME TypeOK, NEW r \in Readers
  PROVE  /\ reader[r].pc = "idle" => reader[r] = Idle
         /\ reader[r].pc = "version" => reader[r] \in Starting
         /\ reader[r].pc \in {"lookup", "select"} => reader[r] \in Looking
         /\ reader[r].pc \in {"store", "done"} => reader[r] \in Answering
         /\ reader[r].pc \in {"idle", "version", "lookup", "select", "store", "done"}
<1>1. reader[r] \in ReaderState
  BY DEF TypeOK
<1>2. CASE reader[r] = Idle
  BY <1>2 DEF Idle
<1>3. CASE reader[r] \in Starting
  BY <1>3 DEF Starting
<1>4. CASE reader[r] \in Looking
  BY <1>4 DEF Looking
<1>5. CASE reader[r] \in Answering
  BY <1>5 DEF Answering
<1> QED
  BY <1>1, <1>2, <1>3, <1>4, <1>5 DEF ReaderState

\* The fields of a list() under way, for the leaves below.
LEMMA ReaderFields ==
  ASSUME TypeOK, NEW r \in Readers, reader[r].pc # "idle"
  PROVE  /\ reader[r].actor \in Actors
         /\ reader[r].query \in Queries
         /\ reader[r].since \in Nat
         /\ Org(r) \in Organizations
         /\ reader[r].pc # "version" =>
              /\ reader[r].version \in Nat
              /\ reader[r].versionFailed \in BOOLEAN
              /\ ReaderKey(r) \in Key
         /\ reader[r].pc \in {"store", "done"} => reader[r].response \in ListResponse
<1>1. /\ reader[r].actor \in Actors
      /\ reader[r].query \in Queries
      /\ reader[r].since \in Nat
  BY ReaderSort DEF Starting, Looking, Answering
<1>2. Org(r) \in Organizations
  BY <1>1, ActorsAssumption DEF Org, Actor
<1>3. reader[r].pc # "version" =>
        reader[r].version \in Nat /\ reader[r].versionFailed \in BOOLEAN
  BY ReaderSort DEF Looking, Answering
<1>4. reader[r].pc # "version" => ReaderKey(r) \in Key
  BY <1>1, <1>3, KeyType DEF ReaderKey
<1>5. reader[r].pc \in {"store", "done"} => reader[r].response \in ListResponse
  BY ReaderSort DEF Answering
<1> QED
  BY <1>1, <1>2, <1>3, <1>4, <1>5

\* The steps of a list().
LEMMA ReaderType ==
  ASSUME TypeOK, NEW r \in Readers, ReaderStep(r)
  PROVE  TypeOK'
<1> USE BoundsAssumption
<1>1. ASSUME NEW s \in ReaderState, reader' = [reader EXCEPT ![r] = s]
      PROVE  reader' \in [Readers -> ReaderState]
  BY <1>1 DEF TypeOK
<1>2. ASSUME NEW a \in Actors, NEW q \in Queries, List(r, a, q)
      PROVE  TypeOK'
  <2>1. [pc |-> "version", actor |-> a, query |-> q,
         since |-> version[a.organizationId]] \in ReaderState
    BY ActorsAssumption DEF TypeOK, ReaderState, Starting, Actor
  <2> QED
    BY <1>1, <1>2, <2>1 DEF TypeOK, List, CacheState
<1>3. ASSUME reader[r].pc = "version", NEW v \in Nat, NEW failed \in BOOLEAN
      PROVE  WithVersion(r, v, failed) \in ReaderState
  BY <1>3, ReaderFields DEF WithVersion, ReaderState, Looking
<1>4. CASE GetOrgListVersion(r)
  <2>1. version[Org(r)] \in Nat
    BY <1>4, ReaderFields DEF GetOrgListVersion, TypeOK
  <2> QED
    BY <1>1, <1>3, <1>4, <2>1 DEF TypeOK, GetOrgListVersion, CacheState
<1>5. CASE GetOrgListVersionFailed(r)
  <2>1. WithVersion(r, 0, TRUE) \in ReaderState
    BY <1>3, <1>5 DEF GetOrgListVersionFailed
  <2>2. reader' \in [Readers -> ReaderState]
    BY <1>1, <1>5, <2>1 DEF GetOrgListVersionFailed
  <2>3. /\ faults' = faults + 1
        /\ UNCHANGED <<dbSeq, version, cache, durable, writer, crashes, epoch>>
    BY <1>5, Zenon DEF GetOrgListVersionFailed, Fault
  <2> QED
    BY <2>2, <2>3 DEF TypeOK, CacheState
<1>6. ASSUME reader[r].pc \in {"lookup", "select"}, NEW x \in ListResponse,
             NEW pc \in {"store", "done"}
      PROVE  WithResponse(r, pc, x) \in ReaderState
  BY <1>6, ReaderFields DEF WithResponse, ReaderState, Answering
<1>7. CASE GetHit(r)
  <2>1. cache[ReaderKey(r)] \in ListResponse
    BY <1>7 DEF TypeOK, GetHit, CacheState
  <2> QED
    BY <1>1, <1>6, <1>7, <2>1 DEF TypeOK, GetHit, CacheState
<1>8. ASSUME reader[r].pc = "lookup"
      PROVE  [reader[r] EXCEPT !.pc = "select"] \in ReaderState
  <2>1. reader[r] \in Looking
    BY <1>8, ReaderSort
  <2>2. [reader[r] EXCEPT !.pc = "select"] \in Looking
    BY <2>1 DEF Looking
  <2> QED
    BY <2>2 DEF ReaderState
<1>9. CASE GetMiss(r)
  BY <1>8, <1>9 DEF TypeOK, GetMiss, CacheState
<1>10. CASE GetFailed(r)
  BY <1>8, <1>10 DEF TypeOK, GetFailed, Fault, CacheState
<1>11. CASE FindAndCount(r)
  <2>1. dbSeq[Org(r)] \in Nat
    BY <1>11, ReaderFields DEF FindAndCount, TypeOK
  <2>2. Response(reader[r].actor, reader[r].query, dbSeq[Org(r)]) \in ListResponse
    BY <1>11, <2>1, ReaderFields, ResponseType DEF FindAndCount
  <2> QED
    BY <1>1, <1>6, <1>11, <2>2 DEF TypeOK, FindAndCount, CacheState
<1>12. ASSUME reader[r].pc = "store"
       PROVE  [reader[r] EXCEPT !.pc = "done"] \in ReaderState
  <2>1. reader[r] \in Answering
    BY <1>12, ReaderSort
  <2>2. [reader[r] EXCEPT !.pc = "done"] \in Answering
    BY <2>1 DEF Answering
  <2> QED
    BY <2>2 DEF ReaderState
<1>13. ASSUME reader[r].pc = "store", Put(ReaderKey(r), reader[r].response)
       PROVE  CacheState(cache')
  BY <1>13, ReaderFields, PutType DEF TypeOK
<1>14. CASE Set(r)
  BY <1>12, <1>13, <1>14 DEF TypeOK, Set
<1>15. CASE SetResent(r)
  BY <1>13, <1>15 DEF TypeOK, SetResent, Fault
<1>16. CASE SetFailed(r)
  BY <1>12, <1>16 DEF TypeOK, SetFailed, Fault, CacheState
<1>17. CASE Respond(r)
  BY <1>17 DEF TypeOK, Respond, CacheState, ReaderState
<1> QED
  BY <1>2, <1>4, <1>5, <1>7, <1>9, <1>10, <1>11, <1>14, <1>15, <1>16, <1>17
     DEF ReaderStep

\* The steps of the surroundings, and stuttering.
LEMMA OtherType ==
  ASSUME TypeOK, [Next]_vars,
         \A r \in Readers : ~ReaderStep(r), \A w \in Writers : ~WriterStep(w)
  PROVE  TypeOK'
<1> USE BoundsAssumption
<1>1. ASSUME NEW os \in SUBSET Organizations, HandleTaskOverdue(os)
      PROVE  TypeOK'
  BY <1>1 DEF TypeOK, HandleTaskOverdue, CacheState
<1>2. ASSUME NEW k \in DOMAIN cache, Expire(k)
      PROVE  TypeOK'
  <2>1. CacheState(cache')
    BY <1>2, WithoutType DEF TypeOK, Expire
  <2> QED
    BY <1>2, <2>1 DEF TypeOK, Expire
<1>3. CASE Fsync
  BY <1>3 DEF TypeOK, Fsync, CacheState
<1>4. CASE RedisCrash
  BY <1>4 DEF TypeOK, RedisCrash, CacheState
<1>5. CASE ProcessExit
  BY <1>5 DEF TypeOK, ProcessExit, Fault, CacheState, ReaderState, WriterState
<1>6. CASE UNCHANGED vars
  BY <1>6 DEF TypeOK, vars, CacheState
<1> QED
  BY <1>1, <1>2, <1>3, <1>4, <1>5, <1>6 DEF Next

LEMMA NextType ==
  ASSUME TypeOK, [Next]_vars
  PROVE  TypeOK'
BY ReaderType, WriterType, OtherType

\* Type correctness of the cache, its keys, versions and calls under way.
THEOREM TypeCorrect == Spec => []TypeOK
<1>1. TypeOK /\ [Next]_vars => TypeOK'
  BY NextType
<1> QED
  BY InitType, <1>1, PTL DEF Spec

-----------------------------------------------------------------------------
(***************************************************************************)
(* Freshness.  ReadYourWrites is not inductive: what a request will answer  *)
(* depends on the entries and on the calls under way that will become       *)
(* entries.  VersionTellsFreshness says of all of them that they are as     *)
(* fresh as the version in their key; with TypeOK it is inductive.          *)
(***************************************************************************)

Fresh == EpochsOrdered /\ EntriesFresh /\ ReadersFresh

\* An entry's organization and version are in the range of epoch.
LEMMA EntryFields ==
  ASSUME TypeOK, NEW k \in DOMAIN cache
  PROVE  /\ k.organizationId \in Organizations
         /\ k.version \in Nat
         /\ cache[k].seq \in Nat
BY DEF TypeOK, CacheState, Key, ListResponse

\* INCR: the versions and epochs that were there stay as they were.
LEMMA IncrExtends ==
  ASSUME TypeOK, Fresh, NEW o \in Organizations, IncrVersion(o)
  PROVE  \A x \in Organizations :
           /\ version'[x] >= version[x]
           /\ Len(epoch'[x]) = version'[x] + 1
           /\ \A i \in 1..Len(epoch[x]) : epoch'[x][i] = epoch[x][i]
           /\ x # o => epoch'[x] = epoch[x]
<1> SUFFICES ASSUME NEW x \in Organizations
             PROVE  /\ version'[x] >= version[x]
                    /\ Len(epoch'[x]) = version'[x] + 1
                    /\ \A i \in 1..Len(epoch[x]) : epoch'[x][i] = epoch[x][i]
                    /\ x # o => epoch'[x] = epoch[x]
  OBVIOUS
<1>1. epoch[x] \in Seq(Nat) /\ dbSeq[x] \in Nat /\ version[x] \in Nat
  BY DEF TypeOK
<1>2. Len(epoch[x]) = version[x] + 1
  BY DEF Fresh, EpochsOrdered
<1>3. CASE x = o
  BY <1>1, <1>2, <1>3 DEF IncrVersion, TypeOK
<1>4. CASE x # o
  BY <1>1, <1>2, <1>4 DEF IncrVersion, TypeOK
<1> QED
  BY <1>3, <1>4

LEMMA IncrFresh ==
  ASSUME TypeOK, Fresh, NEW o \in Organizations, IncrVersion(o),
         UNCHANGED <<dbSeq, cache, reader>>
  PROVE  Fresh'
<1>1. EpochsOrdered'
  <2> SUFFICES ASSUME NEW x \in Organizations
               PROVE  /\ Len(epoch'[x]) = version'[x] + 1
                      /\ \A i, j \in 1..Len(epoch'[x]) :
                           i <= j => epoch'[x][i] <= epoch'[x][j]
                      /\ \A i \in 1..Len(epoch'[x]) : epoch'[x][i] <= dbSeq[x]
    BY DEF EpochsOrdered
  <2>1. epoch[x] \in Seq(Nat) /\ dbSeq[x] \in Nat
    BY DEF TypeOK
  <2>2. /\ \A i, j \in 1..Len(epoch[x]) : i <= j => epoch[x][i] <= epoch[x][j]
        /\ \A i \in 1..Len(epoch[x]) : epoch[x][i] <= dbSeq[x]
    BY DEF Fresh, EpochsOrdered
  <2>3. CASE x # o
    BY <2>2, <2>3, IncrExtends
  <2>4. CASE x = o
    <3>1. epoch'[x] = Append(epoch[x], dbSeq[x])
      BY <2>4 DEF IncrVersion, TypeOK
    <3>2. \A i \in 1..Len(epoch'[x]) : epoch'[x][i] <= dbSeq[x]
      BY <2>1, <2>2, <3>1
    <3>3. \A i, j \in 1..Len(epoch'[x]) : i <= j => epoch'[x][i] <= epoch'[x][j]
      BY <2>1, <2>2, <3>1, <3>2
    <3> QED
      BY <3>2, <3>3, IncrExtends
  <2> QED
    BY <2>3, <2>4
<1>2. EntriesFresh'
  <2> SUFFICES ASSUME NEW k \in DOMAIN cache
               PROVE  /\ k.version <= version'[k.organizationId]
                      /\ cache[k].seq >= epoch'[k.organizationId][k.version + 1]
    BY DEF EntriesFresh
  <2>1. /\ k.version <= version[k.organizationId]
        /\ cache[k].seq >= epoch[k.organizationId][k.version + 1]
    BY DEF Fresh, EntriesFresh
  <2>2. version[k.organizationId] \in Nat /\ version'[k.organizationId] \in Nat
    <3>1. version \in [Organizations -> Nat]
      BY DEF TypeOK
    <3>2. version' \in [Organizations -> Nat]
      BY <3>1 DEF IncrVersion
    <3> QED
      BY <3>1, <3>2, EntryFields
  <2>3. k.version + 1 \in 1..Len(epoch[k.organizationId])
    BY <2>1, <2>2, EntryFields DEF Fresh, EpochsOrdered
  <2>4. /\ version'[k.organizationId] >= version[k.organizationId]
        /\ epoch'[k.organizationId][k.version + 1] =
             epoch[k.organizationId][k.version + 1]
    BY <2>3, EntryFields, IncrExtends
  <2>5. k.version \in Nat
    BY EntryFields
  <2> QED
    BY <2>1, <2>2, <2>4, <2>5
<1>3. ReadersFresh'
  <2> SUFFICES ASSUME NEW r \in Readers
               PROVE  ReaderFresh(r)'
    BY DEF ReadersFresh
  <2>1. ReaderFresh(r)
    BY DEF Fresh, ReadersFresh
  <2>2. CASE reader[r].pc = "idle"
    BY <2>2 DEF ReaderFresh
  <2>3. CASE reader[r].pc # "idle"
    <3>1. /\ Org(r) \in Organizations
          /\ reader[r].since \in Nat
          /\ reader[r].pc # "version" => reader[r].version \in Nat
      BY <2>3, ReaderFields
    <3>2. version[Org(r)] \in Nat /\ version'[Org(r)] \in Nat
      BY <3>1 DEF TypeOK, IncrVersion
    <3>3. reader[r].pc # "version" =>
            reader[r].version + 1 \in 1..Len(epoch[Org(r)])
      BY <2>1, <2>3, <3>1, <3>2 DEF ReaderFresh, Fresh, EpochsOrdered
    <3>4. /\ version'[Org(r)] >= version[Org(r)]
          /\ \A i \in 1..Len(epoch[Org(r)]) : epoch'[Org(r)][i] = epoch[Org(r)][i]
      BY <3>1, IncrExtends
    <3>5. Org(r)' = Org(r)
      BY DEF Org
    <3> QED
      BY <2>1, <2>3, <3>1, <3>2, <3>3, <3>4, <3>5 DEF ReaderFresh
  <2> QED
    BY <2>2, <2>3
<1> QED
  BY <1>1, <1>2, <1>3 DEF Fresh

\* A commit: the database gets newer, and nothing else is touched.
LEMMA CommitFresh ==
  ASSUME TypeOK, TypeOK', Fresh, \A o \in Organizations : dbSeq'[o] >= dbSeq[o],
         UNCHANGED <<version, cache, reader, epoch>>
  PROVE  Fresh'
<1>1. EpochsOrdered'
  <2>1. ASSUME NEW o \in Organizations, NEW i \in 1..Len(epoch[o])
        PROVE  epoch[o][i] <= dbSeq'[o]
    <3>1. epoch[o][i] \in Nat /\ dbSeq[o] \in Nat /\ dbSeq'[o] \in Nat
      BY DEF TypeOK
    <3> QED
      BY <3>1 DEF Fresh, EpochsOrdered
  <2> QED
    BY <2>1 DEF Fresh, EpochsOrdered
<1>2. EntriesFresh'
  BY DEF Fresh, EntriesFresh
<1>3. ReadersFresh'
  BY DEF Fresh, ReadersFresh, ReaderFresh, Org
<1> QED
  BY <1>1, <1>2, <1>3 DEF Fresh

\* The steps of a mutation.
LEMMA WriterFresh ==
  ASSUME TypeOK, TypeOK', Fresh, NEW w \in Writers, WriterStep(w)
  PROVE  Fresh'
<1>1. ASSUME NEW o \in Organizations, Commit(w, o)
      PROVE  Fresh'
  <2>1. \A x \in Organizations : dbSeq'[x] >= dbSeq[x]
    BY <1>1 DEF Commit, TypeOK
  <2> QED
    BY <1>1, <2>1, CommitFresh DEF Commit
<1>2. writer[w].pc = "bump" => writer[w].organizationId \in Organizations
  BY DEF TypeOK, WriterState, Idle
<1>3. CASE BumpOrgListCache(w)
  BY <1>2, <1>3, IncrFresh DEF BumpOrgListCache
<1>4. CASE BumpResent(w)
  BY <1>2, <1>4, IncrFresh DEF BumpResent
<1>5. CASE BumpFailed(w)
  <2>1. \A x \in Organizations : dbSeq'[x] >= dbSeq[x]
    BY <1>5 DEF BumpFailed, TypeOK
  <2> QED
    BY <1>5, <2>1, CommitFresh DEF BumpFailed
<1> QED
  BY <1>1, <1>3, <1>4, <1>5 DEF WriterStep

\* The steps of a list() change the state of that call; other calls are as
\* fresh as before.
LEMMA OneReaderFresh ==
  ASSUME TypeOK, Fresh, NEW r \in Readers, ReaderFresh(r)',
         \A x \in Readers \ {r} : reader'[x] = reader[x],
         UNCHANGED <<dbSeq, version, epoch>>
  PROVE  EpochsOrdered' /\ ReadersFresh'
<1>1. EpochsOrdered'
  BY DEF Fresh, EpochsOrdered
<1>2. ASSUME NEW x \in Readers \ {r}
      PROVE  ReaderFresh(x)'
  <2>1. reader'[x] = reader[x]
    BY <1>2
  <2> QED
    BY <2>1 DEF Fresh, ReadersFresh, ReaderFresh, Org
<1> QED
  BY <1>1, <1>2 DEF ReadersFresh

\* The new state of the call, for each of its steps.
LEMMA StepFresh ==
  ASSUME TypeOK, Fresh, NEW r \in Readers, ReaderStep(r)
  PROVE  ReaderFresh(r)'
<1>r. reader \in [Readers -> ReaderState]
  BY DEF TypeOK
<1>1. ASSUME NEW a \in Actors, NEW q \in Queries, List(r, a, q)
      PROVE  ReaderFresh(r)'
  <2>1. reader'[r] = [pc |-> "version", actor |-> a, query |-> q,
                      since |-> version[a.organizationId]]
    BY <1>r, <1>1 DEF List
  <2>2. version[a.organizationId] \in Nat /\ version' = version
    BY <1>1, ActorsAssumption DEF TypeOK, List, Actor
  <2> QED
    BY <2>1, <2>2 DEF ReaderFresh, Org
<1>2. ASSUME reader[r].pc # "idle"
      PROVE  /\ version[Org(r)] \in Nat
             /\ reader[r].since \in Nat
             /\ reader[r].pc # "version" => reader[r].version \in Nat
             /\ ReaderFresh(r)
  BY <1>2, ReaderFields DEF TypeOK, Fresh, ReadersFresh
<1>3. CASE GetOrgListVersion(r)
  <2>1. reader'[r] = WithVersion(r, version[Org(r)], FALSE)
    BY <1>r, <1>3, Zenon DEF GetOrgListVersion
  <2>2. /\ reader'[r].pc = "lookup"
        /\ reader'[r].since = reader[r].since
        /\ reader'[r].version = version[Org(r)]
        /\ reader'[r].actor = reader[r].actor
    BY <2>1 DEF WithVersion
  <2>3. reader[r].pc = "version" /\ version' = version
    BY <1>3 DEF GetOrgListVersion
  <2> QED
    BY <1>2, <2>2, <2>3 DEF ReaderFresh, Org
<1>4. CASE GetOrgListVersionFailed(r)
  <2>1. reader'[r] = WithVersion(r, 0, TRUE)
    BY <1>r, <1>4, Zenon DEF GetOrgListVersionFailed
  <2>2. /\ reader'[r].pc = "lookup"
        /\ reader'[r].since = reader[r].since
        /\ reader'[r].version = 0
        /\ reader'[r].versionFailed
        /\ reader'[r].actor = reader[r].actor
    BY <2>1 DEF WithVersion
  <2>3. reader[r].pc = "version" /\ version' = version
    BY <1>4, Zenon DEF GetOrgListVersionFailed
  <2> QED
    BY <1>2, <2>2, <2>3 DEF ReaderFresh, Org
<1>5. CASE GetHit(r)
  <2> DEFINE k == ReaderKey(r)
  <2>1. reader'[r] = WithResponse(r, "done", cache[k])
    BY <1>r, <1>5 DEF GetHit
  <2>2. /\ reader'[r].pc = "done"
        /\ reader'[r].since = reader[r].since
        /\ reader'[r].version = reader[r].version
        /\ reader'[r].versionFailed = reader[r].versionFailed
        /\ reader'[r].actor = reader[r].actor
        /\ reader'[r].response = cache[k]
    BY <2>1 DEF WithResponse
  <2>3. /\ reader[r].pc = "lookup"
        /\ k \in DOMAIN cache
        /\ version' = version
        /\ epoch' = epoch
    BY <1>5 DEF GetHit
  <2>4. k.organizationId = Org(r) /\ k.version = reader[r].version
    BY DEF ReaderKey, tasksListCacheEntryKey, Org
  <2>5. cache[k].seq >= epoch[Org(r)][reader[r].version + 1]
    BY <2>3, <2>4 DEF Fresh, EntriesFresh
  <2> HIDE DEF k
  <2> QED
    BY <1>2, <2>2, <2>3, <2>5 DEF ReaderFresh, Org
<1>6. CASE GetMiss(r) \/ GetFailed(r)
  <2>1. reader' = [reader EXCEPT ![r].pc = "select"] /\ reader[r].pc = "lookup"
    BY <1>6 DEF GetMiss, GetFailed
  <2>2. reader'[r] = [reader[r] EXCEPT !.pc = "select"] /\ reader[r] \in Looking
    BY <1>r, <2>1, ReaderSort
  <2>3. /\ reader'[r].pc = "select"
        /\ reader'[r].since = reader[r].since
        /\ reader'[r].version = reader[r].version
        /\ reader'[r].versionFailed = reader[r].versionFailed
        /\ reader'[r].actor = reader[r].actor
    BY <2>2 DEF Looking
  <2>4. version' = version
    BY <1>6 DEF GetMiss, GetFailed
  <2> QED
    BY <1>2, <2>1, <2>3, <2>4 DEF ReaderFresh, Org
<1>7. CASE FindAndCount(r)
  <2> DEFINE x == Response(reader[r].actor, reader[r].query, dbSeq[Org(r)])
  <2>1. reader'[r] = WithResponse(r, "store", x)
    BY <1>r, <1>7 DEF FindAndCount
  <2>2. /\ reader'[r].pc = "store"
        /\ reader'[r].since = reader[r].since
        /\ reader'[r].version = reader[r].version
        /\ reader'[r].versionFailed = reader[r].versionFailed
        /\ reader'[r].actor = reader[r].actor
        /\ reader'[r].response.seq = dbSeq[Org(r)]
    BY <2>1 DEF WithResponse, Response
  <2>3. reader[r].pc = "select" /\ version' = version /\ epoch' = epoch
    BY <1>7 DEF FindAndCount
  <2>4. Org(r) \in Organizations
    BY <2>3, ReaderFields
  <2>5. dbSeq[Org(r)] \in Nat /\ epoch[Org(r)] \in Seq(Nat)
    BY <2>4 DEF TypeOK
  <2>6. Len(epoch[Org(r)]) = version[Org(r)] + 1
    BY <2>4 DEF Fresh, EpochsOrdered
  <2>7. reader[r].version + 1 \in 1..Len(epoch[Org(r)])
    BY <1>2, <2>3, <2>6 DEF ReaderFresh
  <2>8. dbSeq[Org(r)] >= epoch[Org(r)][reader[r].version + 1]
    <3>1. epoch[Org(r)][reader[r].version + 1] <= dbSeq[Org(r)]
      BY <2>4, <2>7 DEF Fresh, EpochsOrdered
    <3>2. epoch[Org(r)][reader[r].version + 1] \in Nat
      BY <2>5, <2>7
    <3> QED
      BY <2>5, <3>1, <3>2
  <2> HIDE DEF x
  <2> QED
    BY <1>2, <2>2, <2>3, <2>8 DEF ReaderFresh, Org
<1>8. CASE Set(r) \/ SetFailed(r)
  <2>1. reader' = [reader EXCEPT ![r].pc = "done"] /\ reader[r].pc = "store"
    BY <1>8 DEF Set, SetFailed
  <2>2. reader'[r] = [reader[r] EXCEPT !.pc = "done"] /\ reader[r] \in Answering
    BY <1>r, <2>1, ReaderSort
  <2>3. /\ reader'[r].pc = "done"
        /\ reader'[r].since = reader[r].since
        /\ reader'[r].version = reader[r].version
        /\ reader'[r].versionFailed = reader[r].versionFailed
        /\ reader'[r].actor = reader[r].actor
        /\ reader'[r].response = reader[r].response
    BY <2>2 DEF Answering
  <2>4. version' = version /\ epoch' = epoch
    BY <1>8 DEF Set, SetFailed
  <2> QED
    BY <1>2, <2>1, <2>3, <2>4 DEF ReaderFresh, Org
<1>9. CASE SetResent(r)
  BY <1>2, <1>9 DEF SetResent, ReaderFresh, Org
<1>10. CASE Respond(r)
  BY <1>r, <1>10 DEF Respond, ReaderFresh, Idle
<1> QED
  BY <1>1, <1>3, <1>4, <1>5, <1>6, <1>7, <1>8, <1>9, <1>10 DEF ReaderStep

\* The entries after a step of a list(): what a SET adds is the answer of a
\* call, under the key of the version that call had read.
LEMMA StepEntriesFresh ==
  ASSUME TypeOK, Fresh, NEW r \in Readers, ReaderStep(r)
  PROVE  EntriesFresh'
<1>1. UNCHANGED <<version, epoch>>
  BY Zenon DEF ReaderStep, List, GetOrgListVersion, GetOrgListVersionFailed,
     GetHit, GetMiss, GetFailed, FindAndCount, Set, SetResent, SetFailed, Respond
<1>2. CASE Set(r) \/ SetResent(r)
  <2> DEFINE k == ReaderKey(r)
  <2>1. /\ reader[r].pc = "store"
        /\ Put(k, reader[r].response)
    BY <1>2 DEF Set, SetResent
  <2>2. k.organizationId = Org(r) /\ k.version = reader[r].version
    BY DEF ReaderKey, tasksListCacheEntryKey, Org
  <2>3. /\ k.version <= version[k.organizationId]
        /\ reader[r].response.seq >= epoch[k.organizationId][k.version + 1]
    BY <2>1, <2>2 DEF Fresh, ReadersFresh, ReaderFresh
  <2> HIDE DEF k
  <2>4. ASSUME NEW x \in DOMAIN cache'
        PROVE  /\ x.version <= version[x.organizationId]
               /\ cache'[x].seq >= epoch[x.organizationId][x.version + 1]
    <3>1. CASE x = k
      BY <2>1, <2>3, <3>1 DEF Put
    <3>2. CASE x # k
      <4>1. x \in DOMAIN cache /\ cache'[x] = cache[x]
        BY <2>1, <2>4, <3>2 DEF Put
      <4> QED
        BY <4>1 DEF Fresh, EntriesFresh
    <3> QED
      BY <3>1, <3>2
  <2> QED
    BY <1>1, <2>4 DEF EntriesFresh
<1>3. CASE UNCHANGED cache
  BY <1>1, <1>3 DEF Fresh, EntriesFresh
<1> QED
  BY <1>2, <1>3, Zenon
     DEF ReaderStep, List, GetOrgListVersion, GetOrgListVersionFailed,
         GetHit, GetMiss, GetFailed, FindAndCount, SetFailed, Respond

LEMMA ReaderStepFresh ==
  ASSUME TypeOK, Fresh, NEW r \in Readers, ReaderStep(r)
  PROVE  Fresh'
<1>1. UNCHANGED <<dbSeq, version, epoch>>
  BY Zenon DEF ReaderStep, List, GetOrgListVersion, GetOrgListVersionFailed,
     GetHit, GetMiss, GetFailed, FindAndCount, Set, SetResent, SetFailed, Respond
<1>2. ASSUME NEW x \in Readers \ {r}
      PROVE  reader'[x] = reader[x]
  <2>1. reader \in [Readers -> ReaderState]
    BY DEF TypeOK
  <2>2. \/ \E s : reader' = [reader EXCEPT ![r] = s]
        \/ reader' = reader
    BY Zenon DEF ReaderStep, List, GetOrgListVersion, GetOrgListVersionFailed,
       GetHit, GetMiss, GetFailed, FindAndCount, Set, SetResent, SetFailed, Respond
  <2> QED
    BY <1>2, <2>1, <2>2
<1>3. EpochsOrdered' /\ ReadersFresh'
  BY <1>1, <1>2, StepFresh, OneReaderFresh
<1> QED
  BY <1>3, StepEntriesFresh DEF Fresh

\* The inductive invariant, and its three facts.
FreshInv == TypeOK /\ VersionTellsFreshness

LEMMA FreshInit == Init => FreshInv
<1> SUFFICES ASSUME Init PROVE VersionTellsFreshness
  BY InitType DEF FreshInv
<1>1. EpochsOrdered
  BY DEF Init, EpochsOrdered
<1>2. EntriesFresh
  BY DEF Init, EntriesFresh, NoEntries
<1>3. ReadersFresh
  BY DEF Init, ReadersFresh, ReaderFresh, Idle
<1> QED
  BY <1>1, <1>2, <1>3 DEF VersionTellsFreshness

LEMMA FreshNext ==
  ASSUME FreshInv, [Next]_vars
  PROVE  FreshInv'
<1>1. TypeOK /\ TypeOK'
  BY NextType DEF FreshInv
<1>2. SUFFICES ASSUME crashes' = 0 PROVE Fresh'
  BY <1>1 DEF FreshInv, VersionTellsFreshness, Fresh
<1>3. ~RedisCrash /\ crashes = 0
  <2>1. crashes \in Nat
    BY <1>1 DEF TypeOK
  <2>2. ~RedisCrash
    BY <1>2, <2>1 DEF RedisCrash
  <2>3. crashes' = crashes
    BY <2>2, Zenon
       DEF Next, vars, ReaderStep, WriterStep, List, GetOrgListVersion,
           GetOrgListVersionFailed, GetHit, GetMiss, GetFailed, FindAndCount,
           Set, SetResent, SetFailed, Respond, Commit, BumpOrgListCache,
           BumpResent, BumpFailed, HandleTaskOverdue, Expire, Fsync, ProcessExit
  <2> QED
    BY <1>2, <2>2, <2>3
<1>4. Fresh
  BY <1>3 DEF FreshInv, VersionTellsFreshness, Fresh
<1>5. ASSUME NEW r \in Readers, ReaderStep(r)
      PROVE  Fresh'
  BY <1>1, <1>4, <1>5, ReaderStepFresh
<1>6. ASSUME NEW w \in Writers, WriterStep(w)
      PROVE  Fresh'
  BY <1>1, <1>4, <1>6, WriterFresh
<1>7. ASSUME NEW os \in SUBSET Organizations, HandleTaskOverdue(os)
      PROVE  Fresh'
  <2>1. \A o \in Organizations : dbSeq'[o] >= dbSeq[o]
    BY <1>1, <1>7 DEF HandleTaskOverdue, TypeOK
  <2> QED
    BY <1>1, <1>4, <1>7, <2>1, CommitFresh DEF HandleTaskOverdue
<1>8. ASSUME NEW k \in DOMAIN cache, Expire(k)
      PROVE  Fresh'
  <2>1. \A x \in DOMAIN cache' : x \in DOMAIN cache /\ cache'[x] = cache[x]
    BY <1>8 DEF Expire, Without
  <2>2. UNCHANGED <<dbSeq, version, reader, epoch>>
    BY <1>8 DEF Expire
  <2> QED
    BY <1>4, <2>1, <2>2
       DEF Fresh, EpochsOrdered, EntriesFresh, ReadersFresh, ReaderFresh, Org
<1>9. CASE Fsync \/ UNCHANGED vars
  <2>1. UNCHANGED <<dbSeq, version, cache, reader, epoch>>
    BY <1>9 DEF Fsync, vars
  <2> QED
    BY <1>4, <2>1
       DEF Fresh, EpochsOrdered, EntriesFresh, ReadersFresh, ReaderFresh, Org
<1>10. CASE ProcessExit
  <2>1. EpochsOrdered' /\ EntriesFresh'
    BY <1>4, <1>10 DEF Fresh, EpochsOrdered, EntriesFresh, ProcessExit
  <2>2. ReadersFresh'
    BY <1>10 DEF ProcessExit, ReadersFresh, ReaderFresh, Idle
  <2> QED
    BY <2>1, <2>2 DEF Fresh
<1> QED
  BY <1>3, <1>5, <1>6, <1>7, <1>8, <1>9, <1>10 DEF Next

\* Every entry of the cache, and every answer on its way into it, is at least
\* as fresh as the version in its key says (bumpOrgListCache and list()).
THEOREM EntriesAsFreshAsTheirVersion == Spec => []VersionTellsFreshness
<1>1. FreshInv /\ [Next]_vars => FreshInv'
  BY FreshNext
<1>2. FreshInv => VersionTellsFreshness
  BY DEF FreshInv
<1> QED
  BY FreshInit, <1>1, <1>2, PTL DEF Spec

\* Two places of a growing sequence that is indexed from 0.
LEMMA GrowingSequence ==
  ASSUME NEW e \in Seq(Nat), NEW i \in Nat, NEW j \in Nat, NEW n \in Nat,
         Len(e) = n + 1, i <= j, j <= n,
         \A x, y \in 1..Len(e) : x <= y => e[x] <= e[y]
  PROVE  e[i + 1] \in Nat /\ e[j + 1] \in Nat /\ e[i + 1] <= e[j + 1]
<1>1. i + 1 \in 1..Len(e) /\ j + 1 \in 1..Len(e) /\ i + 1 <= j + 1
  OBVIOUS
<1> QED
  BY <1>1

LEMMA FreshImpliesReadYourWrites == FreshInv => ReadYourWrites
<1> SUFFICES ASSUME FreshInv, NEW r \in Readers, reader[r].pc = "done",
                    ~reader[r].versionFailed, crashes = 0
             PROVE  reader[r].response.seq >= epoch[Org(r)][reader[r].since + 1]
  BY DEF ReadYourWrites
<1> DEFINE e == epoch[Org(r)]
           v == reader[r].version
           since == reader[r].since
<1>1. TypeOK /\ EpochsOrdered /\ ReaderFresh(r)
  BY DEF FreshInv, VersionTellsFreshness, ReadersFresh
<1>2. /\ Org(r) \in Organizations
      /\ since \in Nat
      /\ v \in Nat
      /\ reader[r].response.seq \in Nat
  BY <1>1, ReaderFields DEF ListResponse
<1>3. since <= v /\ v <= version[Org(r)] /\ reader[r].response.seq >= e[v + 1]
  BY <1>1 DEF ReaderFresh
<1>4. e \in Seq(Nat) /\ version[Org(r)] \in Nat /\ Len(e) = version[Org(r)] + 1
  BY <1>1, <1>2 DEF TypeOK, EpochsOrdered
<1>5. \A i, j \in 1..Len(e) : i <= j => e[i] <= e[j]
  BY <1>1, <1>2 DEF EpochsOrdered
<1> HIDE DEF e, v, since
<1>6. /\ e[since + 1] \in Nat
      /\ e[v + 1] \in Nat
      /\ e[since + 1] <= e[v + 1]
  BY <1>2, <1>3, <1>4, <1>5, GrowingSequence
<1>7. reader[r].response.seq >= e[since + 1]
  BY <1>2, <1>3, <1>6
<1> QED
  BY <1>7 DEF e, since

\* A list request whose GET of the version worked reflects every mutation
\* whose bump was applied before the request began, for any number of
\* concurrent list and mutation requests and any failing or repeated calls.
THEOREM ReadsSeeBumpedWrites == Spec => []ReadYourWrites
<1>1. FreshInv /\ [Next]_vars => FreshInv'
  BY FreshNext
<1> QED
  BY FreshInit, <1>1, FreshImpliesReadYourWrites, PTL DEF Spec

-----------------------------------------------------------------------------
(***************************************************************************)
(* Visibility.  An entry may be read by another actor and another query     *)
(* than those it was computed for; that is right because the key determines *)
(* the WHERE clause and the page.                                           *)
(***************************************************************************)

LEMMA KeyDeterminesWhere ==
  ASSUME NEW a \in Actors, NEW q \in Queries, NEW v,
         NEW b \in Actors, NEW p \in Queries, NEW u,
         tasksListCacheEntryKey(v, a, q) = tasksListCacheEntryKey(u, b, p)
  PROVE  Where(a, q) = Where(b, p) /\ q.page = p.page
<1>1. /\ a.organizationId = b.organizationId
      /\ tasksListScope(a) = tasksListScope(b)
      /\ tasksListFiltersHash(a, q) = tasksListFiltersHash(b, p)
  BY DEF tasksListCacheEntryKey
<1>2. /\ q.page = p.page
      /\ q.status = p.status
      /\ q.priority = p.priority
  BY <1>1 DEF tasksListFiltersHash
<1>3. /\ a.role = "employee" <=> b.role = "employee"
      /\ a.role = "employee" => a.sub = b.sub
  BY <1>1 DEF tasksListScope
<1>4. a.role # "employee" => q.assigneeId = p.assigneeId
  BY <1>1, <1>3 DEF tasksListFiltersHash
<1> QED
  BY <1>1, <1>2, <1>3, <1>4 DEF Where

\* The entries of c are what any actor and query with their key would ask for.
EntriesMatch(c) ==
  \A k \in DOMAIN c, a \in Actors, q \in Queries :
    tasksListCacheEntryKey(k.version, a, q) = k =>
      c[k].where = Where(a, q) /\ c[k].page = q.page

ReaderMatches(r) ==
  reader[r].pc \in {"store", "done"} =>
    /\ reader[r].response.where = Where(reader[r].actor, reader[r].query)
    /\ reader[r].response.page = reader[r].query.page

MatchInv ==
  /\ TypeOK
  /\ EntriesMatch(cache)
  /\ EntriesMatch(durable.cache)
  /\ \A r \in Readers : ReaderMatches(r)

LEMMA MatchInit == Init => MatchInv
BY InitType DEF Init, MatchInv, EntriesMatch, NoEntries, ReaderMatches, Idle

\* The state of a list() after each of its steps.
LEMMA StepMatches ==
  ASSUME MatchInv, NEW r \in Readers, ReaderStep(r)
  PROVE  ReaderMatches(r)'
<1>1. TypeOK /\ reader \in [Readers -> ReaderState] /\ ReaderMatches(r)
  BY DEF MatchInv, TypeOK
<1>2. ASSUME NEW a \in Actors, NEW q \in Queries, List(r, a, q)
      PROVE  ReaderMatches(r)'
  BY <1>1, <1>2 DEF List, ReaderMatches
<1>3. CASE GetOrgListVersion(r) \/ GetOrgListVersionFailed(r)
  <2>1. \E v, failed : reader' = [reader EXCEPT ![r] = WithVersion(r, v, failed)]
    BY <1>3, Zenon DEF GetOrgListVersion, GetOrgListVersionFailed
  <2>2. reader'[r].pc = "lookup"
    BY <1>1, <2>1 DEF WithVersion
  <2> QED
    BY <2>2 DEF ReaderMatches
<1>4. ASSUME NEW pc, NEW x,
             reader' = [reader EXCEPT ![r] = WithResponse(r, pc, x)],
             x.where = Where(reader[r].actor, reader[r].query),
             x.page = reader[r].query.page
      PROVE  ReaderMatches(r)'
  <2>1. /\ reader'[r].actor = reader[r].actor
        /\ reader'[r].query = reader[r].query
        /\ reader'[r].response = x
    BY <1>1, <1>4 DEF WithResponse
  <2> QED
    BY <1>4, <2>1 DEF ReaderMatches
<1>5. CASE GetHit(r)
  <2> DEFINE k == ReaderKey(r)
  <2>1. /\ k \in DOMAIN cache
        /\ reader[r].pc = "lookup"
        /\ reader' = [reader EXCEPT ![r] = WithResponse(r, "done", cache[k])]
    BY <1>5 DEF GetHit
  <2>2. reader[r].actor \in Actors /\ reader[r].query \in Queries
    BY <1>1, <2>1, ReaderFields
  <2>3. k.version = reader[r].version
    BY DEF ReaderKey, tasksListCacheEntryKey
  <2>4. tasksListCacheEntryKey(k.version, reader[r].actor, reader[r].query) = k
    BY <2>3 DEF ReaderKey
  <2> HIDE DEF k
  <2>5. /\ cache[k].where = Where(reader[r].actor, reader[r].query)
        /\ cache[k].page = reader[r].query.page
    BY <2>1, <2>2, <2>4 DEF MatchInv, EntriesMatch
  <2> QED
    BY <1>4, <2>1, <2>5
<1>6. CASE GetMiss(r) \/ GetFailed(r)
  <2>1. reader' = [reader EXCEPT ![r].pc = "select"] /\ reader[r].pc = "lookup"
    BY <1>6 DEF GetMiss, GetFailed
  <2>2. reader'[r] = [reader[r] EXCEPT !.pc = "select"] /\ reader[r] \in Looking
    BY <1>1, <2>1, ReaderSort
  <2> QED
    BY <2>2 DEF Looking, ReaderMatches
<1>7. CASE FindAndCount(r)
  <2> DEFINE x == Response(reader[r].actor, reader[r].query, dbSeq[Org(r)])
  <2>1. reader' = [reader EXCEPT ![r] = WithResponse(r, "store", x)]
    BY <1>7 DEF FindAndCount
  <2>2. /\ x.where = Where(reader[r].actor, reader[r].query)
        /\ x.page = reader[r].query.page
    BY DEF Response
  <2> HIDE DEF x
  <2> QED
    BY <1>4, <2>1, <2>2
<1>8. CASE Set(r) \/ SetFailed(r)
  <2>1. reader' = [reader EXCEPT ![r].pc = "done"] /\ reader[r].pc = "store"
    BY <1>8 DEF Set, SetFailed
  <2>2. reader'[r] = [reader[r] EXCEPT !.pc = "done"] /\ reader[r] \in Answering
    BY <1>1, <2>1, ReaderSort
  <2>3. /\ reader'[r].actor = reader[r].actor
        /\ reader'[r].query = reader[r].query
        /\ reader'[r].response = reader[r].response
    BY <2>2 DEF Answering
  <2> QED
    BY <1>1, <2>1, <2>3 DEF ReaderMatches
<1>9. CASE SetResent(r)
  BY <1>1, <1>9 DEF SetResent, ReaderMatches
<1>10. CASE Respond(r)
  BY <1>1, <1>10 DEF Respond, ReaderMatches, Idle
<1> QED
  BY <1>2, <1>3, <1>5, <1>6, <1>7, <1>8, <1>9, <1>10 DEF ReaderStep

\* The entries after a step of a list().
LEMMA StepEntriesMatch ==
  ASSUME MatchInv, NEW r \in Readers, ReaderStep(r)
  PROVE  EntriesMatch(cache')
<1>1. CASE Set(r) \/ SetResent(r)
  <2> DEFINE k == ReaderKey(r)
  <2>1. reader[r].pc = "store" /\ Put(k, reader[r].response)
    BY <1>1 DEF Set, SetResent
  <2>2. reader[r].actor \in Actors /\ reader[r].query \in Queries
    BY <2>1, ReaderFields DEF MatchInv
  <2>3. ASSUME NEW a \in Actors, NEW q \in Queries, NEW v,
               tasksListCacheEntryKey(v, a, q) = k
        PROVE  /\ reader[r].response.where = Where(a, q)
               /\ reader[r].response.page = q.page
    <3>1. /\ Where(a, q) = Where(reader[r].actor, reader[r].query)
          /\ q.page = reader[r].query.page
      BY <2>2, <2>3, KeyDeterminesWhere DEF ReaderKey
    <3> QED
      BY <2>1, <3>1 DEF MatchInv, ReaderMatches
  <2> HIDE DEF k
  <2>4. ASSUME NEW x \in DOMAIN cache', NEW a \in Actors, NEW q \in Queries,
               tasksListCacheEntryKey(x.version, a, q) = x
        PROVE  cache'[x].where = Where(a, q) /\ cache'[x].page = q.page
    <3>1. CASE x = k
      <4>1. cache'[x] = reader[r].response
        BY <2>1, <3>1 DEF Put
      <4> QED
        BY <2>3, <2>4, <3>1, <4>1
    <3>2. CASE x # k
      <4>1. x \in DOMAIN cache /\ cache'[x] = cache[x]
        BY <2>1, <2>4, <3>2 DEF Put
      <4> QED
        BY <2>4, <4>1 DEF MatchInv, EntriesMatch
    <3> QED
      BY <3>1, <3>2
  <2> QED
    BY <2>4 DEF EntriesMatch
<1>2. CASE UNCHANGED cache
  BY <1>2 DEF MatchInv
<1> QED
  BY <1>1, <1>2, Zenon
     DEF ReaderStep, List, GetOrgListVersion, GetOrgListVersionFailed,
         GetHit, GetMiss, GetFailed, FindAndCount, SetFailed, Respond

LEMMA MatchNext ==
  ASSUME MatchInv, [Next]_vars
  PROVE  MatchInv'
<1>1. TypeOK'
  BY NextType DEF MatchInv
<1>2. SUFFICES /\ EntriesMatch(cache')
               /\ EntriesMatch(durable'.cache)
               /\ \A r \in Readers : ReaderMatches(r)'
  BY <1>1 DEF MatchInv, EntriesMatch
<1>3. ASSUME NEW r \in Readers, ReaderStep(r)
      PROVE  /\ EntriesMatch(cache')
             /\ EntriesMatch(durable'.cache)
             /\ \A x \in Readers : ReaderMatches(x)'
  <2>1. durable' = durable
    BY <1>3, Zenon DEF ReaderStep, List, GetOrgListVersion,
       GetOrgListVersionFailed, GetHit, GetMiss, GetFailed, FindAndCount, Set,
       SetResent, SetFailed, Respond
  <2>2. ASSUME NEW x \in Readers \ {r}
        PROVE  ReaderMatches(x)'
    <3>1. reader \in [Readers -> ReaderState] /\ ReaderMatches(x)
      BY DEF MatchInv, TypeOK
    <3>2. \/ \E s : reader' = [reader EXCEPT ![r] = s]
          \/ reader' = reader
      BY <1>3, Zenon DEF ReaderStep, List, GetOrgListVersion,
         GetOrgListVersionFailed, GetHit, GetMiss, GetFailed, FindAndCount, Set,
         SetResent, SetFailed, Respond
    <3>3. reader'[x] = reader[x]
      BY <2>2, <3>1, <3>2
    <3> QED
      BY <3>1, <3>3 DEF ReaderMatches
  <2> QED
    BY <1>3, <2>1, <2>2, StepMatches, StepEntriesMatch DEF MatchInv
<1>4. ASSUME UNCHANGED reader
      PROVE  \A r \in Readers : ReaderMatches(r)'
  BY <1>4 DEF MatchInv, ReaderMatches
<1>5. ASSUME NEW w \in Writers, WriterStep(w)
      PROVE  UNCHANGED <<cache, durable, reader>>
  BY <1>5 DEF WriterStep, Commit, BumpOrgListCache, BumpResent, BumpFailed
<1>6. ASSUME NEW os \in SUBSET Organizations, HandleTaskOverdue(os)
      PROVE  UNCHANGED <<cache, durable, reader>>
  BY <1>6 DEF HandleTaskOverdue
<1>7. ASSUME NEW k \in DOMAIN cache, Expire(k)
      PROVE  /\ EntriesMatch(cache')
             /\ UNCHANGED <<durable, reader>>
  <2>1. \A x \in DOMAIN cache' : x \in DOMAIN cache /\ cache'[x] = cache[x]
    BY <1>7 DEF Expire, Without
  <2>2. EntriesMatch(cache)
    BY DEF MatchInv
  <2>3. EntriesMatch(cache')
    BY <2>1, <2>2 DEF EntriesMatch
  <2> QED
    BY <1>7, <2>3 DEF Expire
<1>8. CASE Fsync
  <2>1. durable'.cache = cache /\ UNCHANGED <<cache, reader>>
    BY <1>8 DEF Fsync
  <2> QED
    BY <1>4, <2>1 DEF MatchInv
<1>9. CASE RedisCrash
  <2>1. cache' = durable.cache /\ UNCHANGED <<durable, reader>>
    BY <1>9 DEF RedisCrash
  <2> QED
    BY <1>4, <2>1 DEF MatchInv
<1>10. CASE ProcessExit
  <2>1. \A r \in Readers : ReaderMatches(r)'
    BY <1>10 DEF ProcessExit, ReaderMatches, Idle
  <2>2. UNCHANGED <<cache, durable>>
    BY <1>10 DEF ProcessExit
  <2> QED
    BY <2>1, <2>2 DEF MatchInv
<1>11. CASE UNCHANGED vars
  BY <1>4, <1>11 DEF vars, MatchInv
<1> QED
  BY <1>3, <1>4, <1>5, <1>6, <1>7, <1>8, <1>9, <1>10, <1>11 DEF Next, MatchInv

\* What list() answers was computed for the organization, the visibility, the
\* filters and the page of the request, whoever filled the entry.
THEOREM AnswersMatchRequests == Spec => []ServedMatchesRequest
<1>1. MatchInv /\ [Next]_vars => MatchInv'
  BY MatchNext
<1>2. MatchInv => ServedMatchesRequest
  BY DEF MatchInv, ReaderMatches, ServedMatchesRequest
<1> QED
  BY MatchInit, <1>1, <1>2, PTL DEF Spec

-----------------------------------------------------------------------------
(***************************************************************************)
(* Staleness runs out.                                                     *)
(***************************************************************************)

\* A call that is about to store an old answer after a step was so before it:
\* the only step that gives a call an answer to store reads the database.
LEMMA StaleCallStays ==
  ASSUME TypeOK, [Next]_vars, dbSeq' = dbSeq,
         NEW r \in Readers, r \in StaleCalls'
  PROVE  r \in StaleCalls /\ reader'[r] = reader[r]
<1>1. /\ reader'[r].pc = "store"
      /\ reader'[r].response.seq < dbSeq[reader'[r].actor.organizationId]
  BY DEF StaleCalls, Org
<1>2. ASSUME reader'[r] = reader[r]
      PROVE  r \in StaleCalls /\ reader'[r] = reader[r]
  BY <1>1, <1>2 DEF StaleCalls, Org
<1>3. reader \in [Readers -> ReaderState]
  BY DEF TypeOK
<1>4. ASSUME NEW x \in Readers, ReaderStep(x), reader'[r] # reader[r]
      PROVE  FALSE
  <2>1. \E s : reader' = [reader EXCEPT ![x] = s]
    BY <1>3, <1>4 DEF ReaderStep, List, GetOrgListVersion,
       GetOrgListVersionFailed, GetHit, GetMiss, GetFailed, FindAndCount, Set,
       SetResent, SetFailed, Respond
  <2>2. x = r
    BY <1>3, <1>4, <2>1
  <2>3. ReaderStep(r)
    BY <1>4, <2>2
  <2>4. CASE FindAndCount(r)
    <3>1. reader'[r] = WithResponse(r, "store",
                 Response(reader[r].actor, reader[r].query, dbSeq[Org(r)]))
      BY <1>3, <2>4 DEF FindAndCount
    <3>2. /\ reader'[r].actor = reader[r].actor
          /\ reader'[r].response.seq = dbSeq[Org(r)]
      BY <3>1 DEF WithResponse, Response
    <3>3. dbSeq[Org(r)] \in Nat
      BY <2>4, ReaderFields DEF FindAndCount, TypeOK
    <3> QED
      BY <1>1, <3>2, <3>3 DEF Org
  <2>5. CASE ~FindAndCount(r)
    <3>1. CASE GetMiss(r) \/ GetFailed(r)
      <4>1. reader[r] \in Looking
        BY <3>1, ReaderSort DEF GetMiss, GetFailed
      <4> QED
        BY <1>1, <1>3, <3>1, <4>1 DEF GetMiss, GetFailed, Looking
    <3>2. CASE Set(r) \/ SetFailed(r)
      <4>1. reader[r] \in Answering
        BY <3>2, ReaderSort DEF Set, SetFailed
      <4> QED
        BY <1>1, <1>3, <3>2, <4>1 DEF Set, SetFailed, Answering
    <3>3. CASE \/ \E a \in Actors, q \in Queries : List(r, a, q)
               \/ GetOrgListVersion(r) \/ GetOrgListVersionFailed(r)
               \/ GetHit(r) \/ Respond(r)
      BY <1>1, <1>3, <3>3 DEF List, GetOrgListVersion, GetOrgListVersionFailed,
         GetHit, Respond, WithVersion, WithResponse, Idle
    <3>4. CASE SetResent(r)
      BY <1>4, <3>4 DEF SetResent
    <3> QED
      BY <2>3, <2>5, <3>1, <3>2, <3>3, <3>4 DEF ReaderStep
  <2> QED
    BY <2>4, <2>5
<1>5. CASE UNCHANGED reader
  BY <1>2, <1>5
<1>6. ASSUME NEW w \in Writers, WriterStep(w)
      PROVE  UNCHANGED reader
  BY <1>6 DEF WriterStep, Commit, BumpOrgListCache, BumpResent, BumpFailed
<1>7. ASSUME NEW os \in SUBSET Organizations, HandleTaskOverdue(os)
      PROVE  UNCHANGED reader
  BY <1>7 DEF HandleTaskOverdue
<1>8. ASSUME NEW k \in DOMAIN cache, Expire(k)
      PROVE  UNCHANGED reader
  BY <1>8 DEF Expire
<1>9. CASE Fsync \/ RedisCrash \/ UNCHANGED vars
  BY <1>5, <1>9 DEF Fsync, RedisCrash, vars
<1>10. CASE ProcessExit
  BY <1>1, <1>10 DEF ProcessExit, Idle
<1> QED
  BY <1>2, <1>4, <1>5, <1>6, <1>7, <1>8, <1>9, <1>10 DEF Next

\* Where an entry of the cache comes from: the cache before the step, the file
\* of Redis, or the answer of a call, under the key of that call.
LEMMA EntryOrigin ==
  ASSUME [Next]_vars, NEW k \in DOMAIN cache'
  PROVE  \/ k \in DOMAIN cache /\ cache'[k] = cache[k]
         \/ k \in DOMAIN durable.cache /\ cache'[k] = durable.cache[k]
         \/ \E r \in Readers : /\ reader[r].pc = "store"
                               /\ k = ReaderKey(r)
                               /\ cache'[k] = reader[r].response
<1> DEFINE Goal ==
      \/ k \in DOMAIN cache /\ cache'[k] = cache[k]
      \/ k \in DOMAIN durable.cache /\ cache'[k] = durable.cache[k]
      \/ \E r \in Readers : /\ reader[r].pc = "store"
                            /\ k = ReaderKey(r)
                            /\ cache'[k] = reader[r].response
<1>1. CASE UNCHANGED cache
  BY <1>1
<1>2. ASSUME NEW r \in Readers, ReaderStep(r), cache' # cache
      PROVE  Goal
  <2>1. reader[r].pc = "store" /\ Put(ReaderKey(r), reader[r].response)
    BY <1>2 DEF ReaderStep, List, GetOrgListVersion, GetOrgListVersionFailed,
       GetHit, GetMiss, GetFailed, FindAndCount, Set, SetResent, SetFailed,
       Respond
  <2> QED
    BY <2>1 DEF Put
<1>3. ASSUME NEW w \in Writers, WriterStep(w)
      PROVE  UNCHANGED cache
  BY <1>3 DEF WriterStep, Commit, BumpOrgListCache, BumpResent, BumpFailed
<1>4. ASSUME NEW os \in SUBSET Organizations, HandleTaskOverdue(os)
      PROVE  UNCHANGED cache
  BY <1>4 DEF HandleTaskOverdue
<1>5. ASSUME NEW x \in DOMAIN cache, Expire(x)
      PROVE  Goal
  BY <1>5 DEF Expire, Without
<1>6. CASE Fsync \/ ProcessExit \/ UNCHANGED vars
  BY <1>1, <1>6 DEF Fsync, ProcessExit, vars
<1>7. CASE RedisCrash
  BY <1>7 DEF RedisCrash
<1> QED
  BY <1>1, <1>2, <1>3, <1>4, <1>5, <1>6, <1>7 DEF Next

\* The file of Redis is as it was, or what the cache was.
LEMMA FileOrigin ==
  ASSUME [Next]_vars
  PROVE  durable'.cache = durable.cache \/ durable'.cache = cache
<1>1. ASSUME NEW r \in Readers, ReaderStep(r)
      PROVE  UNCHANGED durable
  BY <1>1 DEF ReaderStep, List, GetOrgListVersion, GetOrgListVersionFailed,
     GetHit, GetMiss, GetFailed, FindAndCount, Set, SetResent, SetFailed, Respond
<1>2. ASSUME NEW w \in Writers, WriterStep(w)
      PROVE  UNCHANGED durable
  BY <1>2 DEF WriterStep, Commit, BumpOrgListCache, BumpResent, BumpFailed
<1>3. ASSUME NEW os \in SUBSET Organizations, HandleTaskOverdue(os)
      PROVE  UNCHANGED durable
  BY <1>3 DEF HandleTaskOverdue
<1>4. ASSUME NEW k \in DOMAIN cache, Expire(k)
      PROVE  UNCHANGED durable
  BY <1>4 DEF Expire
<1>5. CASE Fsync
  BY <1>5 DEF Fsync
<1>6. CASE RedisCrash \/ ProcessExit \/ UNCHANGED vars
  BY <1>6 DEF RedisCrash, ProcessExit, vars
<1> QED
  BY <1>1, <1>2, <1>3, <1>4, <1>5, <1>6 DEF Next

\* A step that changes no task brings in nothing stale.
LEMMA StaleNext ==
  ASSUME TypeOK, [Next]_vars, dbSeq' = dbSeq
  PROVE  /\ StaleFills' \subseteq StaleFills
         /\ StaleEntries' \subseteq
              StaleEntries \cup {<<f[2], f[3]>> : f \in StaleFills}
<1>1. ASSUME NEW f \in StaleFills'
      PROVE  f \in StaleFills
  <2>1. PICK r \in Readers :
               /\ r \in StaleCalls'
               /\ f = <<r, ReaderKey(r)', reader'[r].response>>
    BY DEF StaleFills, StaleCalls
  <2>2. r \in StaleCalls /\ reader'[r] = reader[r]
    BY <2>1, StaleCallStays
  <2>3. f = <<r, ReaderKey(r), reader[r].response>>
    BY <2>1, <2>2 DEF ReaderKey
  <2> QED
    BY <2>2, <2>3 DEF StaleFills
<1>2. ASSUME NEW k \in DOMAIN cache', cache'[k].seq < dbSeq[k.organizationId]
      PROVE  <<k, cache'[k]>> \in
               StaleEntries \cup {<<f[2], f[3]>> : f \in StaleFills}
  <2>1. CASE k \in DOMAIN cache /\ cache'[k] = cache[k]
    BY <1>2, <2>1 DEF StaleEntries, StaleIn
  <2>2. CASE k \in DOMAIN durable.cache /\ cache'[k] = durable.cache[k]
    BY <1>2, <2>2 DEF StaleEntries, StaleIn
  <2>3. ASSUME NEW r \in Readers, reader[r].pc = "store", k = ReaderKey(r),
               cache'[k] = reader[r].response
        PROVE  <<k, cache'[k]>> \in {<<f[2], f[3]>> : f \in StaleFills}
    <3>1. k.organizationId = Org(r)
      BY <2>3 DEF ReaderKey, tasksListCacheEntryKey, Org
    <3>2. r \in StaleCalls
      BY <1>2, <2>3, <3>1 DEF StaleCalls
    <3>3. <<r, k, cache'[k]>> \in StaleFills
      BY <2>3, <3>2 DEF StaleFills
    <3> QED
      BY <3>3
  <2> QED
    BY <1>2, <2>1, <2>2, <2>3, EntryOrigin
<1>3. StaleIn(cache)' \subseteq
        StaleEntries \cup {<<f[2], f[3]>> : f \in StaleFills}
  BY <1>2 DEF StaleIn
<1>4. StaleIn(durable.cache)' \subseteq StaleEntries
  BY FileOrigin DEF StaleIn, StaleEntries
<1> QED
  BY <1>1, <1>3, <1>4 DEF StaleEntries

\* While the tasks do not change, every old answer in the cache, in the file of
\* Redis or about to be stored was one of these before, under the same key:
\* staleness has no source but a commit, and the TTL uses it up.
THEOREM StalenessRunsOut == Spec => StaleRunsOut
<1>1. TypeOK /\ [Next]_vars =>
        [dbSeq' = dbSeq =>
           /\ StaleFills' \subseteq StaleFills
           /\ StaleEntries' \subseteq
                StaleEntries \cup {<<f[2], f[3]>> : f \in StaleFills}]_vars
  BY StaleNext
<1> QED
  BY TypeCorrect, <1>1, PTL DEF Spec, StaleRunsOut
=============================================================================
