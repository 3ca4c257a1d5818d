----------------------- MODULE TasksListPromiseProofs -----------------------
(***************************************************************************)
(* The cache of GET /tasks implements TasksListPromise, for all             *)
(* organizations, actors, queries, numbers of concurrent calls and bounds:  *)
(* the initial states map to initial states and every step to a step of the *)
(* promise or to a stutter.                                                 *)
(***************************************************************************)
EXTENDS TasksListCacheProofs

-----------------------------------------------------------------------------
(***************************************************************************)
(* Nothing comes from the future: an answer may lag behind the database,    *)
(* and a crash of Redis may bring back an old one, but none is ahead of it. *)
(***************************************************************************)

EntriesPast(c) == \A k \in DOMAIN c : c[k].seq <= dbSeq[k.organizationId]

ReaderPast(r) ==
  reader[r].pc \in {"store", "done"} => reader[r].response.seq <= dbSeq[Org(r)]

PastInv ==
  /\ TypeOK
  /\ EntriesPast(cache)
  /\ EntriesPast(durable.cache)
  /\ \A r \in Readers : ReaderPast(r)

LEMMA PastInit == Init => PastInv
BY InitType DEF Init, PastInv, EntriesPast, NoEntries, ReaderPast, Idle

\* The database only gets newer, so what was past stays past.
LEMMA PastStays ==
  ASSUME TypeOK, NEW c, CacheState(c), EntriesPast(c),
         \A o \in Organizations : dbSeq'[o] \in Nat /\ dbSeq'[o] >= dbSeq[o]
  PROVE  \A k \in DOMAIN c : c[k].seq <= dbSeq'[k.organizationId]
<1> SUFFICES ASSUME NEW k \in DOMAIN c
             PROVE  c[k].seq <= dbSeq'[k.organizationId]
  OBVIOUS
<1>1. k.organizationId \in Organizations /\ c[k].seq \in Nat
  BY DEF CacheState, Key, ListResponse
<1>2. c[k].seq <= dbSeq[k.organizationId] /\ dbSeq[k.organizationId] \in Nat
  BY <1>1 DEF EntriesPast, TypeOK
<1> QED
  BY <1>1, <1>2

LEMMA CommitPast ==
  ASSUME PastInv, TypeOK',
         \A o \in Organizations : dbSeq'[o] >= dbSeq[o],
         UNCHANGED <<cache, durable, reader>>
  PROVE  PastInv'
<1>1. TypeOK /\ \A o \in Organizations : dbSeq'[o] \in Nat /\ dbSeq[o] \in Nat
  BY DEF PastInv, TypeOK
<1>2. EntriesPast(cache)' /\ EntriesPast(durable.cache)'
  BY <1>1, PastStays DEF PastInv, TypeOK, EntriesPast
<1>3. ASSUME NEW r \in Readers
      PROVE  ReaderPast(r)'
  <2>1. ReaderPast(r) /\ Org(r)' = Org(r)
    BY DEF PastInv, Org
  <2>2. CASE reader[r].pc \in {"store", "done"}
    <3>1. Org(r) \in Organizations /\ reader[r].response.seq \in Nat
      BY <1>1, <2>2, ReaderFields DEF ListResponse
    <3> QED
      BY <1>1, <2>1, <3>1 DEF ReaderPast
  <2>3. CASE reader[r].pc \notin {"store", "done"}
    BY <2>3 DEF ReaderPast
  <2> QED
    BY <2>2, <2>3
<1> QED
  BY <1>2, <1>3 DEF PastInv

\* A call of list() after each of its steps.
LEMMA StepPast ==
  ASSUME PastInv, NEW r \in Readers, ReaderStep(r)
  PROVE  ReaderPast(r)'
<1>r. TypeOK /\ reader \in [Readers -> ReaderState] /\ ReaderPast(r)
  BY DEF PastInv, TypeOK
<1>d. dbSeq' = dbSeq
  BY Zenon DEF ReaderStep, List, GetOrgListVersion, GetOrgListVersionFailed,
     GetHit, GetMiss, GetFailed, FindAndCount, Set, SetResent, SetFailed, Respond
<1>1. ASSUME NEW a \in Actors, NEW q \in Queries, List(r, a, q)
      PROVE  ReaderPast(r)'
  BY <1>r, <1>1 DEF List, ReaderPast
<1>2. CASE GetOrgListVersion(r) \/ GetOrgListVersionFailed(r)
  <2>1. \E v, failed : reader' = [reader EXCEPT ![r] = WithVersion(r, v, failed)]
    BY <1>2, Zenon DEF GetOrgListVersion, GetOrgListVersionFailed
  <2>2. reader'[r].pc = "lookup"
    BY <1>r, <2>1 DEF WithVersion
  <2> QED
    BY <2>2 DEF ReaderPast
<1>3. ASSUME NEW pc, NEW x, x.seq <= dbSeq[Org(r)],
             reader' = [reader EXCEPT ![r] = WithResponse(r, pc, x)]
      PROVE  ReaderPast(r)'
  <2>1. reader'[r].actor = reader[r].actor /\ reader'[r].response = x
    BY <1>r, <1>3 DEF WithResponse
  <2> QED
    BY <1>d, <1>3, <2>1 DEF ReaderPast, Org
<1>4. CASE GetHit(r)
  <2> DEFINE k == ReaderKey(r)
  <2>1. /\ k \in DOMAIN cache
        /\ reader' = [reader EXCEPT ![r] = WithResponse(r, "done", cache[k])]
    BY <1>4 DEF GetHit
  <2>2. k.organizationId = Org(r)
    BY DEF ReaderKey, tasksListCacheEntryKey, Org
  <2> HIDE DEF k
  <2>3. cache[k].seq <= dbSeq[Org(r)]
    BY <2>1, <2>2 DEF PastInv, EntriesPast
  <2> QED
    BY <1>3, <2>1, <2>3
<1>5. CASE GetMiss(r) \/ GetFailed(r)
  <2>1. reader' = [reader EXCEPT ![r].pc = "select"] /\ reader[r].pc = "lookup"
    BY <1>5 DEF GetMiss, GetFailed
  <2>2. reader'[r] = [reader[r] EXCEPT !.pc = "select"] /\ reader[r] \in Looking
    BY <1>r, <2>1, ReaderSort
  <2> QED
    BY <2>2 DEF Looking, ReaderPast
<1>6. CASE FindAndCount(r)
  <2> DEFINE x == Response(reader[r].actor, reader[r].query, dbSeq[Org(r)])
  <2>1. /\ reader' = [reader EXCEPT ![r] = WithResponse(r, "store", x)]
        /\ reader[r].pc = "select"
    BY <1>6 DEF FindAndCount
  <2>2. dbSeq[Org(r)] \in Nat
    BY <1>r, <2>1, ReaderFields DEF TypeOK
  <2>3. x.seq <= dbSeq[Org(r)]
    BY <2>2 DEF Response
  <2> HIDE DEF x
  <2> QED
    BY <1>3, <2>1, <2>3
<1>7. CASE Set(r) \/ SetFailed(r)
  <2>1. reader' = [reader EXCEPT ![r].pc = "done"] /\ reader[r].pc = "store"
    BY <1>7 DEF Set, SetFailed
  <2>2. reader'[r] = [reader[r] EXCEPT !.pc = "done"] /\ reader[r] \in Answering
    BY <1>r, <2>1, ReaderSort
  <2>3. /\ reader'[r].actor = reader[r].actor
        /\ reader'[r].response = reader[r].response
    BY <2>2 DEF Answering
  <2> QED
    BY <1>d, <1>r, <2>1, <2>3 DEF ReaderPast, Org
<1>8. CASE SetResent(r)
  BY <1>d, <1>r, <1>8 DEF SetResent, ReaderPast, Org
<1>9. CASE Respond(r)
  BY <1>r, <1>9 DEF Respond, ReaderPast, Idle
<1> QED
  BY <1>1, <1>2, <1>4, <1>5, <1>6, <1>7, <1>8, <1>9 DEF ReaderStep

\* A step of a list() leaves the other calls, the database and what Redis
\* would fall back to alone.
LEMMA ReaderStepFrame ==
  ASSUME TypeOK, NEW r \in Readers, ReaderStep(r)
  PROVE  /\ UNCHANGED <<dbSeq, version, durable, epoch, crashes>>
         /\ \A x \in Readers \ {r} : reader'[x] = reader[x]
<1>1. UNCHANGED <<dbSeq, version, durable, epoch, crashes>>
  BY Zenon DEF ReaderStep, List, GetOrgListVersion, GetOrgListVersionFailed,
     GetHit, GetMiss, GetFailed, FindAndCount, Set, SetResent, SetFailed, Respond
<1>2. \/ \E s : reader' = [reader EXCEPT ![r] = s]
      \/ reader' = reader
  BY Zenon DEF ReaderStep, List, GetOrgListVersion, GetOrgListVersionFailed,
     GetHit, GetMiss, GetFailed, FindAndCount, Set, SetResent, SetFailed, Respond
<1>3. \A x \in Readers \ {r} : reader'[x] = reader[x]
  BY <1>2 DEF TypeOK
<1> QED
  BY <1>1, <1>3

LEMMA ReaderStepPast ==
  ASSUME PastInv, TypeOK', NEW r \in Readers, ReaderStep(r)
  PROVE  PastInv'
<1>1. /\ UNCHANGED <<dbSeq, durable>>
      /\ \A x \in Readers \ {r} : reader'[x] = reader[x]
  BY ReaderStepFrame DEF PastInv
<1>2. ASSUME NEW x \in Readers
      PROVE  ReaderPast(x)'
  <2>1. CASE x = r
    BY <2>1, StepPast
  <2>2. CASE x # r
    <3>1. reader'[x] = reader[x] /\ ReaderPast(x)
      BY <1>1, <2>2 DEF PastInv
    <3> QED
      BY <1>1, <3>1 DEF ReaderPast, Org
  <2> QED
    BY <2>1, <2>2
<1>3. EntriesPast(cache')
  <2>1. CASE Set(r) \/ SetResent(r)
    <3> DEFINE k == ReaderKey(r)
    <3>1. reader[r].pc = "store" /\ Put(k, reader[r].response)
      BY <2>1 DEF Set, SetResent
    <3>2. k.organizationId = Org(r)
      BY DEF ReaderKey, tasksListCacheEntryKey, Org
    <3>3. reader[r].response.seq <= dbSeq[k.organizationId]
      BY <3>1, <3>2 DEF PastInv, ReaderPast
    <3> HIDE DEF k
    <3>4. ASSUME NEW x \in DOMAIN cache'
          PROVE  cache'[x].seq <= dbSeq[x.organizationId]
      <4>1. CASE x = k
        BY <3>1, <3>3, <4>1 DEF Put
      <4>2. CASE x # k
        <5>1. x \in DOMAIN cache /\ cache'[x] = cache[x]
          BY <3>1, <3>4, <4>2 DEF Put
        <5> QED
          BY <5>1 DEF PastInv, EntriesPast
      <4> QED
        BY <4>1, <4>2
    <3> QED
      BY <3>4 DEF EntriesPast
  <2>2. CASE UNCHANGED cache
    BY <2>2 DEF PastInv
  <2> QED
    BY <2>1, <2>2, Zenon
       DEF ReaderStep, List, GetOrgListVersion, GetOrgListVersionFailed,
           GetHit, GetMiss, GetFailed, FindAndCount, SetFailed, Respond
<1> QED
  BY <1>1, <1>2, <1>3 DEF PastInv, EntriesPast

LEMMA PastNext ==
  ASSUME PastInv, [Next]_vars
  PROVE  PastInv'
<1>1. TypeOK /\ TypeOK'
  BY NextType DEF PastInv
<1>2. ASSUME NEW r \in Readers, ReaderStep(r)
      PROVE  PastInv'
  BY <1>1, <1>2, ReaderStepPast
<1>3. ASSUME NEW w \in Writers, WriterStep(w)
      PROVE  PastInv'
  <2>1. UNCHANGED <<cache, durable, reader>>
    BY <1>3 DEF WriterStep, Commit, BumpOrgListCache, BumpResent, BumpFailed
  <2>2. ASSUME NEW o \in Organizations, Commit(w, o)
        PROVE  \A x \in Organizations : dbSeq'[x] >= dbSeq[x]
    BY <1>1, <2>2 DEF Commit, TypeOK
  <2>3. ASSUME BumpOrgListCache(w) \/ BumpResent(w) \/ BumpFailed(w)
        PROVE  \A x \in Organizations : dbSeq'[x] >= dbSeq[x]
    <3>1. dbSeq' = dbSeq
      BY <2>3 DEF BumpOrgListCache, BumpResent, BumpFailed
    <3>2. \A x \in Organizations : dbSeq[x] \in Nat
      BY <1>1 DEF TypeOK
    <3> QED
      BY <3>1, <3>2
  <2>4. \A x \in Organizations : dbSeq'[x] >= dbSeq[x]
    BY <1>3, <2>2, <2>3 DEF WriterStep
  <2> QED
    BY <1>1, <2>1, <2>4, CommitPast
<1>4. ASSUME NEW os \in SUBSET Organizations, HandleTaskOverdue(os)
      PROVE  PastInv'
  <2>1. \A o \in Organizations : dbSeq'[o] >= dbSeq[o]
    BY <1>1, <1>4 DEF HandleTaskOverdue, TypeOK
  <2> QED
    BY <1>1, <1>4, <2>1, CommitPast DEF HandleTaskOverdue
<1>5. ASSUME UNCHANGED <<dbSeq, reader>>, EntriesPast(cache'),
             EntriesPast(durable'.cache)
      PROVE  PastInv'
  BY <1>1, <1>5 DEF PastInv, EntriesPast, ReaderPast, Org
<1>6. ASSUME NEW k \in DOMAIN cache, Expire(k)
      PROVE  PastInv'
  <2>1. \A x \in DOMAIN cache' : x \in DOMAIN cache /\ cache'[x] = cache[x]
    BY <1>6 DEF Expire, Without
  <2>2. EntriesPast(cache')
    BY <2>1 DEF PastInv, EntriesPast
  <2>3. UNCHANGED <<dbSeq, reader, durable>>
    BY <1>6 DEF Expire
  <2> QED
    BY <1>5, <2>2, <2>3 DEF PastInv
<1>7. CASE Fsync
  <2>1. durable'.cache = cache /\ UNCHANGED <<dbSeq, reader, cache>>
    BY <1>7 DEF Fsync
  <2> QED
    BY <1>5, <2>1 DEF PastInv
<1>8. CASE RedisCrash
  <2>1. cache' = durable.cache /\ UNCHANGED <<dbSeq, reader, durable>>
    BY <1>8 DEF RedisCrash
  <2> QED
    BY <1>5, <2>1 DEF PastInv
<1>9. CASE ProcessExit
  <2>1. \A r \in Readers : ReaderPast(r)'
    BY <1>9 DEF ProcessExit, ReaderPast, Idle
  <2>2. UNCHANGED <<dbSeq, cache, durable>>
    BY <1>9 DEF ProcessExit
  <2> QED
    BY <1>1, <2>1, <2>2 DEF PastInv, EntriesPast
<1>10. CASE UNCHANGED vars
  BY <1>5, <1>10 DEF vars, PastInv
<1> QED
  BY <1>2, <1>3, <1>4, <1>6, <1>7, <1>8, <1>9, <1>10 DEF Next

-----------------------------------------------------------------------------
(***************************************************************************)
(* The state of the promise.                                               *)
(***************************************************************************)

Promised == [o \in Organizations |-> PromisedSeq(o)]

Calls == [r \in Readers |-> CallOf(r)]

ViewOf(r) ==
  [where |-> Where(reader[r].actor, reader[r].query), page |-> reader[r].query.page]

Asked(view, floor) == [pc |-> "asked", view |-> view, floor |-> floor]

\* A call that began and has no answer yet, and one that has.
LEMMA CallAsked ==
  ASSUME NEW r \in Readers, reader[r].pc \in {"version", "lookup", "select", "store"}
  PROVE  CallOf(r) = Asked(ViewOf(r), Floor(r))
BY DEF CallOf, Asked, ViewOf

\* A step that changes one call, seen from the promise.
LEMMA OneCall ==
  ASSUME NEW r \in Readers,
         \A x \in Readers \ {r} : reader'[x] = reader[x],
         UNCHANGED <<crashes, epoch>>
  PROVE  Calls' = [Calls EXCEPT ![r] = CallOf(r)']
<1>1. ASSUME NEW x \in Readers \ {r}
      PROVE  CallOf(x)' = CallOf(x)
  <2>1. reader'[x] = reader[x]
    BY <1>1
  <2> QED
    BY <2>1 DEF CallOf, Floor, Org
<1> QED
  BY <1>1 DEF Calls

LEMMA InitPromise == Init => Promise!Init
<1> SUFFICES ASSUME Init PROVE Promise!Init
  OBVIOUS
<1>1. dbSeq = [o \in Organizations |-> 0] /\ (crashes > 0) = FALSE
  BY DEF Init
<1>2. [o \in Organizations |-> PromisedSeq(o)] = [o \in Organizations |-> 0]
  BY DEF Init, PromisedSeq
<1>3. [r \in Readers |-> CallOf(r)] = [r \in Readers |-> Promise!Idle]
  BY DEF Init, CallOf, Idle, Promise!Idle
<1> QED
  BY <1>1, <1>2, <1>3 DEF Promise!Init

-----------------------------------------------------------------------------
(***************************************************************************)
(* The steps of list().                                                    *)
(***************************************************************************)

Inv == FreshInv /\ MatchInv /\ PastInv

\* What a step of list() does not touch.
LEMMA PromiseFrame ==
  ASSUME Inv, NEW r \in Readers, ReaderStep(r)
  PROVE  /\ dbSeq' = dbSeq
         /\ Promised' = Promised
         /\ (crashes > 0)' = (crashes > 0)
         /\ Calls' = [Calls EXCEPT ![r] = CallOf(r)']
<1>1. /\ UNCHANGED <<dbSeq, version, durable, epoch, crashes>>
      /\ \A x \in Readers \ {r} : reader'[x] = reader[x]
  BY ReaderStepFrame DEF Inv, PastInv
<1>2. Promised' = Promised
  BY <1>1 DEF Promised, PromisedSeq
<1> QED
  BY <1>1, <1>2, OneCall

\* List is Ask.
LEMMA ListAsks ==
  ASSUME Inv, NEW r \in Readers, NEW a \in Actors, NEW q \in Queries, List(r, a, q)
  PROVE  Promise!Next
<1> DEFINE view == [where |-> Where(a, q), page |-> q.page]
<1>r. reader \in [Readers -> ReaderState]
  BY DEF Inv, PastInv, TypeOK
<1>1. a.organizationId \in Organizations
  BY ActorsAssumption DEF Actor
<1>2. /\ reader[r] = Idle
      /\ reader'[r] = [pc |-> "version", actor |-> a, query |-> q,
                       since |-> version[a.organizationId]]
      /\ UNCHANGED <<version, epoch, crashes>>
  BY <1>r DEF List
<1>3. CallOf(r) = Promise!Idle
  BY <1>2 DEF CallOf, Idle, Promise!Idle
<1>4. CallOf(r)' = [pc |-> "asked", view |-> view,
                    floor |-> Promised[view.where.organizationId]]
  <2>1. view.where.organizationId = a.organizationId
    BY DEF Where
  <2>2. Promised[a.organizationId] = PromisedSeq(a.organizationId)
    BY <1>1 DEF Promised
  <2>3. Floor(r)' = PromisedSeq(a.organizationId)
    BY <1>2 DEF Floor, PromisedSeq, Org
  <2>4. CallOf(r)' = [pc |-> "asked", view |-> view, floor |-> Floor(r)']
    BY <1>2 DEF CallOf
  <2> QED
    BY <2>1, <2>2, <2>3, <2>4
<1>5. view \in Views
  BY DEF Views
<1>6. /\ UNCHANGED <<dbSeq, Promised, crashes > 0>>
      /\ Calls' = [Calls EXCEPT ![r] = CallOf(r)']
  BY PromiseFrame DEF ReaderStep
<1>7. Calls[r] = CallOf(r)
  BY DEF Calls
<1> HIDE DEF view
<1>8. Promise!Ask(r, view)
  BY <1>3, <1>4, <1>6, <1>7 DEF Promise!Ask, Calls, Promised
<1> QED
  BY <1>5, <1>8 DEF Promise!Next

\* The calls after a step.
LEMMA NextCallAsked ==
  ASSUME NEW r \in Readers, reader'[r].pc \in {"version", "lookup", "select", "store"}
  PROVE  CallOf(r)' = Asked(ViewOf(r)', Floor(r)')
BY DEF CallOf, Asked, ViewOf

LEMMA NextCallAnswered ==
  ASSUME NEW r \in Readers, reader'[r].pc = "done"
  PROVE  CallOf(r)' = [pc |-> "answered", response |-> reader'[r].response]
BY DEF CallOf

SameRequest(r) ==
  /\ reader'[r].actor = reader[r].actor
  /\ reader'[r].query = reader[r].query
  /\ reader'[r].since = reader[r].since

\* What a step of list() does to the fields of its call.
LEMMA StepFields ==
  ASSUME TypeOK, NEW r \in Readers
  PROVE  /\ GetOrgListVersion(r) =>
              /\ SameRequest(r)
              /\ reader[r].pc = "version"
              /\ reader'[r].pc = "lookup" /\ ~reader'[r].versionFailed
         /\ GetOrgListVersionFailed(r) =>
              /\ SameRequest(r)
              /\ reader[r].pc = "version"
              /\ reader'[r].pc = "lookup" /\ reader'[r].versionFailed
         /\ GetMiss(r) \/ GetFailed(r) =>
              /\ SameRequest(r)
              /\ reader[r].pc = "lookup" /\ reader'[r].pc = "select"
              /\ reader'[r].versionFailed = reader[r].versionFailed
         /\ FindAndCount(r) =>
              /\ SameRequest(r)
              /\ reader[r].pc = "select" /\ reader'[r].pc = "store"
              /\ reader'[r].versionFailed = reader[r].versionFailed
         /\ GetHit(r) =>
              /\ SameRequest(r)
              /\ reader[r].pc = "lookup" /\ reader'[r].pc = "done"
              /\ reader'[r].versionFailed = reader[r].versionFailed
         /\ Set(r) \/ SetFailed(r) =>
              /\ SameRequest(r)
              /\ reader[r].pc = "store" /\ reader'[r].pc = "done"
              /\ reader'[r].versionFailed = reader[r].versionFailed
<1>r. reader \in [Readers -> ReaderState]
  BY DEF TypeOK
<1>1. ASSUME NEW v, NEW failed, reader' = [reader EXCEPT ![r] = WithVersion(r, v, failed)]
      PROVE  /\ SameRequest(r)
             /\ reader'[r].pc = "lookup"
             /\ reader'[r].versionFailed = failed
  BY <1>r, <1>1 DEF WithVersion, SameRequest
<1>2. ASSUME NEW pc, NEW x, reader' = [reader EXCEPT ![r] = WithResponse(r, pc, x)]
      PROVE  /\ SameRequest(r)
             /\ reader'[r].pc = pc
             /\ reader'[r].versionFailed = reader[r].versionFailed
  BY <1>r, <1>2 DEF WithResponse, SameRequest
<1>3. ASSUME NEW pc, reader[r].pc \in {"lookup", "store"},
             reader' = [reader EXCEPT ![r].pc = pc]
      PROVE  /\ SameRequest(r)
             /\ reader'[r].pc = pc
             /\ reader'[r].versionFailed = reader[r].versionFailed
  <2>1. reader'[r] = [reader[r] EXCEPT !.pc = pc]
    BY <1>r, <1>3
  <2>2. reader[r] \in Looking \/ reader[r] \in Answering
    BY <1>3, ReaderSort
  <2> QED
    BY <2>1, <2>2 DEF Looking, Answering, SameRequest
<1>4. GetOrgListVersion(r) =>
        /\ reader[r].pc = "version"
        /\ reader' = [reader EXCEPT ![r] = WithVersion(r, version[Org(r)], FALSE)]
  BY DEF GetOrgListVersion
<1>5. GetOrgListVersionFailed(r) =>
        /\ reader[r].pc = "version"
        /\ reader' = [reader EXCEPT ![r] = WithVersion(r, 0, TRUE)]
  BY Zenon DEF GetOrgListVersionFailed
<1>6. GetMiss(r) \/ GetFailed(r) =>
        reader[r].pc = "lookup" /\ reader' = [reader EXCEPT ![r].pc = "select"]
  BY Zenon DEF GetMiss, GetFailed
<1>7. FindAndCount(r) =>
        /\ reader[r].pc = "select"
        /\ \E x : reader' = [reader EXCEPT ![r] = WithResponse(r, "store", x)]
  BY Zenon DEF FindAndCount
<1>8. GetHit(r) =>
        /\ reader[r].pc = "lookup"
        /\ \E x : reader' = [reader EXCEPT ![r] = WithResponse(r, "done", x)]
  BY Zenon DEF GetHit
<1>9. Set(r) \/ SetFailed(r) =>
        reader[r].pc = "store" /\ reader' = [reader EXCEPT ![r].pc = "done"]
  BY Zenon DEF Set, SetFailed
<1>10. /\ GetOrgListVersion(r) =>
            SameRequest(r) /\ reader'[r].pc = "lookup" /\ ~reader'[r].versionFailed
       /\ GetOrgListVersionFailed(r) =>
            SameRequest(r) /\ reader'[r].pc = "lookup" /\ reader'[r].versionFailed
  BY <1>1, <1>4, <1>5
<1>11. GetMiss(r) \/ GetFailed(r) =>
         /\ SameRequest(r)
         /\ reader[r].pc = "lookup" /\ reader'[r].pc = "select"
         /\ reader'[r].versionFailed = reader[r].versionFailed
  BY <1>3, <1>6
<1>12. FindAndCount(r) =>
         /\ SameRequest(r)
         /\ reader[r].pc = "select" /\ reader'[r].pc = "store"
         /\ reader'[r].versionFailed = reader[r].versionFailed
  BY <1>2, <1>7
<1>13. GetHit(r) =>
         /\ SameRequest(r)
         /\ reader[r].pc = "lookup" /\ reader'[r].pc = "done"
         /\ reader'[r].versionFailed = reader[r].versionFailed
  BY <1>2, <1>8
<1>14. Set(r) \/ SetFailed(r) =>
         /\ SameRequest(r)
         /\ reader[r].pc = "store" /\ reader'[r].pc = "done"
         /\ reader'[r].versionFailed = reader[r].versionFailed
  BY <1>3, <1>9
<1> QED
  BY <1>4, <1>5, <1>10, <1>11, <1>12, <1>13, <1>14, Zenon

\* The steps by which list() looks for its answer are no steps of the promise.
LEMMA SearchStutters ==
  ASSUME Inv, NEW r \in Readers, ReaderStep(r),
         \/ GetOrgListVersion(r)
         \/ GetMiss(r) \/ GetFailed(r)
         \/ FindAndCount(r)
         \/ SetResent(r)
  PROVE  UNCHANGED <<dbSeq, Promised, crashes > 0, Calls>>
<1>1. TypeOK
  BY DEF Inv, PastInv
<1>2. UNCHANGED <<epoch, crashes>>
  BY <1>1, ReaderStepFrame
<1>3. CallOf(r)' = CallOf(r)
  <2>1. CASE SetResent(r)
    <3>1. reader' = reader
      BY <2>1, Zenon DEF SetResent
    <3> QED
      BY <1>2, <3>1 DEF CallOf, Floor, Org
  <2>2. CASE ~SetResent(r)
    <3>1. /\ SameRequest(r)
          /\ reader[r].pc \in {"version", "lookup", "select"}
          /\ reader'[r].pc \in {"lookup", "select", "store"}
          /\ IF reader[r].pc = "version"
               THEN ~reader'[r].versionFailed
               ELSE reader'[r].versionFailed = reader[r].versionFailed
      BY <1>1, <2>2, StepFields
    <3>2. Floor(r)' = Floor(r)
      BY <1>2, <3>1 DEF Floor, Org, SameRequest
    <3>3. ViewOf(r)' = ViewOf(r)
      BY <3>1 DEF ViewOf, SameRequest
    <3> QED
      BY <3>1, <3>2, <3>3, CallAsked, NextCallAsked
  <2> QED
    BY <2>1, <2>2
<1>4. Calls' = [Calls EXCEPT ![r] = CallOf(r)]
  BY <1>3, PromiseFrame
<1>5. Calls' = Calls
  BY <1>4 DEF Calls
<1> QED
  BY <1>5, PromiseFrame

\* A GET of the version that fails is Excuse.
LEMMA FailedVersionExcuses ==
  ASSUME Inv, NEW r \in Readers, GetOrgListVersionFailed(r)
  PROVE  Promise!Next
<1>s. ReaderStep(r)
  BY DEF ReaderStep
<1>1. /\ SameRequest(r)
      /\ reader[r].pc = "version"
      /\ reader'[r].pc = "lookup" /\ reader'[r].versionFailed
  BY StepFields DEF Inv, PastInv
<1>2. CallOf(r) = Asked(ViewOf(r), Floor(r))
  BY <1>1, CallAsked
<1>3. CallOf(r)' = Asked(ViewOf(r), 0)
  <2>1. Floor(r)' = 0
    BY <1>1 DEF Floor
  <2>2. ViewOf(r)' = ViewOf(r)
    BY <1>1 DEF ViewOf, SameRequest
  <2> QED
    BY <1>1, <2>1, <2>2, NextCallAsked
<1>4. CallOf(r).pc = "asked" /\ CallOf(r)' = [CallOf(r) EXCEPT !.floor = 0]
  BY <1>2, <1>3 DEF Asked
<1>5. /\ UNCHANGED <<dbSeq, Promised, crashes > 0>>
      /\ Calls' = [Calls EXCEPT ![r] = CallOf(r)']
  BY <1>s, PromiseFrame
<1>6. Calls[r] = CallOf(r)
  BY DEF Calls
<1>7. Calls' = [Calls EXCEPT ![r].floor = 0]
  BY <1>4, <1>5, <1>6
<1>8. Promise!Excuse(r)
  BY <1>4, <1>5, <1>6, <1>7 DEF Promise!Excuse, Calls, Promised
<1> QED
  BY <1>8 DEF Promise!Next

\* A request is promised a number of commits.
LEMMA FloorType ==
  ASSUME Inv, NEW r \in Readers, reader[r].pc # "idle"
  PROVE  Floor(r) \in Nat
<1>1. CASE crashes = 0
  <2>1. TypeOK /\ EpochsOrdered /\ ReaderFresh(r)
    BY <1>1 DEF Inv, FreshInv, VersionTellsFreshness, ReadersFresh
  <2>2. Org(r) \in Organizations /\ reader[r].since \in Nat
    BY <2>1, ReaderFields
  <2>3. /\ epoch[Org(r)] \in Seq(Nat)
        /\ version[Org(r)] \in Nat
        /\ Len(epoch[Org(r)]) = version[Org(r)] + 1
    BY <2>1, <2>2 DEF TypeOK, EpochsOrdered
  <2>4. reader[r].since <= version[Org(r)]
    BY <2>1 DEF ReaderFresh
  <2>5. reader[r].since + 1 \in 1..Len(epoch[Org(r)])
    BY <2>2, <2>3, <2>4
  <2>6. \A e \in Seq(Nat) : \A i \in 1..Len(e) : e[i] \in Nat
    OBVIOUS
  <2>7. epoch[Org(r)][reader[r].since + 1] \in Nat
    BY <2>3, <2>5, <2>6
  <2> QED
    BY <2>7 DEF Floor
<1>2. CASE crashes # 0
  BY <1>2 DEF Floor
<1> QED
  BY <1>1, <1>2

\* A hit, and the end of a SET, is Answer.
LEMMA Answers ==
  ASSUME Inv, Inv', NEW r \in Readers, GetHit(r) \/ Set(r) \/ SetFailed(r)
  PROVE  Promise!Next
<1> DEFINE x == reader'[r].response
<1>s. ReaderStep(r)
  BY DEF ReaderStep
<1>1. /\ SameRequest(r)
      /\ reader[r].pc \in {"lookup", "store"}
      /\ reader'[r].pc = "done"
      /\ reader'[r].versionFailed = reader[r].versionFailed
  BY StepFields DEF Inv, PastInv
<1>2. UNCHANGED <<dbSeq, version, durable, epoch, crashes>>
  BY <1>s, ReaderStepFrame DEF Inv, PastInv
<1>3. /\ x.where = ViewOf(r).where
      /\ x.page = ViewOf(r).page
      /\ x.where.organizationId = Org(r)
  <2>1. /\ x.where = Where(reader'[r].actor, reader'[r].query)
        /\ x.page = reader'[r].query.page
    BY <1>1 DEF Inv, MatchInv, ReaderMatches
  <2> QED
    BY <1>1, <2>1 DEF ViewOf, SameRequest, Where, Org
<1>4. x \in ListResponse
  <2>1. reader'[r] \in ReaderState
    BY DEF Inv, PastInv, TypeOK
  <2> QED
    BY <1>1, <2>1 DEF ReaderState, Idle, Starting, Looking, Answering
<1>5. x = [where |-> ViewOf(r).where, page |-> ViewOf(r).page, seq |-> x.seq]
  BY <1>3, <1>4 DEF ListResponse
<1>6. Org(r)' = Org(r)
  BY <1>1 DEF Org, SameRequest
<1>7. Floor(r) <= x.seq
  <2>1. CASE crashes = 0 /\ ~reader[r].versionFailed
    <3>1. FreshInv' => ReadYourWrites'
      BY FreshImpliesReadYourWrites, PTL
    <3>2. x.seq >= epoch'[Org(r)'][reader'[r].since + 1]
      BY <1>1, <1>2, <2>1, <3>1 DEF Inv, ReadYourWrites
    <3>3. Floor(r) = epoch[Org(r)][reader[r].since + 1]
      BY <2>1 DEF Floor
    <3>4. x.seq >= Floor(r)
      BY <1>1, <1>2, <1>6, <3>2, <3>3 DEF SameRequest
    <3>5. Floor(r) \in Nat /\ x.seq \in Nat
      BY <1>1, <1>4, FloorType DEF ListResponse
    <3> HIDE DEF x
    <3> QED
      BY <3>4, <3>5
  <2>2. CASE ~(crashes = 0 /\ ~reader[r].versionFailed)
    <3>1. Floor(r) = 0
      BY <1>1, <2>2 DEF Floor
    <3> QED
      BY <1>4, <3>1 DEF ListResponse
  <2> QED
    BY <2>1, <2>2
<1>8. x.seq <= dbSeq[Org(r)]
  <2>1. ReaderPast(r)'
    BY DEF Inv, PastInv
  <2> QED
    BY <1>1, <1>2, <1>6, <2>1 DEF ReaderPast
<1>9. CallOf(r) = Asked(ViewOf(r), Floor(r))
  BY <1>1, CallAsked
<1>10. CallOf(r)' = [pc |-> "answered", response |-> x]
  BY <1>1, NextCallAnswered
<1>11. x.seq \in Floor(r)..dbSeq[Org(r)]
  <2>1. Org(r) \in Organizations /\ Floor(r) \in Nat
    BY <1>1, ReaderFields, FloorType DEF Inv, PastInv
  <2>2. dbSeq[Org(r)] \in Nat /\ x.seq \in Nat
    BY <1>4, <2>1 DEF Inv, PastInv, TypeOK, ListResponse
  <2> HIDE DEF x
  <2> QED
    BY <1>7, <1>8, <2>1, <2>2
<1>12. /\ UNCHANGED <<dbSeq, Promised, crashes > 0>>
       /\ Calls' = [Calls EXCEPT ![r] = CallOf(r)']
  BY <1>s, PromiseFrame
<1>13. /\ Calls[r].pc = "asked"
       /\ Calls[r].view = ViewOf(r)
       /\ Calls[r].floor = Floor(r)
  BY <1>9 DEF Calls, Asked
<1>14. ViewOf(r).where.organizationId = Org(r)
  BY <1>3
<1> HIDE DEF x
<1>15. Calls' = [Calls EXCEPT ![r] = [pc |-> "answered", response |->
          [where |-> ViewOf(r).where, page |-> ViewOf(r).page, seq |-> x.seq]]]
  BY <1>5, <1>10, <1>12
<1>16. Promise!Answer(r)
  BY <1>11, <1>12, <1>13, <1>14, <1>15 DEF Promise!Answer, Calls, Promised
<1> QED
  BY <1>16 DEF Promise!Next

\* Respond is Return.
LEMMA RespondReturns ==
  ASSUME Inv, NEW r \in Readers, Respond(r)
  PROVE  Promise!Next
<1>s. ReaderStep(r)
  BY DEF ReaderStep
<1>1. reader[r].pc = "done" /\ reader'[r] = Idle
  BY DEF Inv, PastInv, TypeOK, Respond
<1>2. Calls[r].pc = "answered"
  BY <1>1 DEF Calls, CallOf
<1>3. CallOf(r)' = Promise!Idle
  BY <1>1 DEF CallOf, Idle, Promise!Idle
<1>4. /\ UNCHANGED <<dbSeq, Promised, crashes > 0>>
      /\ Calls' = [Calls EXCEPT ![r] = CallOf(r)']
  BY <1>s, PromiseFrame
<1>5. Promise!Return(r)
  BY <1>2, <1>3, <1>4 DEF Promise!Return, Calls, Promised
<1> QED
  BY <1>5 DEF Promise!Next

LEMMA StutterOfPromise ==
  ASSUME UNCHANGED <<dbSeq, Promised, crashes > 0, Calls>>
  PROVE  UNCHANGED Promise!vars
BY DEF Promise!vars, Calls, Promised

LEMMA ReaderStepMaps ==
  ASSUME Inv, Inv', NEW r \in Readers, ReaderStep(r)
  PROVE  [Promise!Next]_Promise!vars
<1>1. ASSUME NEW a \in Actors, NEW q \in Queries, List(r, a, q)
      PROVE  Promise!Next
  BY <1>1, ListAsks
<1>2. ASSUME GetOrgListVersionFailed(r)
      PROVE  Promise!Next
  BY <1>2, FailedVersionExcuses
<1>3. ASSUME GetHit(r) \/ Set(r) \/ SetFailed(r)
      PROVE  Promise!Next
  BY <1>3, Answers
<1>4. ASSUME Respond(r)
      PROVE  Promise!Next
  BY <1>4, RespondReturns
<1>5. ASSUME \/ GetOrgListVersion(r)
             \/ GetMiss(r) \/ GetFailed(r)
             \/ FindAndCount(r)
             \/ SetResent(r)
      PROVE  UNCHANGED Promise!vars
  BY <1>5, SearchStutters, StutterOfPromise
<1> QED
  BY <1>1, <1>2, <1>3, <1>4, <1>5, Zenon DEF ReaderStep

-----------------------------------------------------------------------------
(***************************************************************************)
(* The other steps.                                                        *)
(***************************************************************************)

\* A commit of one or more organizations is Mutate.
LEMMA CommitMutates ==
  ASSUME NEW os \in SUBSET Organizations,
         dbSeq' = [o \in Organizations |-> IF o \in os THEN dbSeq[o] + 1 ELSE dbSeq[o]],
         UNCHANGED <<version, epoch, reader, crashes>>
  PROVE  Promise!Next
<1>1. UNCHANGED <<Promised, crashes > 0, Calls>>
  BY DEF Promised, PromisedSeq, Calls, CallOf, Floor, Org
<1>2. Promise!Mutate(os)
  BY <1>1 DEF Promise!Mutate, Promised, Calls
<1> QED
  BY <1>2 DEF Promise!Next

\* An INCR, resent or not, is Bump.
LEMMA IncrBumps ==
  ASSUME Inv, NEW o \in Organizations, IncrVersion(o),
         UNCHANGED <<dbSeq, reader, crashes>>
  PROVE  Promise!Next
<1>t. TypeOK /\ crashes \in Nat
  BY DEF Inv, PastInv, TypeOK
<1>1. CASE crashes = 0
  <2>1. Fresh
    BY <1>1 DEF Inv, FreshInv, VersionTellsFreshness, Fresh
  <2>2. \A x \in Organizations :
          /\ version'[x] >= version[x]
          /\ Len(epoch'[x]) = version'[x] + 1
          /\ \A i \in 1..Len(epoch[x]) : epoch'[x][i] = epoch[x][i]
          /\ x # o => epoch'[x] = epoch[x]
    BY <1>t, <2>1, IncrExtends
  <2>3. ASSUME NEW x \in Organizations
        PROVE  PromisedSeq(x)' = IF x = o THEN dbSeq[o] ELSE PromisedSeq(x)
    <3>1. /\ version[x] \in Nat
          /\ epoch[x] \in Seq(Nat)
          /\ Len(epoch[x]) = version[x] + 1
      BY <1>t, <2>1 DEF TypeOK, Fresh, EpochsOrdered
    <3>2. PromisedSeq(x)' = epoch'[x][version'[x] + 1]
      BY <1>1 DEF PromisedSeq
    <3>3. CASE x = o
      <4>1. epoch'[o] = Append(epoch[o], dbSeq[o]) /\ version'[o] = version[o] + 1
        BY <1>t DEF IncrVersion, TypeOK
      <4>2. epoch'[o][version'[o] + 1] = dbSeq[o]
        BY <3>1, <3>3, <4>1
      <4> QED
        BY <3>2, <3>3, <4>2
    <3>4. CASE x # o
      <4>1. version'[x] = version[x] /\ epoch'[x] = epoch[x]
        BY <1>t, <3>4 DEF IncrVersion, TypeOK
      <4> QED
        BY <1>1, <3>2, <3>4, <4>1 DEF PromisedSeq
    <3> QED
      BY <3>3, <3>4
  <2>4. ASSUME NEW r \in Readers
        PROVE  CallOf(r)' = CallOf(r)
    <3>1. CASE reader[r].pc \in {"idle", "done"}
      BY <3>1 DEF CallOf
    <3>2. CASE reader[r].pc \in {"version", "lookup", "select", "store"}
      <4>1. /\ Org(r) \in Organizations
            /\ reader[r].since \in Nat
            /\ version[Org(r)] \in Nat
            /\ reader[r].since <= version[Org(r)]
            /\ Len(epoch[Org(r)]) = version[Org(r)] + 1
        BY <1>t, <2>1, <3>2, ReaderFields
           DEF TypeOK, Fresh, ReadersFresh, ReaderFresh, EpochsOrdered
      <4>2. reader[r].since + 1 \in 1..Len(epoch[Org(r)])
        BY <4>1
      <4>3. epoch'[Org(r)][reader[r].since + 1] = epoch[Org(r)][reader[r].since + 1]
        BY <2>2, <4>1, <4>2
      <4>4. Floor(r)' = Floor(r) /\ ViewOf(r)' = ViewOf(r)
        BY <4>3 DEF Floor, ViewOf, Org
      <4> QED
        BY <3>2, <4>4, CallAsked, NextCallAsked
    <3> QED
      BY <1>t, <3>1, <3>2, ReaderSort
  <2>5. Calls' = Calls /\ UNCHANGED (crashes > 0)
    BY <2>4 DEF Calls
  <2>6. Promised' = [Promised EXCEPT ![o] = dbSeq[o]]
    BY <2>3 DEF Promised
  <2>7. (crashes > 0) = FALSE
    BY <1>1
  <2>8. Promise!Bump(o)
    BY <2>5, <2>6, <2>7 DEF Promise!Bump, Promised, Calls
  <2> QED
    BY <2>8 DEF Promise!Next
<1>2. CASE crashes # 0
  <2>1. (crashes > 0) = TRUE
    BY <1>t, <1>2
  <2>2. Promised' = Promised /\ Calls' = Calls /\ UNCHANGED (crashes > 0)
    BY <1>2 DEF Promised, PromisedSeq, Calls, CallOf, Floor, Org
  <2>3. Promised' = [Promised EXCEPT ![o] = Promised[o]]
    BY <2>2 DEF Promised
  <2>4. Promise!Bump(o)
    BY <2>1, <2>2, <2>3 DEF Promise!Bump, Promised, Calls
  <2> QED
    BY <2>4 DEF Promise!Next
<1> QED
  BY <1>1, <1>2

LEMMA WriterStepMaps ==
  ASSUME Inv, NEW w \in Writers, WriterStep(w)
  PROVE  [Promise!Next]_Promise!vars
<1>t. TypeOK
  BY DEF Inv, PastInv
<1>1. ASSUME NEW o \in Organizations, Commit(w, o)
      PROVE  Promise!Next
  <2>1. dbSeq' = [x \in Organizations |-> IF x \in {o} THEN dbSeq[x] + 1 ELSE dbSeq[x]]
    BY <1>t, <1>1 DEF Commit, TypeOK
  <2>2. UNCHANGED <<version, epoch, reader, crashes>>
    BY <1>1 DEF Commit
  <2> QED
    BY <2>1, <2>2, CommitMutates
<1>2. ASSUME BumpOrgListCache(w) \/ BumpResent(w)
      PROVE  Promise!Next
  <2>1. /\ writer[w].pc = "bump"
        /\ IncrVersion(writer[w].organizationId)
        /\ UNCHANGED <<dbSeq, reader, crashes>>
    BY <1>2, Zenon DEF BumpOrgListCache, BumpResent
  <2>2. writer[w].organizationId \in Organizations
    BY <1>t, <2>1 DEF TypeOK, WriterState, Idle
  <2> QED
    BY <2>1, <2>2, IncrBumps
<1>3. ASSUME BumpFailed(w)
      PROVE  UNCHANGED Promise!vars
  <2>1. UNCHANGED <<dbSeq, version, epoch, reader, crashes>>
    BY <1>3, Zenon DEF BumpFailed
  <2>2. UNCHANGED <<dbSeq, Promised, crashes > 0, Calls>>
    BY <2>1 DEF Promised, PromisedSeq, Calls, CallOf, Floor, Org
  <2> QED
    BY <2>2, StutterOfPromise
<1> QED
  BY <1>1, <1>2, <1>3, Zenon DEF WriterStep

\* A crash of Redis is Break.
LEMMA CrashBreaks ==
  ASSUME Inv, RedisCrash
  PROVE  Promise!Next
<1>1. /\ crashes \in Nat /\ crashes' = crashes + 1
      /\ UNCHANGED <<dbSeq, reader, epoch>>
  BY DEF Inv, PastInv, TypeOK, RedisCrash
<1>2. (crashes > 0)' = TRUE
  BY <1>1
<1>3. Promised' = [o \in Organizations |-> 0]
  BY <1>1 DEF Promised, PromisedSeq
<1>4. ASSUME NEW r \in Readers
      PROVE  CallOf(r)' = IF CallOf(r).pc = "asked"
                            THEN [CallOf(r) EXCEPT !.floor = 0] ELSE CallOf(r)
  <2>1. CASE reader[r].pc = "idle"
    <3>1. CallOf(r) = Idle /\ CallOf(r)' = Idle
      BY <1>1, <2>1 DEF CallOf
    <3> QED
      BY <3>1 DEF Idle
  <2>2. CASE reader[r].pc = "done"
    <3>1. /\ CallOf(r) = [pc |-> "answered", response |-> reader[r].response]
          /\ CallOf(r)' = CallOf(r)
      BY <1>1, <2>2 DEF CallOf
    <3> QED
      BY <3>1
  <2>3. CASE reader[r].pc \in {"version", "lookup", "select", "store"}
    <3>1. CallOf(r) = Asked(ViewOf(r), Floor(r))
      BY <2>3, CallAsked
    <3>2. Floor(r)' = 0 /\ ViewOf(r)' = ViewOf(r)
      BY <1>1 DEF Floor, ViewOf
    <3>3. CallOf(r)' = Asked(ViewOf(r), 0)
      BY <1>1, <2>3, <3>2, NextCallAsked
    <3> QED
      BY <3>1, <3>3 DEF Asked
  <2> QED
    BY <2>1, <2>2, <2>3, ReaderSort DEF Inv, PastInv
<1>5. Calls' = [r \in Readers |->
        IF Calls[r].pc = "asked" THEN [Calls[r] EXCEPT !.floor = 0] ELSE Calls[r]]
  BY <1>4 DEF Calls
<1>6. Promise!Break
  BY <1>1, <1>2, <1>3, <1>5 DEF Promise!Break, Promised, Calls
<1> QED
  BY <1>6 DEF Promise!Next

\* An exit of the API process is Abandon.
LEMMA ExitAbandons ==
  ASSUME ProcessExit
  PROVE  Promise!Next
<1>1. /\ UNCHANGED <<dbSeq, version, epoch, crashes>>
      /\ reader' = [r \in Readers |-> Idle]
  BY Zenon DEF ProcessExit
<1>2. Promised' = Promised /\ (crashes > 0)' = (crashes > 0)
  BY <1>1 DEF Promised, PromisedSeq
<1>3. Calls' = [r \in Readers |-> Promise!Idle]
  BY <1>1 DEF Calls, CallOf, Idle, Promise!Idle
<1>4. Promise!Abandon
  BY <1>1, <1>2, <1>3 DEF Promise!Abandon, Promised, Calls
<1> QED
  BY <1>4 DEF Promise!Next

LEMMA NextMaps ==
  ASSUME Inv, Inv', [Next]_vars
  PROVE  [Promise!Next]_Promise!vars
<1>1. ASSUME NEW r \in Readers, ReaderStep(r)
      PROVE  [Promise!Next]_Promise!vars
  BY <1>1, ReaderStepMaps
<1>2. ASSUME NEW w \in Writers, WriterStep(w)
      PROVE  [Promise!Next]_Promise!vars
  BY <1>2, WriterStepMaps
<1>3. ASSUME NEW os \in SUBSET Organizations, HandleTaskOverdue(os)
      PROVE  Promise!Next
  BY <1>3, CommitMutates DEF HandleTaskOverdue
<1>4. ASSUME RedisCrash
      PROVE  Promise!Next
  BY <1>4, CrashBreaks
<1>5. ASSUME ProcessExit
      PROVE  Promise!Next
  BY <1>5, ExitAbandons
<1>6. ASSUME (\E k \in DOMAIN cache : Expire(k)) \/ Fsync \/ UNCHANGED vars
      PROVE  UNCHANGED Promise!vars
  <2>1. UNCHANGED <<dbSeq, version, epoch, reader, crashes>>
    BY <1>6 DEF Expire, Fsync, vars
  <2>2. UNCHANGED <<dbSeq, Promised, crashes > 0, Calls>>
    BY <2>1 DEF Promised, PromisedSeq, Calls, CallOf, Floor, Org
  <2> QED
    BY <2>2, StutterOfPromise
<1> QED
  BY <1>1, <1>2, <1>3, <1>4, <1>5, <1>6, Zenon DEF Next

\* list(), the cache service and the mutations implement a list that is the
\* caller's own and at most as old as the last bump before the request.
THEOREM CacheKeepsPromise == Spec => KeepsPromise
<1>1. Init => Inv
  BY FreshInit, MatchInit, PastInit DEF Inv
<1>2. Inv /\ [Next]_vars => Inv'
  BY FreshNext, MatchNext, PastNext DEF Inv
<1>3. Inv /\ Inv' /\ [Next]_vars => [Promise!Next]_Promise!vars
  BY NextMaps
<1> QED
  BY InitPromise, <1>1, <1>2, <1>3, PTL DEF Spec, KeepsPromise, Promise!Spec
=============================================================================
