------------------------ MODULE ApiKeyServiceProofs ------------------------
(***************************************************************************)
(* Proofs about the API keys, for every set of keys, callers and           *)
(* administrators, every TTL and every clock: type correctness, the bounds *)
(* on how long a stale decision lasts, that the mix of two queries fails   *)
(* closed, and that a revoked key stays revoked.                           *)
(***************************************************************************)
EXTENDS ApiKeyService, TLAPS

USE DEF Never, Time, RowState

-----------------------------------------------------------------------------
(* The invariant holds at the start and after every step.                  *)

\* The invariant holds when the process starts, before the keys are seeded.
THEOREM InitEstablishes == Init => IInv
<1> SUFFICES ASSUME Init PROVE IInv
  OBVIOUS
<1> USE ApiKeyAssumption DEF Init, ColdCache
<1>1. TypeOK
  <2>1. 0 \in Time /\ -1 \in Time \cup {Never}
    OBVIOUS
  <2>2. /\ row \in [Key -> {"absent", "enabled", "revoked"}]
        /\ pc \in [Caller -> Pc]
        /\ answer \in [Caller -> SUBSET Key]
        /\ admin \in [Admin -> {"idle", "committed"}]
    BY DEF Pc
  <2>3. /\ queriedAt \in [Caller -> Time \cup {Never}]
        /\ revokedAt \in [Key -> Time \cup {Never}]
    OBVIOUS
  <2> QED BY <2>1, <2>2, <2>3 DEF TypeOK
<1>2. LoadIsExclusive
  BY DEF LoadIsExclusive, Loading
<1>3. RowsInOrder /\ AnswersSound
  BY DEF RowsInOrder, AnyRow, AnswersSound
<1>4. CacheSound
  BY DEF CacheSound, EnabledAt, Fresh
<1> QED BY <1>1, <1>2, <1>3, <1>4 DEF IInv

\* A row is added: keys known as enabled before stay so, and a table that was
\* seen empty had its first key added no earlier than now.
LEMMA AddRowKeeps ==
    ASSUME IInv, NEW k \in Key, row[k] = "absent", AddRow(k),
           UNCHANGED <<now, calls>>,
           loadedAt' \in {loadedAt, -1}, UNCHANGED <<hashes, hasAny, hashesAt, anyAt>>,
           admin' \in [Admin -> {"idle", "committed"}], toSeed' \subseteq Bootstrap
    PROVE  IInv'
<1> USE ApiKeyAssumption DEF IInv, AddRow, calls
<1>1. TypeOK'
  BY DEF TypeOK
<1>2. LoadIsExclusive'
  BY DEF LoadIsExclusive, Fresh
<1>3. RowsInOrder'
  BY DEF RowsInOrder, AnyRow, TypeOK
<1>4. AnswersSound'
  <2> SUFFICES ASSUME NEW p \in Caller
               PROVE  /\ pc[p] = "hashesDone" =>
                           EnabledAt(answer[p], queriedAt[p])'
                      /\ pc[p] = "anyDone" /\ answer[p] = {} => EmptyAt(queriedAt[p])'
    BY DEF AnswersSound
  <2>1. answer[p] \in SUBSET Key /\ queriedAt[p] \in Int
    BY DEF TypeOK
  <2>2. ASSUME pc[p] = "hashesDone" PROVE EnabledAt(answer[p], queriedAt[p])'
    <3>1. EnabledAt(answer[p], queriedAt[p])
      BY <2>2 DEF AnswersSound
    <3> QED BY <3>1, <2>1 DEF EnabledAt, TypeOK
  <2>3. ASSUME pc[p] = "anyDone", answer[p] = {} PROVE EmptyAt(queriedAt[p])'
    <3>1. EmptyAt(queriedAt[p]) /\ queriedAt[p] <= now
      BY <2>3 DEF AnswersSound
    <3> QED BY <3>1, <2>1 DEF EmptyAt, TypeOK
  <2> QED BY <2>2, <2>3
<1>5. CacheSound'
  <2>1. Fresh' => Fresh /\ loadedAt' = loadedAt
    BY DEF Fresh
  <2>2. EnabledAt(hashes, hashesAt)' /\ (hashesAt <= now)'
    BY DEF CacheSound, EnabledAt, TypeOK
  <2>3. Fresh' => (hashesAt <= anyAt)' /\ (anyAt <= loadedAt)' /\ (loadedAt <= now)'
    BY <2>1 DEF CacheSound
  <2>4. Fresh' /\ ~hasAny' => hashes' = {} /\ EmptyAt(anyAt)'
    BY <2>1 DEF CacheSound, EmptyAt, TypeOK
  <2> QED BY <2>2, <2>3, <2>4 DEF CacheSound
<1> QED BY <1>1, <1>2, <1>3, <1>4, <1>5

\* Seeding at start adds keys and leaves what was revoked (main.py, seed).
LEMMA SeedStep ==
    ASSUME IInv, NEW k \in Key, Seed(k)
    PROVE  IInv'
<1>1. CASE row[k] = "absent"
  <2>1. AddRow(k) /\ Invalidate /\ UNCHANGED <<now, calls, admin>> /\ toSeed' = toSeed \ {k}
    BY <1>1 DEF Seed
  <2>2. admin \in [Admin -> {"idle", "committed"}] /\ toSeed \subseteq Bootstrap
    BY DEF IInv, TypeOK
  <2> QED BY <1>1, <2>1, <2>2, AddRowKeeps DEF Invalidate
<1>2. CASE row[k] # "absent"
  BY <1>2 DEF Seed, rows, cache, calls, IInv, TypeOK, LoadIsExclusive, RowsInOrder,
              AnyRow, AnswersSound, CacheSound, EnabledAt, EmptyAt, Fresh
<1> QED BY <1>1, <1>2

\* The commit of an issued key adds an enabled row (issue).
LEMMA IssueStep ==
    ASSUME IInv, NEW a \in Admin, NEW k \in Key, Issue(a, k)
    PROVE  IInv'
<1>1. /\ row[k] = "absent" /\ AddRow(k)
      /\ UNCHANGED <<now, cache, calls, toSeed>>
      /\ admin' = [admin EXCEPT ![a] = "committed"]
  BY DEF Issue
<1>2. admin' \in [Admin -> {"idle", "committed"}] /\ toSeed' \subseteq Bootstrap
  BY <1>1 DEF IInv, TypeOK
<1> QED BY <1>1, <1>2, AddRowKeeps DEF cache

\* A key is revoked now, and every answer that lists it is as old or older.
LEMMA RevokeStep ==
    ASSUME IInv, NEW a \in Admin, NEW k \in Key, Revoke(a, k)
    PROVE  IInv'
<1> USE ApiKeyAssumption DEF IInv, Revoke, cache, calls
<1>1. TypeOK'
  BY DEF TypeOK
<1>2. LoadIsExclusive'
  BY DEF LoadIsExclusive, Fresh
<1>3. RowsInOrder'
  BY DEF RowsInOrder, AnyRow, TypeOK
<1>4. AnswersSound'
  BY DEF AnswersSound, EnabledAt, EmptyAt, TypeOK
<1>5. CacheSound'
  BY DEF CacheSound, EnabledAt, EmptyAt, Fresh, TypeOK
<1> QED BY <1>1, <1>2, <1>3, <1>4, <1>5

\* The invalidation after a commit makes the cache stale and nothing else
\* (_invalidate).
LEMMA AdminReturnsStep ==
    ASSUME IInv, NEW a \in Admin, AdminReturns(a)
    PROVE  IInv'
<1> USE ApiKeyAssumption DEF IInv, AdminReturns, Invalidate, rows, calls
<1>1. TypeOK' /\ RowsInOrder' /\ AnswersSound'
  BY DEF TypeOK, RowsInOrder, AnyRow, AnswersSound, EnabledAt, EmptyAt
<1>2. ~Fresh'
  BY DEF Fresh
<1>3. LoadIsExclusive' /\ CacheSound'
  BY <1>2 DEF LoadIsExclusive, CacheSound, EnabledAt
<1> QED BY <1>1, <1>3

-----------------------------------------------------------------------------
(* verify().                                                               *)

\* A verification that finds the cache stale queues for the lock.
LEMMA VerifyStep ==
    ASSUME IInv, NEW p \in Caller, Verify(p)
    PROVE  IInv'
<1> USE ApiKeyAssumption DEF IInv, Verify, Suspend, rows, cache
<1>1. TypeOK' /\ RowsInOrder' /\ CacheSound'
  BY DEF TypeOK, Pc, RowsInOrder, AnyRow, CacheSound, EnabledAt, EmptyAt, Fresh
<1>2. LoadIsExclusive'
  BY DEF LoadIsExclusive, Loading, Fresh, TypeOK
<1>3. AnswersSound'
  BY DEF AnswersSound, EnabledAt, EmptyAt, TypeOK
<1> QED BY <1>1, <1>2, <1>3

\* Who gets the lock finds the cache fresh and leaves, or begins to load it.
LEMMA TakeLockStep ==
    ASSUME IInv, NEW p \in Caller, TakeLock(p)
    PROVE  IInv'
<1> USE ApiKeyAssumption DEF IInv, TakeLock, Suspend, rows, cache
<1>1. TypeOK' /\ RowsInOrder' /\ CacheSound'
  BY DEF TypeOK, Pc, RowsInOrder, AnyRow, CacheSound, EnabledAt, EmptyAt, Fresh
<1>2. LoadIsExclusive'
  BY DEF LoadIsExclusive, Loading, Fresh, TypeOK
<1>3. AnswersSound'
  BY DEF AnswersSound, EnabledAt, EmptyAt, TypeOK
<1> QED BY <1>1, <1>2, <1>3

\* enabled_hashes() lists keys that are enabled as it runs.
LEMMA RunEnabledHashesStep ==
    ASSUME IInv, NEW p \in Caller, RunEnabledHashes(p)
    PROVE  IInv'
<1> USE ApiKeyAssumption DEF IInv, RunEnabledHashes, RunQuery, Suspend, rows, cache
<1>1. TypeOK'
  BY DEF TypeOK, Pc, Enabled
<1>2. RowsInOrder' /\ CacheSound'
  BY DEF RowsInOrder, AnyRow, CacheSound, EnabledAt, EmptyAt, Fresh
<1>3. LoadIsExclusive'
  BY DEF LoadIsExclusive, Loading, Fresh, TypeOK
<1>4. AnswersSound'
  BY DEF AnswersSound, EnabledAt, EmptyAt, Enabled, TypeOK
<1> QED BY <1>1, <1>2, <1>3, <1>4

\* has_any() answers no only while the table is empty, and then the hashes read
\* before it are empty too.
LEMMA RunHasAnyStep ==
    ASSUME IInv, NEW p \in Caller, RunHasAny(p)
    PROVE  IInv'
<1> DEFINE ans == IF AnyRow THEN Key ELSE {}
<1> USE ApiKeyAssumption DEF IInv
<1>1. /\ pc[p] = "any" /\ pc' = [pc EXCEPT ![p] = "anyDone"]
      /\ answer' = [answer EXCEPT ![p] = ans]
      /\ queriedAt' = [queriedAt EXCEPT ![p] = now]
      /\ UNCHANGED <<rows, now, cache, lock, admin, toSeed>>
  BY DEF RunHasAny, RunQuery, Suspend
<1>2. ans \subseteq Key
  OBVIOUS
<1>3. ans = {} => hashes = {} /\ EmptyAt(now)
  <2> SUFFICES ASSUME ans = {} PROVE hashes = {} /\ EmptyAt(now)
    OBVIOUS
  <2>1. \A k \in Key : row[k] = "absent"
    BY DEF AnyRow
  <2>2. hashes = {}
    BY <2>1 DEF CacheSound, EnabledAt, TypeOK
  <2>3. EmptyAt(now)
    BY <2>1 DEF EmptyAt, RowsInOrder, AnyRow
  <2> QED BY <2>2, <2>3
<1> HIDE DEF ans
<1>4. TypeOK' /\ RowsInOrder' /\ CacheSound'
  BY <1>1, <1>2 DEF TypeOK, Pc, RowsInOrder, AnyRow, CacheSound, EnabledAt, EmptyAt, Fresh, rows, cache
<1>5. LoadIsExclusive'
  BY <1>1 DEF LoadIsExclusive, Loading, Fresh, TypeOK, rows, cache
<1>6. AnswersSound'
  BY <1>1, <1>3 DEF AnswersSound, EnabledAt, EmptyAt, CacheSound, TypeOK, rows, cache
<1> QED BY <1>4, <1>5, <1>6

\* The hashes a query read are stored, however long after it ran.
LEMMA StoreHashesStep ==
    ASSUME IInv, NEW p \in Caller, StoreHashes(p)
    PROVE  IInv'
<1> USE ApiKeyAssumption DEF IInv, StoreHashes, Suspend, rows
<1>1. lock = p /\ lock # NoCaller /\ ~Fresh /\ ~Fresh'
  BY DEF LoadIsExclusive, Loading, Fresh, TypeOK
<1>2. TypeOK' /\ RowsInOrder'
  BY DEF TypeOK, Pc, RowsInOrder, AnyRow
<1>3. LoadIsExclusive'
  BY <1>1 DEF LoadIsExclusive, Loading, TypeOK
<1>4. \A q \in Caller : q # p => pc[q] \notin Loading
  BY <1>1 DEF LoadIsExclusive
<1>5. AnswersSound'
  BY <1>4 DEF AnswersSound, EnabledAt, EmptyAt, Loading, TypeOK
<1>6. CacheSound'
  <2>1. /\ EnabledAt(answer[p], queriedAt[p]) /\ queriedAt[p] <= now
        /\ hashes' = answer[p] /\ hashesAt' = queriedAt[p] /\ UNCHANGED <<row, revokedAt, now>>
    BY DEF AnswersSound
  <2>2. EnabledAt(hashes, hashesAt)' /\ (hashesAt <= now)'
    BY <2>1 DEF EnabledAt
  <2> QED BY <1>1, <2>2 DEF CacheSound
<1> QED BY <1>2, <1>3, <1>5, <1>6

\* has_any is stored and the load is over: the cache counts as fresh from here.
LEMMA StoreHasAnyStep ==
    ASSUME IInv, NEW p \in Caller, StoreHasAny(p)
    PROVE  IInv'
<1> USE ApiKeyAssumption DEF IInv, StoreHasAny, Suspend, rows
<1>1. lock = p
  BY DEF LoadIsExclusive, Loading
<1>2. \A q \in Caller : q # p => pc[q] \notin Loading
  BY <1>1 DEF LoadIsExclusive
<1>3. TypeOK' /\ RowsInOrder'
  BY DEF TypeOK, Pc, RowsInOrder, AnyRow
<1>4. LoadIsExclusive'
  BY <1>2 DEF LoadIsExclusive, Loading, TypeOK
<1>5. AnswersSound'
  BY <1>2 DEF AnswersSound, EnabledAt, EmptyAt, Loading, TypeOK
<1>6. CacheSound'
  <2>1. /\ hashesAt <= queriedAt[p] /\ queriedAt[p] <= now
        /\ answer[p] = {} => hashes = {} /\ EmptyAt(queriedAt[p])
    BY DEF AnswersSound
  <2>2. UNCHANGED <<row, revokedAt, firstKeyAt, now, hashes, hashesAt>>
    OBVIOUS
  <2>3. anyAt' = queriedAt[p] /\ loadedAt' = now
    OBVIOUS
  <2>4. ~hasAny' => answer[p] = {}
    OBVIOUS
  <2>5. EnabledAt(hashes, hashesAt)' /\ (hashesAt <= now)'
    BY <2>2 DEF CacheSound, EnabledAt
  <2>6. (hashesAt <= anyAt)' /\ (anyAt <= loadedAt)' /\ (loadedAt <= now)'
    BY <2>1, <2>2, <2>3 DEF TypeOK
  <2>7. ~hasAny' => hashes' = {} /\ EmptyAt(anyAt)'
    BY <2>1, <2>2, <2>3, <2>4 DEF EmptyAt
  <2> QED BY <2>5, <2>6, <2>7 DEF CacheSound
<1> QED BY <1>3, <1>4, <1>5, <1>6

\* A failing query gives the lock back and leaves the cache as it was.
LEMMA LoadFailsStep ==
    ASSUME IInv, NEW p \in Caller, LoadFails(p)
    PROVE  IInv'
<1> USE ApiKeyAssumption DEF IInv, LoadFails, Suspend, rows, cache
<1>1. lock = p
  BY DEF LoadIsExclusive, Loading
<1>2. TypeOK' /\ RowsInOrder' /\ CacheSound'
  BY DEF TypeOK, Pc, RowsInOrder, AnyRow, CacheSound, EnabledAt, EmptyAt, Fresh
<1>3. LoadIsExclusive'
  BY <1>1 DEF LoadIsExclusive, Loading, Fresh, TypeOK
<1>4. AnswersSound'
  BY DEF AnswersSound, EnabledAt, EmptyAt, TypeOK
<1> QED BY <1>2, <1>3, <1>4

\* Time makes a cache old, never fresh.
LEMMA TickStep ==
    ASSUME IInv, Tick
    PROVE  IInv'
<1> USE ApiKeyAssumption DEF IInv, Tick, rows, cache, calls
<1>1. TypeOK' /\ RowsInOrder'
  BY DEF TypeOK, RowsInOrder, AnyRow
<1>2. Fresh' => Fresh
  BY DEF Fresh, TypeOK
<1>3. LoadIsExclusive'
  BY <1>2 DEF LoadIsExclusive
<1>4. AnswersSound'
  BY DEF AnswersSound, EnabledAt, EmptyAt, TypeOK
<1>5. CacheSound'
  BY <1>2 DEF CacheSound, EnabledAt, EmptyAt, TypeOK
<1> QED BY <1>1, <1>3, <1>4, <1>5

\* A restart loses cache and waiting callers, and keeps the table.
LEMMA RestartStep ==
    ASSUME IInv, Restart
    PROVE  IInv'
<1> USE ApiKeyAssumption DEF IInv, Restart, rows
<1>1. TypeOK' /\ RowsInOrder'
  BY DEF TypeOK, Pc, RowsInOrder, AnyRow
<1>2. LoadIsExclusive'
  BY DEF LoadIsExclusive, Loading, NoCaller
<1>3. AnswersSound' /\ CacheSound'
  BY DEF AnswersSound, CacheSound, EnabledAt, Fresh, TypeOK
<1> QED BY <1>1, <1>2, <1>3

-----------------------------------------------------------------------------

\* Every step of callers, administrators, clock and process keeps the invariant.
THEOREM StepKeeps == IInv /\ [Next]_vars => IInv'
<1> SUFFICES ASSUME IInv, [Next]_vars PROVE IInv'
  OBVIOUS
<1>1. ASSUME NEW p \in Caller, Verify(p) \/ CallStep(p) PROVE IInv'
  BY <1>1, VerifyStep, TakeLockStep, RunEnabledHashesStep, StoreHashesStep,
     RunHasAnyStep, StoreHasAnyStep, LoadFailsStep DEF CallStep
<1>2. ASSUME NEW a \in Admin, AdminStep(a) PROVE IInv'
  BY <1>2, IssueStep, RevokeStep, AdminReturnsStep DEF AdminStep
<1>3. ASSUME NEW k \in Key, Seed(k) PROVE IInv'
  BY <1>3, SeedStep
<1>4. CASE Tick \/ Restart
  BY <1>4, TickStep, RestartStep
<1>5. CASE UNCHANGED vars
  BY <1>5 DEF vars, rows, cache, calls, IInv, TypeOK, LoadIsExclusive, RowsInOrder,
              AnyRow, AnswersSound, CacheSound, EnabledAt, EmptyAt, Fresh
<1> QED BY <1>1, <1>2, <1>3, <1>4, <1>5 DEF Next

\* The invariant holds throughout: of the table, the cache, the lock and the clock.
THEOREM Invariance == Spec => []IInv
<1>1. Init => IInv
  BY InitEstablishes
<1>2. IInv /\ [Next]_vars => IInv'
  BY StepKeeps
<1> QED BY <1>1, <1>2, PTL DEF Spec

-----------------------------------------------------------------------------
(* The properties.                                                         *)

\* Type correctness of the table, the cache and the calls.
THEOREM TypeCorrect == Spec => []TypeOK
<1>1. IInv => TypeOK
  BY DEF IInv
<1> QED BY <1>1, Invariance, PTL

\* The cache that accepts a revoked key read the table before the revocation,
\* and it is no older than the TTL allows.
THEOREM RevokedKeyExpiresHolds == Spec => []RevokedKeyExpires
<1>1. IInv => RevokedKeyExpires
  <2> SUFFICES ASSUME IInv, NEW k \in Key, Accepts(k), row[k] = "revoked"
               PROVE  now - revokedAt[k] <= Ttl + (loadedAt - hashesAt)
    BY DEF RevokedKeyExpires
  <2> USE ApiKeyAssumption DEF IInv
  <2>1. /\ Fresh /\ now - loadedAt <= Ttl
        /\ hashesAt <= anyAt /\ anyAt <= loadedAt
    BY DEF Accepts, Fresh, CacheSound
  <2>2. /\ now \in Int /\ loadedAt \in Int /\ hashesAt \in Int /\ anyAt \in Int
        /\ firstKeyAt \in Int /\ revokedAt[k] \in Int /\ Ttl \in Int
    BY DEF TypeOK
  <2>3. hashesAt <= revokedAt[k]
    <3>1. CASE k \in hashes
      BY <3>1 DEF CacheSound, EnabledAt
    <3>2. CASE ~hasAny
      <4>1. anyAt <= firstKeyAt /\ firstKeyAt <= revokedAt[k]
        BY <3>2, <2>1 DEF CacheSound, EmptyAt, RowsInOrder, AnyRow
      <4> QED BY <4>1, <2>1, <2>2
    <3> QED BY <3>1, <3>2 DEF Accepts
  <2> QED BY <2>1, <2>2, <2>3
<1> QED BY <1>1, Invariance, PTL

\* Open mode rests on a query that saw the table empty.
THEOREM OpenModeExpiresHolds == Spec => []OpenModeExpires
<1>1. IInv => OpenModeExpires
  <2> SUFFICES ASSUME IInv, OpenMode, firstKeyAt # Never
               PROVE  now - firstKeyAt <= Ttl + (loadedAt - anyAt)
    BY DEF OpenModeExpires
  <2>1. now - loadedAt <= Ttl /\ anyAt <= firstKeyAt
    BY DEF IInv, OpenMode, Fresh, CacheSound, EmptyAt
  <2>2. now \in Int /\ loadedAt \in Int /\ anyAt \in Int /\ firstKeyAt \in Int /\ Ttl \in Int
    BY ApiKeyAssumption DEF IInv, TypeOK
  <2> QED BY <2>1, <2>2
<1> QED BY <1>1, Invariance, PTL

\* The gateway is never open while its cache knows an enabled key.
THEOREM MixedSnapshotFailsClosedHolds == Spec => []MixedSnapshotFailsClosed
<1>1. IInv => MixedSnapshotFailsClosed
  BY DEF IInv, CacheSound, MixedSnapshotFailsClosed, OpenMode
<1> QED BY <1>1, Invariance, PTL

\* No step, seeding after a restart included, enables a revoked key.
THEOREM RevokedForGoodHolds == Spec => RevokedForGood
<1>1. ASSUME TypeOK, [Next]_vars, NEW k \in Key, row[k] = "revoked"
      PROVE  row'[k] = "revoked"
  <2> USE <1>1
  <2>1. CASE UNCHANGED row
    BY <2>1
  <2>2. ASSUME NEW j \in Key, row[j] = "absent", AddRow(j)
        PROVE  row'[k] = "revoked"
    BY <2>2 DEF AddRow, TypeOK
  <2>3. ASSUME NEW a \in Admin, NEW j \in Key, Revoke(a, j)
        PROVE  row'[k] = "revoked"
    BY <2>3 DEF Revoke, TypeOK
  <2>4. ASSUME NEW j \in Key, Seed(j)
        PROVE  row'[k] = "revoked"
    BY <2>4, <2>1, <2>2 DEF Seed, rows
  <2>5. ASSUME NEW a \in Admin, AdminStep(a)
        PROVE  row'[k] = "revoked"
    BY <2>5, <2>1, <2>2, <2>3 DEF AdminStep, Issue, AdminReturns, rows
  <2>6. ASSUME NEW p \in Caller, Verify(p) \/ CallStep(p)
        PROVE  UNCHANGED row
    BY <2>6 DEF CallStep, Verify, TakeLock, RunEnabledHashes, RunHasAny, RunQuery,
                StoreHashes, StoreHasAny, LoadFails, rows
  <2>7. CASE Tick \/ Restart \/ UNCHANGED vars
    BY <2>7, <2>1 DEF Tick, Restart, vars, rows
  <2> QED BY <2>1, <2>4, <2>5, <2>6, <2>7 DEF Next
<1>2. TypeOK /\ [Next]_vars
        => [\A k \in Key : row[k] = "revoked" => row'[k] = "revoked"]_vars
  BY <1>1
<1> QED BY <1>2, TypeCorrect, PTL DEF Spec, RevokedForGood
=============================================================================
