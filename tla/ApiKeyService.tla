---------------------------- MODULE ApiKeyService ----------------------------
(***************************************************************************)
(* API key verification (app/services/api_key.py over SqlApiKeyRepository, *)
(* app/repositories/sql.py): the rows of api_keys, the cache of enabled    *)
(* hashes with its TTL, the lock around a reload, the invalidation that    *)
(* follows issue and revoke, and the seeding of bootstrap keys at start.   *)
(*                                                                         *)
(* Callers and administrators are coroutines of one event loop.  A step is *)
(* what runs between two awaits, or the database executing one statement   *)
(* while the coroutine that sent it is suspended.  A key stands for its    *)
(* hash.  Which key a caller presents matters only when it decides, so the *)
(* decision is the state function Accepts and not part of a caller's state.*)
(* _maybe_touch is not modelled: nothing here reads last_used_at.          *)
(***************************************************************************)
EXTENDS Integers, FiniteSets

CONSTANTS
    Key,         \* hashes of keys, issued, bootstrap or invented by a caller
    Bootstrap,   \* keys settings.api_key_set may list
    Caller,      \* concurrent verify() calls
    Admin,       \* concurrent issue() and revoke() calls
    Ttl,         \* cache_ttl_s in ticks of the clock
    MaxTime      \* bound: ticks of the monotonic clock

NoCaller == "nobody"

ASSUME ApiKeyAssumption ==
    /\ NoCaller \notin Caller
    /\ Bootstrap \subseteq Key
    /\ Ttl \in Nat
    /\ MaxTime \in Nat

VARIABLES
    row,         \* [Key -> state of its record in api_keys]
    now,         \* time.monotonic()
    hashes,      \* _hashes
    hasAny,      \* _has_any
    loadedAt,    \* _loaded_at, -1 when invalidated
    lock,        \* the caller that holds _lock, or NoCaller
    pc,          \* [Caller -> where verify() is suspended]
    answer,      \* [Caller -> what the database answered to its last query]
    admin,       \* [Admin -> "idle", or "committed" before _invalidate()]
    toSeed       \* bootstrap keys the starting process has not seeded yet

\* History: when the database executed the queries behind the cache, when a
\* key was revoked, and when the first key was added (Never before).
VARIABLES hashesAt, anyAt, queriedAt, revokedAt, firstKeyAt

cache == <<hashes, hasAny, loadedAt, hashesAt, anyAt>>
calls == <<lock, pc, answer, queriedAt>>
rows == <<row, revokedAt, firstKeyAt>>
vars == <<rows, now, cache, calls, admin, toSeed>>

Never == -1
Time == 0..MaxTime

\* A row of api_keys, as far as verification depends on it.
RowState == {"absent", "enabled", "revoked"}

\* "hashes" and "any" await the answer to a query the database has not run,
\* "hashesDone" and "anyDone" have it waiting for the coroutine to resume.
Pc == {"idle", "wait", "hashes", "hashesDone", "any", "anyDone"}
Loading == {"hashes", "hashesDone", "any", "anyDone"}

Serving == toSeed = {}

\* Mutant: a loaded cache never grows old.
FreshForEver == loadedAt >= 0

Fresh == loadedAt >= 0 /\ now - loadedAt <= Ttl
Enabled == { k \in Key : row[k] = "enabled" }
AnyRow == \E k \in Key : row[k] # "absent"

ColdCache ==
    /\ hashes = {} /\ hasAny = FALSE /\ loadedAt = -1
    /\ hashesAt = Never /\ anyAt = Never

Init ==
    /\ row = [k \in Key |-> "absent"]
    /\ revokedAt = [k \in Key |-> Never] /\ firstKeyAt = Never
    /\ now = 0
    /\ ColdCache
    /\ lock = NoCaller
    /\ pc = [p \in Caller |-> "idle"]
    /\ answer = [p \in Caller |-> {}]
    /\ queriedAt = [p \in Caller |-> Never]
    /\ admin = [a \in Admin |-> "idle"]
    /\ toSeed \in SUBSET Bootstrap

-----------------------------------------------------------------------------
(* Changes of the table.                                                   *)

AddRow(k) ==
    /\ row' = [row EXCEPT ![k] = "enabled"]
    /\ firstKeyAt' = IF firstKeyAt = Never THEN now ELSE firstKeyAt
    /\ UNCHANGED revokedAt

Invalidate ==
    /\ loadedAt' = -1
    /\ UNCHANGED <<hashes, hasAny, hashesAt, anyAt>>

\* Mutant: seeding enables the key it finds.
SeedUpserts(k) ==
    /\ k \in toSeed
    /\ toSeed' = toSeed \ {k}
    /\ AddRow(k) /\ Invalidate
    /\ UNCHANGED <<now, calls, admin>>

\* seed(): insert if absent, whatever the state of an existing record.  The
\* lifespan runs it before any request is served.
Seed(k) ==
    /\ k \in toSeed
    /\ toSeed' = toSeed \ {k}
    /\ IF row[k] = "absent"
       THEN AddRow(k) /\ Invalidate
       ELSE UNCHANGED <<rows, cache>>
    /\ UNCHANGED <<now, calls, admin>>

\* issue(): the insert of a new random key commits.
Issue(a, k) ==
    /\ Serving
    /\ admin[a] = "idle"
    /\ k \notin Bootstrap
    /\ row[k] = "absent"
    /\ AddRow(k)
    /\ admin' = [admin EXCEPT ![a] = "committed"]
    /\ UNCHANGED <<now, cache, calls, toSeed>>

\* revoke(): set_enabled(key_id, False) of an existing record commits.
Revoke(a, k) ==
    /\ Serving
    /\ admin[a] = "idle"
    /\ row[k] # "absent"
    /\ row' = [row EXCEPT ![k] = "revoked"]
    /\ revokedAt' = [revokedAt EXCEPT ![k] = IF row[k] = "revoked" THEN @ ELSE now]
    /\ admin' = [admin EXCEPT ![a] = "committed"]
    /\ UNCHANGED <<firstKeyAt, now, cache, calls, toSeed>>

\* issue() and revoke() resume after their commit and return.
AdminReturns(a) ==
    /\ admin[a] = "committed"
    /\ Invalidate
    /\ admin' = [admin EXCEPT ![a] = "idle"]
    /\ UNCHANGED <<rows, now, calls, toSeed>>

-----------------------------------------------------------------------------
(* verify(), by caller.                                                    *)

Suspend(p, where) == pc' = [pc EXCEPT ![p] = where]

\* A fresh cache decides at once, which changes nothing; otherwise the caller
\* queues for the lock.
Verify(p) ==
    /\ Serving
    /\ pc[p] = "idle"
    /\ ~Fresh
    /\ Suspend(p, "wait")
    /\ UNCHANGED <<rows, now, cache, lock, answer, queriedAt, admin, toSeed>>

\* With the lock in hand the age is checked again: another caller may have
\* reloaded meanwhile, and then the call decides and returns.
TakeLock(p) ==
    /\ pc[p] = "wait"
    /\ lock = NoCaller
    /\ IF Fresh
       THEN Suspend(p, "idle") /\ UNCHANGED lock
       ELSE Suspend(p, "hashes") /\ lock' = p
    /\ UNCHANGED <<rows, now, cache, answer, queriedAt, admin, toSeed>>

\* The database executes enabled_hashes() or has_any() for caller p.
RunQuery(p, from, to, result) ==
    /\ pc[p] = from
    /\ Suspend(p, to)
    /\ answer' = [answer EXCEPT ![p] = result]
    /\ queriedAt' = [queriedAt EXCEPT ![p] = now]
    /\ UNCHANGED <<rows, now, cache, lock, admin, toSeed>>

RunEnabledHashes(p) == RunQuery(p, "hashes", "hashesDone", Enabled)
RunHasAny(p) == RunQuery(p, "any", "anyDone", IF AnyRow THEN Key ELSE {})

\* Mutant: the cache counts as loaded after the first query.
StoreHashesMarksLoaded(p) ==
    /\ pc[p] = "hashesDone"
    /\ hashes' = answer[p] /\ hashesAt' = queriedAt[p]
    /\ loadedAt' = now
    /\ Suspend(p, "any")
    /\ UNCHANGED <<rows, now, hasAny, anyAt, lock, answer, queriedAt, admin, toSeed>>

\* _hashes = await enabled_hashes(); has_any() is sent.
StoreHashes(p) ==
    /\ pc[p] = "hashesDone"
    /\ hashes' = answer[p]
    /\ hashesAt' = queriedAt[p]
    /\ Suspend(p, "any")
    /\ UNCHANGED <<rows, now, hasAny, loadedAt, anyAt, lock, answer,
                   queriedAt, admin, toSeed>>

\* _has_any = await has_any(); the cache counts as loaded now, the lock is
\* released and the call decides without suspending again.
StoreHasAny(p) ==
    /\ pc[p] = "anyDone"
    /\ hasAny' = (answer[p] # {})
    /\ anyAt' = queriedAt[p]
    /\ loadedAt' = now
    /\ lock' = NoCaller
    /\ Suspend(p, "idle")
    /\ UNCHANGED <<rows, now, hashes, hashesAt, answer, queriedAt, admin, toSeed>>

\* Mutant: the lock stays taken when a query raises.
LoadFailsKeepsLock(p) ==
    /\ pc[p] \in {"hashes", "any"}
    /\ Suspend(p, "idle")
    /\ UNCHANGED <<rows, now, cache, lock, answer, queriedAt, admin, toSeed>>

\* A query raises: the lock is released, the request ends in an error and the
\* cache keeps its age.
LoadFails(p) ==
    /\ pc[p] \in {"hashes", "any"}
    /\ lock' = NoCaller
    /\ Suspend(p, "idle")
    /\ UNCHANGED <<rows, now, cache, answer, queriedAt, admin, toSeed>>

-----------------------------------------------------------------------------

Tick ==
    /\ now < MaxTime
    /\ now' = now + 1
    /\ UNCHANGED <<rows, cache, calls, admin, toSeed>>

\* The process stops at any point and starts again on the same database, with
\* settings that may list other bootstrap keys.
Restart ==
    /\ hashes' = {} /\ hasAny' = FALSE /\ loadedAt' = -1
    /\ hashesAt' = Never /\ anyAt' = Never
    /\ lock' = NoCaller
    /\ pc' = [p \in Caller |-> "idle"]
    /\ answer' = [p \in Caller |-> {}]
    /\ queriedAt' = [p \in Caller |-> Never]
    /\ admin' = [a \in Admin |-> "idle"]
    /\ toSeed' \in SUBSET Bootstrap
    /\ UNCHANGED <<rows, now>>

CallStep(p) ==
    \/ TakeLock(p)
    \/ RunEnabledHashes(p)
    \/ StoreHashes(p)
    \/ RunHasAny(p)
    \/ StoreHasAny(p)
    \/ LoadFails(p)

AdminStep(a) ==
    \/ \E k \in Key : Issue(a, k) \/ Revoke(a, k)
    \/ AdminReturns(a)

Next ==
    \/ \E p \in Caller : Verify(p) \/ CallStep(p)
    \/ \E a \in Admin : AdminStep(a)
    \/ \E k \in Key : Seed(k)
    \/ Tick
    \/ Restart

Spec == Init /\ [][Next]_vars

\* The event loop and the database make progress; asyncio.Lock wakes its
\* waiters in order, so a caller does not wait while others take the lock
\* again and again.
Fairness ==
    \A p \in Caller : WF_vars(CallStep(p)) /\ SF_vars(TakeLock(p))

FairSpec == Spec /\ Fairness

-----------------------------------------------------------------------------
(* What verify() answers in this state, if it decides now.                 *)

OpenMode == Fresh /\ ~hasAny

Accepts(k) == Fresh /\ (~hasAny \/ k \in hashes)

-----------------------------------------------------------------------------
(* Properties.                                                             *)

\* Every variable holds a value of its kind.
TypeOK ==
    /\ row \in [Key -> RowState]
    /\ now \in Time
    /\ hashes \subseteq Key /\ hasAny \in BOOLEAN /\ loadedAt \in Time \cup {-1}
    /\ lock \in Caller \cup {NoCaller}
    /\ pc \in [Caller -> Pc]
    /\ answer \in [Caller -> SUBSET Key]
    /\ admin \in [Admin -> {"idle", "committed"}]
    /\ toSeed \subseteq Bootstrap
    /\ hashesAt \in Time \cup {Never} /\ anyAt \in Time \cup {Never}
    /\ queriedAt \in [Caller -> Time \cup {Never}]
    /\ revokedAt \in [Key -> Time \cup {Never}]
    /\ firstKeyAt \in Time \cup {Never}

\* Bounded staleness: although a reload that was already running can undo an
\* invalidation, a revoked key is accepted no longer than the TTL plus the time
\* that reload took.
RevokedKeyExpires ==
    \A k \in Key :
        Accepts(k) /\ row[k] = "revoked"
            => now - revokedAt[k] <= Ttl + (loadedAt - hashesAt)

\* Open mode ends the same way: after the first key was added a request without
\* a valid key passes no longer than the TTL plus the time of one query.  It is
\* so although the key was revoked since: has_any counts revoked keys, and the
\* docstring of verify says so, while the comment at config.py, line 26, has
\* authentication off whenever no key is active.
OpenModeExpires ==
    OpenMode /\ firstKeyAt # Never => now - firstKeyAt <= Ttl + (loadedAt - anyAt)

\* The two queries of a reload may see different tables, yet never so that the
\* cache knows an enabled key and still lets everyone in.
MixedSnapshotFailsClosed ==
    OpenMode => hashes = {}

\* A revoked key never becomes valid again, whatever is seeded at a restart.
RevokedForGood ==
    [][\A k \in Key : row[k] = "revoked" => row'[k] = "revoked"]_vars

\* A verification that queued for the lock ends, also when reloads fail.
VerifyReturns == \A p \in Caller : (pc[p] # "idle") ~> (pc[p] = "idle")

\* What keeps the bounds true between any two steps.  The caller that loads is
\* the one that holds the lock, and meanwhile the cache is not fresh.
LoadIsExclusive ==
    /\ \A p \in Caller : pc[p] \in Loading <=> lock = p
    /\ lock # NoCaller => ~Fresh

\* The history of the table is in order.
RowsInOrder ==
    /\ firstKeyAt <= now
    /\ AnyRow <=> firstKeyAt # Never
    /\ \A k \in Key : row[k] = "revoked" => firstKeyAt <= revokedAt[k] /\ revokedAt[k] <= now

\* Keys read as enabled at a time exist, and were revoked then or later.
EnabledAt(keys, t) ==
    \A k \in keys : row[k] # "absent" /\ (row[k] = "revoked" => t <= revokedAt[k])

\* Keys were added at a time or later, or not at all.
EmptyAt(t) == firstKeyAt = Never \/ t <= firstKeyAt

\* What the database answered to a caller, and what it stored of it so far.
AnswersSound ==
    \A p \in Caller :
        /\ pc[p] = "hashesDone" =>
              Never < queriedAt[p] /\ queriedAt[p] <= now /\ EnabledAt(answer[p], queriedAt[p])
        /\ pc[p] \in {"any", "anyDone"} => Never < hashesAt
        /\ pc[p] = "anyDone" =>
              /\ hashesAt <= queriedAt[p] /\ queriedAt[p] <= now
              /\ answer[p] = {} => hashes = {} /\ EmptyAt(queriedAt[p])

CacheSound ==
    /\ EnabledAt(hashes, hashesAt)
    /\ hashesAt <= now
    /\ Fresh => hashesAt <= anyAt /\ anyAt <= loadedAt /\ loadedAt <= now
    /\ Fresh /\ ~hasAny => hashes = {} /\ EmptyAt(anyAt)

\* The inductive invariant.
IInv ==
    /\ TypeOK
    /\ LoadIsExclusive
    /\ RowsInOrder
    /\ AnswersSound
    /\ CacheSound
=============================================================================
