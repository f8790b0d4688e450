-------------------------- MODULE DraftCoordinator --------------------------
(***************************************************************************)
(* One WebSocket connection of WS /api/v1/sessions/{id}/stream on the      *)
(* gateway: the receive loop (app/api/v1/stream.py), the                   *)
(* DraftSessionCoordinator (app/services/coordinator.py) and the tasks it  *)
(* spawns, each running DraftService.render (app/services/draft.py) with   *)
(* one engine stream per target language under the engine's semaphore.     *)
(*                                                                         *)
(* The coordinator accepts every revision id at most once, in increasing   *)
(* order, so a task is named by the id of its revision.  A step is what    *)
(* the event loop runs between two awaits; a task that was cancelled never *)
(* runs its body again, so cancel() ends it at once here, while its engine *)
(* streams still have to unwind.                                           *)
(***************************************************************************)
EXTENDS Integers, Sequences, FiniteSets, LruStore

CONSTANTS
    Lang,        \* session.target_langs()
    Text,        \* normalised texts that are not empty
    Foreign,     \* cache keys that only other connections use
    Blank,       \* a partial_text that strip() makes empty
    MaxRev,      \* bound: revision ids are 0..MaxRev
    Permits,     \* settings.engine_max_concurrency
    CacheMax     \* settings.cache_max_entries

ASSUME DraftAssumption ==
    /\ MaxRev \in Nat
    /\ Permits \in Nat \ {0}
    /\ CacheMax \in Nat
    /\ Blank \notin Text

VARIABLES
    resolvable,  \* registry.resolve(session.draft_model) succeeds
    conn,        \* "open" while draft_stream's receive loop runs
    latest,      \* coordinator._latest
    current,     \* coordinator._task, by revision id; -1 is None
    source,      \* [Rev -> text of the accepted revision]
    task,        \* [Rev -> state of the task that renders it]
    call,        \* [Rev -> [Lang -> state of one(lang)]]
    store,       \* the RenderingCache, shared by the process
    wire         \* every DraftResponse written to the socket, in order

vars == <<resolvable, conn, latest, current, source, task, call, store, wire>>

Rev == 0..MaxRev
CacheKey == Text \cup Foreign
NoTask == -1
NoSource == "none"

TaskState == {"none", "ready", "gather", "done", "failed", "cancelled"}
CallState == {"none", "queued", "streaming", "ok", "failed", "aborting", "cancelled"}

Response == [rev : Rev, langs : SUBSET Lang]

Pending(r) == task[r] \in {"ready", "gather"}       \* not task.done()
Holding == { c \in Rev \X Lang : call[c[1]][c[2]] \in {"streaming", "aborting"} }

Init ==
    /\ resolvable \in BOOLEAN
    /\ conn = "open"
    /\ latest = -1
    /\ current = NoTask
    /\ source = [r \in Rev |-> NoSource]
    /\ task = [r \in Rev |-> "none"]
    /\ call = [r \in Rev |-> [l \in Lang |-> "none"]]
    /\ store = <<>>
    /\ wire = <<>>

-----------------------------------------------------------------------------
(* Cancelling a task: gather() passes the cancellation on to its children. *)

\* What cancel() of the gather makes of one child.
AbortedCall(s) ==
    CASE s = "queued" -> "cancelled"
      [] s = "streaming" -> "aborting"
      [] OTHER -> s

\* The children of a cancelled task r.  Once one of them failed, gather may
\* already hold that exception, and then cancel() no longer reaches the others.
CancelledCalls(r) ==
    { [l \in Lang |-> AbortedCall(call[r][l])] }
      \cup (IF \E l \in Lang : call[r][l] = "failed" THEN {call[r]} ELSE {})

\* Mutant: the running task is replaced without being cancelled.
ReplaceCurrent(base) == task' = base /\ UNCHANGED call

\* `if self._task and not self._task.done(): self._task.cancel()`, the new
\* task table being base except for the cancelled task.
CancelCurrent(base) ==
    IF current # NoTask /\ Pending(current)
    THEN /\ task' = [base EXCEPT ![current] = "cancelled"]
         /\ \E calls \in CancelledCalls(current) : call' = [call EXCEPT ![current] = calls]
    ELSE /\ task' = base
         /\ UNCHANGED call

-----------------------------------------------------------------------------
(* The receive loop.                                                       *)

\* Mutant: submit without the stale check.
SubmitAnyId(id, text) ==
    /\ conn = "open"
    /\ latest' = id
    /\ source' = [source EXCEPT ![id] = text]
    /\ CancelCurrent([task EXCEPT ![id] = "ready"])
    /\ current' = id
    /\ UNCHANGED <<resolvable, conn, store, wire>>

\* coordinator.submit: a revision that is not newer is dropped; a newer one
\* cancels the task that is still running and gets a task of its own.
Submit(id, text) ==
    /\ conn = "open"
    /\ id > latest
    /\ latest' = id
    /\ source' = [source EXCEPT ![id] = text]
    /\ CancelCurrent([task EXCEPT ![id] = "ready"])
    /\ current' = id
    /\ UNCHANGED <<resolvable, conn, store, wire>>

\* The `rev.id <= self._latest` early return of submit.
DropStale(id) ==
    /\ conn = "open"
    /\ id <= latest
    /\ UNCHANGED vars

\* WebSocketDisconnect out of receive_json: coordinator.aclose().
Disconnect ==
    /\ conn = "open"
    /\ conn' = "closed"
    /\ CancelCurrent(task)
    /\ UNCHANGED <<resolvable, latest, current, source, store, wire>>

\* A message that is no JSON or fails DraftRequest's validation raises out of
\* the handler, past the only except clause: the socket closes without aclose().
BadMessage ==
    /\ conn = "open"
    /\ conn' = "closed"
    /\ UNCHANGED <<resolvable, latest, current, source, task, call, store, wire>>

-----------------------------------------------------------------------------
(* The tasks: _run over DraftService.render.                               *)

\* `if rev.id != self._latest: return`, then `await sink(update)`.  On a
\* closed socket send_json raises, which _run logs and swallows.
Emit(r, langs) ==
    wire' = IF r = latest /\ conn = "open"
            THEN Append(wire, [rev |-> r, langs |-> langs])
            ELSE wire

\* gather() creates one child task per target language.
FanOut(r) ==
    /\ task' = [task EXCEPT ![r] = "gather"]
    /\ call' = [call EXCEPT ![r] = [l \in Lang |-> "queued"]]

\* Mutant: empty text is rendered like any other.
StartRendersBlank(r) ==
    /\ task[r] = "ready"
    /\ ~Holds(store, source[r])
    /\ FanOut(r)
    /\ UNCHANGED <<resolvable, conn, latest, current, source, store, wire>>

\* Mutant: a cache hit returns before it yields the update.
StartSilentOnHit(r) ==
    /\ task[r] = "ready"
    /\ IF source[r] = Blank \/ Holds(store, source[r])
       THEN task' = [task EXCEPT ![r] = "done"] /\ UNCHANGED call
       ELSE FanOut(r)
    /\ UNCHANGED <<resolvable, conn, latest, current, source, store, wire>>

\* Mutant: a cache hit is sent, and rendered again all the same.
StartGoesOnAfterHit(r) ==
    /\ task[r] = "ready"
    /\ IF source[r] = Blank
       THEN task' = [task EXCEPT ![r] = "done"] /\ UNCHANGED <<call, wire>>
       ELSE /\ FanOut(r)
            /\ IF Holds(store, source[r]) THEN Emit(r, Lang) ELSE UNCHANGED wire
    /\ UNCHANGED <<resolvable, conn, latest, current, source, store>>

\* First step of a task, up to its first await: empty text, cache hit, an
\* unknown model, or the fan-out to one engine stream per target.
Start(r) ==
    /\ task[r] = "ready"
    /\ \/ /\ source[r] = Blank
          /\ task' = [task EXCEPT ![r] = "done"]
          /\ UNCHANGED <<call, store, wire>>
       \/ /\ source[r] # Blank
          /\ Holds(store, source[r])
          /\ store' = Get(store, source[r])
          /\ Emit(r, ValueOf(store, source[r]))
          /\ task' = [task EXCEPT ![r] = "done"]
          /\ UNCHANGED call
       \/ /\ source[r] # Blank
          /\ ~Holds(store, source[r])
          /\ ~resolvable
          /\ task' = [task EXCEPT ![r] = "failed"]
          /\ UNCHANGED <<call, store, wire>>
       \/ /\ source[r] # Blank
          /\ ~Holds(store, source[r])
          /\ resolvable
          /\ FanOut(r)
          /\ UNCHANGED <<store, wire>>
    /\ UNCHANGED <<resolvable, conn, latest, current, source>>

SetCall(r, l, s) ==
    /\ call' = [call EXCEPT ![r][l] = s]
    /\ UNCHANGED <<resolvable, conn, latest, current, source, task, store, wire>>

\* `async with self._sem` in VllmEngine.stream.
Acquire(r, l) ==
    /\ call[r][l] = "queued"
    /\ Cardinality(Holding) < Permits
    /\ SetCall(r, l, "streaming")

\* The upstream stream ends with the whole rendering, or with an error.
StreamEnds(r, l) ==
    /\ call[r][l] = "streaming"
    /\ SetCall(r, l, "ok")

StreamFails(r, l) ==
    /\ call[r][l] = "streaming"
    /\ SetCall(r, l, "failed")

\* A cancelled stream closes its response and gives its permit back.
StreamAborted(r, l) ==
    /\ call[r][l] = "aborting"
    /\ SetCall(r, l, "cancelled")

Rendered(r) == { l \in Lang : call[r][l] = "ok" }

\* Mutant: gather(return_exceptions=True), what succeeded counts as the result.
GatherReturnsPartial(r) ==
    /\ task[r] = "gather"
    /\ \A l \in Lang : call[r][l] \in {"ok", "failed"}
    /\ store' = Put(store, source[r], Rendered(r), CacheMax)
    /\ Emit(r, Rendered(r))
    /\ task' = [task EXCEPT ![r] = "done"]
    /\ UNCHANGED <<resolvable, conn, latest, current, source, call>>

\* gather() returns once every child is done: cache.put, then the update.
GatherReturns(r) ==
    /\ task[r] = "gather"
    /\ Rendered(r) = Lang
    /\ store' = Put(store, source[r], Rendered(r), CacheMax)
    /\ Emit(r, Rendered(r))
    /\ task' = [task EXCEPT ![r] = "done"]
    /\ UNCHANGED <<resolvable, conn, latest, current, source, call>>

\* gather() without return_exceptions raises the first failure; the other
\* children run on as tasks nobody owns.  _run logs the exception: the client
\* is told nothing.
GatherRaises(r) ==
    /\ task[r] = "gather"
    /\ \E l \in Lang : call[r][l] = "failed"
    /\ task' = [task EXCEPT ![r] = "failed"]
    /\ UNCHANGED <<resolvable, conn, latest, current, source, call, store, wire>>

\* Another connection of the process, whose DraftService uses the same cache,
\* looks a text up or stores a rendering of its own.  Its streams only make the
\* permits of the shared semaphore come later.
Neighbour(key) ==
    /\ store' \in {Get(store, key), Put(store, key, Lang, CacheMax)}
    /\ UNCHANGED <<resolvable, conn, latest, current, source, task, call, wire>>

-----------------------------------------------------------------------------

\* Mutant: a cancelled stream never gives its permit back.
StreamStepLeaksPermit(r, l) ==
    \/ Acquire(r, l)
    \/ StreamEnds(r, l)
    \/ StreamFails(r, l)

StreamStep(r, l) ==
    \/ Acquire(r, l)
    \/ StreamEnds(r, l)
    \/ StreamFails(r, l)
    \/ StreamAborted(r, l)

TaskStep(r) ==
    \/ Start(r)
    \/ GatherReturns(r)
    \/ GatherRaises(r)

Receive == \E id \in Rev :
    \/ \E text \in Text \cup {Blank} : Submit(id, text)
    \/ DropStale(id)

Next ==
    \/ Receive
    \/ Disconnect
    \/ BadMessage
    \/ \E key \in CacheKey : Neighbour(key)
    \/ \E r \in Rev : TaskStep(r)
    \/ \E r \in Rev, l \in Lang : StreamStep(r, l)

Spec == Init /\ [][Next]_vars

\* The event loop runs every ready task, the semaphore serves its waiters and
\* an upstream stream ends or errs (the OpenAI client has a timeout).
Fairness ==
    /\ \A r \in Rev : WF_vars(TaskStep(r))
    /\ \A r \in Rev, l \in Lang : WF_vars(StreamStep(r, l))

FairSpec == Spec /\ Fairness

-----------------------------------------------------------------------------
(* Properties.                                                             *)

\* Every variable holds a value of its kind.
TypeOK ==
    /\ resolvable \in BOOLEAN
    /\ conn \in {"open", "closed"}
    /\ latest \in Rev \cup {-1}
    /\ current \in Rev \cup {NoTask}
    /\ source \in [Rev -> Text \cup {Blank, NoSource}]
    /\ task \in [Rev -> TaskState]
    /\ call \in [Rev -> [Lang -> CallState]]
    /\ store \in Seq([key : CacheKey, val : SUBSET Lang])
    /\ wire \in Seq(Response)

\* Single flight: a task whose body can still run is the newest accepted
\* revision's, and it is the one the coordinator holds and can cancel.
SingleFlight ==
    \A r \in Rev : Pending(r) => r = latest /\ r = current

\* The client never receives an older revision after a newer one, nor one
\* revision twice, whatever the order the tasks and streams ran in.
ResponsesIncrease ==
    \A i, j \in DOMAIN wire : i < j => wire[i].rev < wire[j].rev

\* What the coordinator keeps true between any two steps, so that the above
\* hold: an answered revision was accepted before and its task is over.
AnsweredIsOver ==
    \A m \in ToSet(wire) : m.rev <= latest /\ ~Pending(m.rev)

PendingHasSource ==
    \A r \in Rev :
        /\ task[r] = "ready" => source[r] \in Text \cup {Blank}
        /\ task[r] = "gather" => source[r] \in Text

\* The whole connection, tasks, streams and cache included, is a
\* RevisionStream: the mapping forgets everything but the ids.
AnsweredRevs == [i \in DOMAIN wire |-> wire[i].rev]

Stream == INSTANCE RevisionStream WITH newest <- latest, answered <- AnsweredRevs

ImplementsRevisionStream == Stream!Spec

\* A rendering that failed or was cancelled half way never reaches the cache
\* or the client: both hold renderings for every target language.
OnlyCompleteRenderings ==
    /\ \A e \in ToSet(store) : e.val = Lang
    /\ \A m \in ToSet(wire) : m.langs = Lang

\* The cache stays within its capacity and holds no key twice.
CacheBounded ==
    /\ Len(store) <= CacheMax
    /\ \A i, j \in DOMAIN store : store[i].key = store[j].key => i = j

\* An accepted text is answered unless it is superseded, its rendering fails,
\* or the connection closes: no revision is lost silently.
AcceptedIsSettled ==
    \A r \in Rev :
        (latest = r /\ source[r] # Blank) ~>
            \/ \E m \in ToSet(wire) : m.rev = r
            \/ latest > r \/ conn = "closed" \/ task[r] = "failed"

\* After the connection is gone every engine stream ends, so its permits
\* return to the other connections.
StreamsDrainAfterClose ==
    (conn = "closed") ~> [](Holding = {})

\* The inductive invariant.
IInv ==
    /\ TypeOK
    /\ SingleFlight
    /\ PendingHasSource
    /\ AnsweredIsOver
    /\ ResponsesIncrease
    /\ OnlyCompleteRenderings
=============================================================================
