--------------------------- MODULE CpuDraftServer ---------------------------
(* The CPU draft server, cpu_server/app.py.  A response is a synchronous    *)
(* generator: Starlette runs each of its steps in a thread of a pool, the   *)
(* first one waits for _gen_lock there, and the lock is held from then on   *)
(* across every yield.  The text comes from a thread of its own, which      *)
(* outlives the generator when the client goes away.                        *)
EXTENDS Integers, FiniteSets

CONSTANTS
    Req,       \* requests
    Pool,      \* threads of the pool
    MaxChunks  \* bound: the chunks one generate call produces

ASSUME CpuAssumption == Pool \in Nat \ {0} /\ MaxChunks \in Nat /\ "free" \notin Req

VARIABLES
    phase,    \* [Req -> where its generator is]
    left,     \* the requests whose client went away
    lock,     \* the request that holds _gen_lock, or "free"
    generate, \* [Req -> its _generate thread]
    out,      \* [Req -> the chunks put on its streamer's queue]
    read      \* [Req -> the chunks taken from it]

vars == <<phase, left, lock, generate, out, read>>

Started == {"paused", "reading", "closing"}
Over == {"done", "gone"}

Init ==
    /\ phase = [r \in Req |-> "new"]
    /\ left = {}
    /\ lock = "free"
    /\ generate = [r \in Req |-> "none"]
    /\ out = [r \in Req |-> 0]
    /\ read = [r \in Req |-> 0]

Goes(r, from, to) == phase[r] \in from /\ phase' = [phase EXCEPT ![r] = to]

InThread == { r \in Req : phase[r] \in {"blocked", "reading"} }
ThreadFree == Cardinality(InThread) < Pool

\* chat_completions returns the response, whose first step wants a thread.
Arrive(r) ==
    /\ Goes(r, {"new"}, "queued")
    /\ UNCHANGED <<left, lock, generate, out, read>>

FirstStep(r) ==
    /\ ThreadFree
    /\ Goes(r, {"queued"}, "blocked")
    /\ UNCHANGED <<left, lock, generate, out, read>>

\* Mutant: the lock covers the start of the generation only.
LockTakenBriefly(r) ==
    /\ lock = "free"
    /\ Goes(r, {"blocked"}, "paused")
    /\ generate' = [generate EXCEPT ![r] = "running"]
    /\ UNCHANGED <<left, lock, out, read>>

\* `with _gen_lock`: start the generation and yield the first chunk.  A
\* thread cannot be cancelled, so this happens for a client that left as well.
LockTaken(r) ==
    /\ lock = "free"
    /\ lock' = r
    /\ Goes(r, {"blocked"}, "paused")
    /\ generate' = [generate EXCEPT ![r] = "running"]
    /\ UNCHANGED <<left, out, read>>

\* The client has the chunk: the next step, in whatever thread is free.
NextStep(r) ==
    /\ r \notin left
    /\ ThreadFree
    /\ Goes(r, {"paused"}, "reading")
    /\ UNCHANGED <<left, lock, generate, out, read>>

\* `for text in streamer`: a text is yielded, an empty one passed over.
ReadText(r) ==
    /\ read[r] < out[r]
    /\ read' = [read EXCEPT ![r] = @ + 1]
    /\ Goes(r, {"reading"}, "paused") \/ Goes(r, {"reading"}, "reading")
    /\ UNCHANGED <<left, lock, generate, out>>

\* The streamer has ended: the closing chunks, then the end of the block.
ReadEnd(r) ==
    /\ generate[r] = "ended"
    /\ read[r] = out[r]
    /\ Goes(r, {"reading"}, "closing")
    /\ UNCHANGED <<left, lock, generate, out, read>>

LastStep(r) ==
    /\ r \notin left
    /\ ThreadFree
    /\ Goes(r, {"closing"}, "done")
    /\ lock' = "free"
    /\ UNCHANGED <<left, generate, out, read>>

\* The abandoned generator is collected between two steps: GeneratorExit
\* leaves the `with` block, while _generate runs on.
Collected(r) ==
    /\ r \in left
    /\ Goes(r, {"paused", "closing"}, "gone")
    /\ lock' = "free"
    /\ UNCHANGED <<left, generate, out, read>>

\* The client goes away: a response that waits for a thread is cancelled.
Disconnect(r) ==
    /\ phase[r] \notin {"new"} \cup Over
    /\ r \notin left
    /\ left' = left \cup {r}
    /\ Goes(r, {"queued"}, "gone") \/ (phase[r] # "queued" /\ UNCHANGED phase)
    /\ UNCHANGED <<lock, generate, out, read>>

Produces(r) ==
    /\ generate[r] = "running"
    /\ out[r] < MaxChunks
    /\ out' = [out EXCEPT ![r] = @ + 1]
    /\ UNCHANGED <<phase, left, lock, generate, read>>

GenerateReturns(r) ==
    /\ generate[r] = "running"
    /\ generate' = [generate EXCEPT ![r] = "ended"]
    /\ UNCHANGED <<phase, left, lock, out, read>>

\* Mutant: a failure is logged and the streamer is left open.
GenerateFailsOpen(r) ==
    /\ generate[r] = "running"
    /\ generate' = [generate EXCEPT ![r] = "failed"]
    /\ UNCHANGED <<phase, left, lock, out, read>>

\* An exception in generate: streamer.end().
GenerateFails(r) ==
    /\ generate[r] = "running"
    /\ generate' = [generate EXCEPT ![r] = "ended"]
    /\ UNCHANGED <<phase, left, lock, out, read>>

-----------------------------------------------------------------------------

Step(r) ==
    \/ FirstStep(r)
    \/ ReadText(r)
    \/ ReadEnd(r)
    \/ Collected(r)

Taken(r) == NextStep(r) \/ LastStep(r)

Generates(r) == Produces(r) \/ GenerateReturns(r) \/ GenerateFails(r)

Next ==
    \E r \in Req :
        \/ Arrive(r)
        \/ LockTaken(r)
        \/ Step(r)
        \/ Taken(r)
        \/ Disconnect(r)
        \/ Generates(r)

Spec == Init /\ [][Next]_vars

\* Threads run, the lock is not given past one waiter for ever, generate is
\* bounded by max_new_tokens, a client that stays takes what it is sent
\* (nobody is assumed to leave).
Fairness ==
    \A r \in Req :
        /\ WF_vars(Step(r))
        /\ SF_vars(LockTaken(r))
        /\ WF_vars(Taken(r))
        /\ WF_vars(Generates(r))

FairSpec == Spec /\ Fairness

-----------------------------------------------------------------------------
(* Properties.                                                             *)

Generating == { r \in Req : generate[r] = "running" }

\* Of the generations that run at once at most one has a response to fill, and
\* its generator has the lock; every other was abandoned by its client.
OneServedGeneration ==
    /\ \A r \in Req : lock = r <=> phase[r] \in Started
    /\ \A r \in Generating : phase[r] \in Started \/ r \in left
    /\ Cardinality(Generating \ left) <= 1

\* The requests that wait for the lock have taken every thread, so the one that
\* holds it cannot go on.
Starved == lock # "free" /\ Cardinality({ r \in Req : phase[r] = "blocked" }) = Pool

\* Every request comes to an end, answered or abandoned: whoever holds the lock
\* gives it back, whether the generation returns, fails or has no reader, as
\* long as the waiting requests leave him a thread.
RequestEnds == \A r \in Req : (phase[r] = "queued") ~> (phase[r] \in Over \/ Starved)

\* The comments of cpu_server/app.py: one generation at a time.
OneGeneration == Cardinality(Generating) <= 1
=============================================================================
