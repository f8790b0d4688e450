---------------------------- MODULE QualityTurn ----------------------------
(***************************************************************************)
(* Final translations of one session: POST /sessions/{id}/turns            *)
(* (app/api/v1/turns.py) streaming what QualityService.translate_turn      *)
(* (app/services/quality.py) yields, over the engines of the registry and  *)
(* the turns table.  Turns of one session may overlap: the console sends   *)
(* while it retranslates, and nothing on the gateway serialises them.      *)
(*                                                                         *)
(* A step is what runs between two awaits; a yield is one, because the     *)
(* response waits for the client to take the event.  An engine is named by *)
(* the model it is registered for, a token by the engine that made it.     *)
(***************************************************************************)
EXTENDS Integers, Sequences, FiniteSets, SequencesExt

CONSTANTS
    Turn,           \* the requests made in the session
    Model,          \* model names
    DraftModel,     \* settings.draft_model
    QualityModel,   \* settings.quality_model
    DefaultModel,   \* SessionConfig.quality_model when the client names none
    Permits,        \* settings.engine_max_concurrency, for each engine
    MaxTokens,      \* max_tokens of a request
    ContextTurns    \* settings.context_turns

ASSUME QualityAssumption ==
    /\ {DraftModel, QualityModel, DefaultModel} \subseteq Model
    /\ Permits \in Nat \ {0}
    /\ MaxTokens \in Nat
    /\ ContextTurns \in Nat

VARIABLES
    registered, \* models in the registry
    session,    \* [draft, quality]: the models the session asks for
    rows,       \* the session's rows of the turns table, in commit order
    pc,         \* [Turn -> where its handler is]
    turnId,     \* turn_id
    engine,     \* the engine whose stream it waits for or reads
    degraded,   \* degraded
    acc,        \* acc.text, a sequence of tokens
    events      \* the SSE events the client has been sent

\* History: how many rows the handler could see, how many tokens went out
\* before the attempt in acc began, and which engines failed it.
VARIABLES seen, earlier, failedBy

handler == <<pc, turnId, engine, degraded, acc, events>>
history == <<seen, earlier, failedBy>>
vars == <<registered, session, rows, handler, history>>

NoEngine == "none"

\* A row of the sessions table, as far as turns read it, and one of the turns table.
SessionRow == [draft : Model, quality : Model]
TurnRow == [id : Nat, turn : Turn, final : Seq(Model)]

Pc == {"idle", "queued", "streaming", "sending", "backQueued", "backStreaming",
       "align", "append", "reply", "ended", "broken", "closing", "gone"}

Over == {"ended", "broken", "gone"}
HoldsPermit == {"streaming", "sending", "backStreaming", "closing"}

\* Mutant: the round trip is made inside the stream it translates back.
HoldingInRoundTrip(m) ==
    { t \in Turn : pc[t] \in HoldsPermit \cup {"backQueued"} /\ engine[t] = m }

Holding(m) == { t \in Turn : pc[t] \in HoldsPermit /\ engine[t] = m }

Token(m) == [type |-> "token", by |-> m]
Done(t) == [type |-> "done", id |-> turnId[t], final |-> acc[t], degraded |-> degraded[t]]
Error == [type |-> "error"]

Event == { Token(m) : m \in Model } \cup {Error}
             \cup [type : {"done"}, id : Nat, final : Seq(Model), degraded : BOOLEAN]

Init ==
    /\ registered \in {{DraftModel}, {DraftModel, QualityModel}}
    /\ session \in SessionRow
    /\ rows = <<>>
    /\ pc = [t \in Turn |-> "idle"]
    /\ turnId = [t \in Turn |-> 0]
    /\ engine = [t \in Turn |-> NoEngine]
    /\ degraded = [t \in Turn |-> FALSE]
    /\ acc = [t \in Turn |-> <<>>]
    /\ events = [t \in Turn |-> <<>>]
    /\ seen = [t \in Turn |-> 0]
    /\ earlier = [t \in Turn |-> 0]
    /\ failedBy = [t \in Turn |-> {}]

-----------------------------------------------------------------------------

\* Mutant: the query's limit is one too small.
RecentIdsOffByOne ==
    { rows[i].id : i \in { j \in DOMAIN rows :
        Cardinality({ n \in DOMAIN rows : rows[n].id > rows[j].id }) < ContextTurns - 1 } }

\* recent_turns: the newest rows by turn_id, no more than ContextTurns of them
\* (rows of equal id count as one, which changes no id in the set).
RecentIds ==
    { rows[i].id : i \in { j \in DOMAIN rows :
        Cardinality({ n \in DOMAIN rows : rows[n].id > rows[j].id }) < ContextTurns } }

\* `max((t.turn_id for t in prior), default=0)`
IsLastId(id) ==
    /\ id \in RecentIds \cup {0}
    /\ \A other \in RecentIds : other <= id

\* ModelRegistry.resolve finds a binding; else it raises KeyError.
Resolves(model) == model \in registered

\* The handler t goes on at `next`, waiting for the engine of model m.
Goto(t, next) == pc' = [pc EXCEPT ![t] = next]
Queue(t, next, m) == Goto(t, next) /\ engine' = [engine EXCEPT ![t] = m]

\* Mutant: the draft model is taken without asking the registry.
StartUnresolved(t) ==
    /\ pc[t] = "idle"
    /\ \E last \in RecentIds \cup {0} :
          IsLastId(last) /\ turnId' = [turnId EXCEPT ![t] = last + 1]
    /\ seen' = [seen EXCEPT ![t] = Len(rows)]
    /\ degraded' = [degraded EXCEPT ![t] = ~Resolves(session.quality)]
    /\ Queue(t, "queued",
             IF Resolves(session.quality) THEN session.quality ELSE session.draft)
    /\ UNCHANGED <<registered, session, rows, acc, events, earlier, failedBy>>

\* recent_turns has answered: number the turn and choose the binding.  When
\* not even the draft model is registered, resolve() raises out of the stream.
Start(t) ==
    /\ pc[t] = "idle"
    /\ \E last \in RecentIds \cup {0} :
          IsLastId(last) /\ turnId' = [turnId EXCEPT ![t] = last + 1]
    /\ seen' = [seen EXCEPT ![t] = Len(rows)]
    /\ \/ /\ Resolves(session.quality)
          /\ Queue(t, "queued", session.quality)
          /\ UNCHANGED degraded
       \/ /\ ~Resolves(session.quality)
          /\ Resolves(session.draft)
          /\ Queue(t, "queued", session.draft)
          /\ degraded' = [degraded EXCEPT ![t] = TRUE]
       \/ /\ ~Resolves(session.quality) /\ ~Resolves(session.draft)
          /\ Goto(t, "broken")
          /\ UNCHANGED <<engine, degraded>>
    /\ UNCHANGED <<registered, session, rows, acc, events, earlier, failedBy>>

\* Only the place of the handler changes.
Moves(t, from, to) ==
    /\ pc[t] = from
    /\ Goto(t, to)
    /\ UNCHANGED <<registered, session, rows, turnId, engine, degraded, acc, events, history>>

\* `async with self._sem` of VllmEngine.stream.
Acquire(t) ==
    /\ Cardinality(Holding(engine[t])) < Permits
    /\ \/ Moves(t, "queued", "streaming")
       \/ Moves(t, "backQueued", "backStreaming")

\* A chunk of the final stream: accumulated, and yielded to the response.
TokenArrives(t) ==
    /\ pc[t] = "streaming"
    /\ Len(acc[t]) < MaxTokens
    /\ acc' = [acc EXCEPT ![t] = Append(@, engine[t])]
    /\ events' = [events EXCEPT ![t] = Append(@, Token(engine[t]))]
    /\ Goto(t, "sending")
    /\ UNCHANGED <<registered, session, rows, turnId, engine, degraded, history>>

\* The client took the event; the permit was held meanwhile.
TokenTaken(t) == Moves(t, "sending", "streaming")

\* The stream ends: finalise, then round-trip with the draft engine when the
\* session's draft model is registered.
StreamEnds(t) ==
    /\ pc[t] = "streaming"
    /\ IF Resolves(session.draft)
       THEN Queue(t, "backQueued", session.draft)
       ELSE Goto(t, "align") /\ UNCHANGED engine
    /\ UNCHANGED <<registered, session, rows, turnId, degraded, acc, events, history>>

\* Mutant: the accumulator of the failed attempt is used for the next one.
StreamFailsKeepsAcc(t) ==
    /\ pc[t] = "streaming"
    /\ failedBy' = [failedBy EXCEPT ![t] = @ \cup {engine[t]}]
    /\ \/ /\ degraded[t]
          /\ events' = [events EXCEPT ![t] = Append(@, Error)]
          /\ Goto(t, "ended")
          /\ UNCHANGED <<engine, degraded, earlier>>
       \/ /\ ~degraded[t] /\ Resolves(session.draft)
          /\ degraded' = [degraded EXCEPT ![t] = TRUE]
          /\ earlier' = [earlier EXCEPT ![t] = Len(events[t])]
          /\ Queue(t, "queued", session.draft)
          /\ UNCHANGED events
    /\ UNCHANGED <<registered, session, rows, turnId, acc, seen>>

\* UpstreamEngineError out of the final stream: once more with the draft
\* engine and a new accumulator, or an error event when that was the draft.
StreamFails(t) ==
    /\ pc[t] = "streaming"
    /\ failedBy' = [failedBy EXCEPT ![t] = @ \cup {engine[t]}]
    /\ \/ /\ degraded[t]
          /\ events' = [events EXCEPT ![t] = Append(@, Error)]
          /\ Goto(t, "ended")
          /\ UNCHANGED <<engine, degraded, acc, earlier>>
       \/ /\ ~degraded[t] /\ Resolves(session.draft)
          /\ degraded' = [degraded EXCEPT ![t] = TRUE]
          /\ acc' = [acc EXCEPT ![t] = <<>>]
          /\ earlier' = [earlier EXCEPT ![t] = Len(events[t])]
          /\ Queue(t, "queued", session.draft)
          /\ UNCHANGED events
       \/ /\ ~degraded[t] /\ ~Resolves(session.draft)
          /\ Goto(t, "broken")
          /\ UNCHANGED <<engine, degraded, acc, events, earlier>>
    /\ UNCHANGED <<registered, session, rows, turnId, seen>>

\* _round_trip returns: the translation back, or nothing when its stream failed.
RoundTripReturns(t) == Moves(t, "backStreaming", "align")

\* HttpAligner.align returns spans, or an empty list when it fails.
AlignReturns(t) == Moves(t, "align", "append")

\* append_turn commits.
AppendTurn(t) ==
    /\ pc[t] = "append"
    /\ rows' = Append(rows, [id |-> turnId[t], turn |-> t, final |-> acc[t]])
    /\ Goto(t, "reply")
    /\ UNCHANGED <<registered, session, turnId, engine, degraded, acc, events, history>>

\* Mutant: the done event goes out before the turn is appended.
ReplyBeforeAppend(t) ==
    /\ pc[t] \in {"append", "reply"}
    /\ events' = [events EXCEPT ![t] = Append(@, Done(t))]
    /\ Goto(t, "ended")
    /\ UNCHANGED <<registered, session, rows, turnId, engine, degraded, acc, history>>

\* The done event.
Reply(t) ==
    /\ pc[t] = "reply"
    /\ events' = [events EXCEPT ![t] = Append(@, Done(t))]
    /\ Goto(t, "ended")
    /\ UNCHANGED <<registered, session, rows, turnId, engine, degraded, acc, history>>

\* An exception nobody catches ends the response without a verdict: the
\* database fails, or a stream fails with an error that is no APIError.
Breaks(t) ==
    \E from \in {"idle", "streaming", "backStreaming", "append"} : Moves(t, from, "broken")

\* The client goes away and the response is cancelled; a stream that is open
\* holds its permit until its generator is closed.
Disconnect(t) ==
    \/ pc[t] \in HoldsPermit \ {"closing"} /\ Moves(t, pc[t], "closing")
    \/ pc[t] \in {"queued", "backQueued", "align", "append", "reply"} /\ Moves(t, pc[t], "gone")

StreamClosed(t) == Moves(t, "closing", "gone")

-----------------------------------------------------------------------------

HandlerStep(t) ==
    \/ Acquire(t)
    \/ TokenArrives(t)
    \/ StreamEnds(t)
    \/ StreamFails(t)
    \/ RoundTripReturns(t)
    \/ AlignReturns(t)
    \/ AppendTurn(t)
    \/ Reply(t)
    \/ StreamClosed(t)

\* What a client does about the event it is sent.
ClientReacts(t) == pc[t] = "sending" /\ (TokenTaken(t) \/ Disconnect(t))

Next == \E t \in Turn :
    Start(t) \/ HandlerStep(t) \/ TokenTaken(t) \/ Breaks(t) \/ Disconnect(t)

Spec == Init /\ [][Next]_vars

\* Engines, aligner and database answer, or time out; the semaphore serves its
\* waiters in order; a client takes what it is sent or goes away
\* (nobody is assumed to leave while the gateway works).
Fairness ==
    \A t \in Turn :
        /\ WF_vars(HandlerStep(t))
        /\ WF_vars(ClientReacts(t))

FairSpec == Spec /\ Fairness

-----------------------------------------------------------------------------
(* Properties.                                                             *)

\* Every variable holds a value of its kind, and a handler that waits for an
\* engine or reads from it has one that is registered.
TypeOK ==
    /\ registered \subseteq Model
    /\ session \in SessionRow
    /\ rows \in Seq(TurnRow)
    /\ pc \in [Turn -> Pc]
    /\ turnId \in [Turn -> Nat]
    /\ engine \in [Turn -> Model \cup {NoEngine}]
    /\ degraded \in [Turn -> BOOLEAN]
    /\ acc \in [Turn -> Seq(Model)]
    /\ events \in [Turn -> Seq(Event)]
    /\ seen \in [Turn -> Nat]
    /\ earlier \in [Turn -> Nat]
    /\ failedBy \in [Turn -> SUBSET Model]
    /\ \A t \in Turn :
          pc[t] \in {"queued", "streaming", "sending", "backQueued", "backStreaming"}
              => engine[t] \in registered

\* Numbers follow the conversation: a turn begun after another one was stored
\* gets a higher turn_id, however many turns overlap and repeat an id.  Not so
\* when context_turns is 0: recent_turns returns no row then, and every turn is
\* number 1.
LaterTurnsCountOn ==
    \A i, j \in DOMAIN rows :
        i <= seen[rows[j].turn] => rows[i].id < rows[j].id

\* The translation of a done event, and so of the stored turn, is exactly what
\* one engine streamed since its attempt began: nothing of a failed attempt is
\* mixed in, nothing streamed is missing, and `degraded` tells which engine.
AnswerIsOneAttempt ==
    \A t \in Turn : \A d \in ToSet(events[t]) :
        d.type = "done" =>
            /\ Len(events[t]) = earlier[t] + Len(d.final) + 1
            /\ \A i \in DOMAIN d.final :
                  /\ events[t][earlier[t] + i] = Token(d.final[i])
                  /\ d.final[i] = IF d.degraded THEN session.draft ELSE session.quality

\* An answer is stored before it is sent, with the same number and text, and a
\* turn that was stored is answered unless its client left: translate_turn
\* awaits append_turn and then yields.  (The sequence in docs/design.md, lines
\* 248-249, has it the other way round.)
AnsweredIsStored ==
    /\ \A t \in Turn : \A d \in ToSet(events[t]) :
          d.type = "done" => [id |-> d.id, turn |-> t, final |-> d.final] \in ToSet(rows)
    /\ \A row \in ToSet(rows) :
          \/ pc[row.turn] \in {"reply", "gone"}
          \/ \E d \in ToSet(events[row.turn]) : d.type = "done"

\* Every request that was taken up ends: no handler waits for ever for a permit
\* that it, or another turn that waits as well, holds.
TurnEnds == \A t \in Turn : (pc[t] # "idle") ~> (pc[t] \in Over)

\* A handler's number is above every row it could see, if the query may return
\* any.
Numbered(t) ==
    /\ seen[t] <= Len(rows)
    /\ ContextTurns > 0 => \A i \in 1..seen[t] : rows[i].id < turnId[t]

\* What keeps the numbers in order: they are so for every handler, and a row
\* bears the number of its turn, which is past its start.
NumbersSound ==
    /\ \A t \in Turn : Numbered(t)
    /\ \A i \in DOMAIN rows :
          rows[i].id = turnId[rows[i].turn] /\ pc[rows[i].turn] # "idle"

Answering == {"queued", "streaming", "sending", "backQueued", "backStreaming",
              "align", "append", "reply"}

\* The model whose engine makes the attempt.
Attempting(t) == IF degraded[t] THEN session.draft ELSE session.quality

\* The accumulator holds what was streamed since the attempt began, by the one
\* engine that `degraded` tells; only a handler that ended has sent a verdict.
Attempted(t) ==
    /\ pc[t] \in Answering =>
          /\ Len(events[t]) = earlier[t] + Len(acc[t])
          /\ \A i \in DOMAIN acc[t] :
                /\ events[t][earlier[t] + i] = Token(acc[t][i])
                /\ acc[t][i] = Attempting(t)
    /\ pc[t] \in {"queued", "streaming", "sending"} => engine[t] = Attempting(t)
    /\ pc[t] # "ended" => \A e \in ToSet(events[t]) : e.type = "token"
    /\ pc[t] = "idle" => /\ acc[t] = <<>> /\ events[t] = <<>>
                         /\ earlier[t] = 0 /\ ~degraded[t]

AttemptSound == \A t \in Turn : Attempted(t)

\* A handler about to reply has stored what it will send; before, it has not.
RowsSound ==
    /\ \A t \in Turn :
          pc[t] = "reply" => [id |-> turnId[t], turn |-> t, final |-> acc[t]] \in ToSet(rows)
    /\ \A row \in ToSet(rows) : pc[row.turn] \in {"reply", "ended", "gone"}

\* The inductive invariant.
IInv ==
    /\ TypeOK
    /\ NumbersSound
    /\ AttemptSound
    /\ RowsSound
    /\ AnswerIsOneAttempt
    /\ AnsweredIsStored

-----------------------------------------------------------------------------
(* What the documents say and the code does not do.                        *)

\* CHANGELOG.md: the draft stands in only when the quality engine cannot be
\* reached.  The console names no model, so its sessions have the defaults.
DegradesOnlyOnFailure ==
    \A t \in Turn :
        (/\ QualityModel \in registered
         /\ session = [draft |-> DraftModel, quality |-> DefaultModel]
         /\ degraded[t]) => QualityModel \in failedBy[t]
=============================================================================
