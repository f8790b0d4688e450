# A TLA+ model of live-translate

live-translate translates what an operator types while it is typed (the *draft*,
over a WebSocket) and again when it is sent (the *turn*, over SSE), and keeps the
conversations. This directory models its stateful parts in TLA+, model-checks them
with TLC on small instances, and proves the most important facts with TLAPS for
every instance. Line numbers below are lines of the repository at the modelled
commit.

## 1. The system

| part | state it keeps | operations | talks to |
|---|---|---|---|
| Draft connection: `app/api/v1/stream.py`, `services/coordinator.py`, `services/draft.py` | `_latest`, `_task`, the tasks and streams it spawned | receive, `submit`, `_run`, `render`, `aclose` | console by WebSocket; engine adapter; rendering cache |
| Console draft state machine: `web/src/useChat.ts` | text, IME flag, debounce timer, `pendingValue`, `inflight`, `revision`/`latestRev`/`sentRev`, preview, socket, session ids | `onInput`, composition handlers, timer, `onmessage`, `send`, `swap`, `setTgt`, conversation switches | draft connection |
| Rendering cache: `repositories/cache.py` | ordered dictionary with a capacity, one per process | `get`, `put` | all draft connections |
| Engine adapter: `engines/openai.py`, `engines/registry.py` | semaphore, HTTP client | `stream`, `health`, `aclose` | vLLM or the CPU draft server |
| API keys: `services/api_key.py`, `repositories/sql.py`, `main.py` | rows of `api_keys`; cached hashes, `_has_any`, `_loaded_at`, `_lock`, touch times | `verify`, `issue`, `revoke`, `seed`, `list` | every route, the database |
| Quality turns: `services/quality.py`, `context.py`, `api/v1/turns.py` | turns of a session | `translate_turn` | engine adapter, aligner, session store |
| Stateless translation: `services/translation.py` | one request's accumulator | `translate` | engine adapter, aligner |
| Conversation store: `services/conversation.py`, `repositories/sql.py` | conversations, messages with sequence numbers, titles | create, append, list, get, delete | console |
| Sessions and languages: `services/session.py`, `language.py`, `domain.py` | session rows, inserted once | create, get, list languages | all of the above |
| Console persistence and retranslation: `web/src/useChat.ts`, `api.ts` | `convId`, messages, `retranslatePending`, `retranslating` | `persistMessage`, load, remove, leave, retranslate | conversation store, sessions, quality turns |
| CPU draft server: `cpu_server/app.py` | `_gen_lock`, one generating thread per request | `chat_completions` | engine adapter |
| Confidence: `services/quality_estimation.py` | none | `build_confidence_spans` | both translation services |
| Aligner: `aligner/app.py`, `services/alignment.py` | the loaded model | `align` | quality turns, stateless translation |
| UI, prompts, schemas, bench, deployment | none that the above read | | |

Where it is hard:

* **Superseded work.** Every keystroke pause may start a rendering while older
  ones are being cancelled, are holding a finished result, or have an answer
  under way. Old answers must neither overtake newer ones nor come back after the
  text was cleared or sent. Both ends keep counters and flags for it. A language
  change supersedes a retranslation the same way, but the old one still writes.
* **Partial failure.** A rendering is one stream per target language under a
  shared semaphore; `gather` raises on the first failure and orphans the rest. A
  translation degrades in the middle of a stream, into the same accumulator.
* **Shared caches.** The rendering cache is read before an `await` and written
  after it; the key cache is filled by two queries while keys change.
* **Lifetimes.** Sockets, sessions and conversations are replaced while timers
  and requests of the old ones are alive; the process restarts and seeds again;
  a generating thread outlives the response it was started for.
* **Overlapping turns.** A turn takes its number from what it read awaits before
  it stores the turn, and holds an engine permit while its client takes each
  token.
* **Read-then-write over the database.** A message is numbered by a count, and a
  title decided on a row, that were read before other requests committed.

What makes each modelled part correct is what section 4 checks; `hazards` in
`PROJECT.json` lists, line by line, what could go wrong and which property
would notice.

## 2. Modules

| module | models |
|---|---|
| `LruStore` | `InProcessRenderingCache` as operators on a sequence of entries, oldest first |
| `RevisionStream` | abstract: what a draft connection promises its client |
| `DraftCoordinator` | one draft connection of the gateway; uses `LruStore`, implements `RevisionStream` |
| `DraftView` | abstract: what the preview promises the person typing |
| `DraftClient` | the console's draft state machine; implements `DraftView` |
| `DraftStream` | console and gateway composed over one socket at a time; implements `DraftClient` |
| `ApiKeyService` | API keys: table, cache, lock, invalidation, restart |
| `QualityTurn` | the turns of one session: numbering, degradation, translation back, storing and answering |
| `ConversationStore` | stored conversations, every request split at its database awaits |
| `ConsoleHistory` | the console's sends, openings and deletions composed with `ConversationStore` and another console; implements it |
| `Sessions` | what a session is made of: witness deduplication, validation, target languages (operators) |
| `Retranslation` | language changes: new sessions, runs over the messages on screen, cancelled runs, ids of restored messages; uses `Sessions` |
| `ConfidenceSpans` | `_finalize` and `build_confidence_spans` (operators) |
| `TranslationService` | one request of the stateless API; uses `ConfidenceSpans` and `Sessions` |
| `CpuDraftServer` | generators in a thread pool, the generation lock, generating threads, clients that leave |
| `*Proofs` | theorems (section 6) |
| `MC*` | instances for TLC |

The chain is `DraftStream => DraftClient => DraftView` on the console's side and
`DraftCoordinator => RevisionStream` on the gateway's. `DraftClient` assumes of
the gateway that answers come only to requests of the current socket and in
increasing order (`Answer`); that the real coordinator is such a gateway is checked
on `DraftStream` and proved (`ImplementsDraftClientHolds`), so what is proved of the
preview holds end to end (`StreamImplementsDraftView`). `ConsoleHistory` implements `ConversationStore` (proved), so what
is proved of the store holds under the console. `ApiKeyService`, `QualityTurn`,
`TranslationService` and `CpuDraftServer` stand alone: they share with the others
only the process, and engine permits taken by others only delay.

## 3. State, actions and the code

**DraftCoordinator.** A step is what asyncio runs between two awaits. `submit`
(`Submit`, `DropStale`) never suspends, so it is one step with the cancellation
it contains. A task is named by its revision; `task[r]` goes `ready` (created) →
`gather` (fan-out under way) → `done` or `failed`, or to `cancelled`. `call[r][l]` is
`one(l)`: `queued` on the semaphore, `streaming`, `ok`, `failed`, `aborting`
(cancelled, still holding its permit until the response is closed), `cancelled`.
`Start` is `render` up to its first await, with its three early ends: blank text,
cache hit, unknown model. `GatherReturns` is `put`, the staleness test of `_run`
and the send; `GatherRaises` is the logged failure. `Disconnect` is the
`except WebSocketDisconnect` with `aclose`; `BadMessage` is every other exception
out of the loop, which skips it. `Neighbour` is what other connections do to the
shared cache.

Abstractions: a cancelled task is over at once (its body never runs again; only
its streams unwind); cancelling a gather that already holds a child's exception
may or may not reach the other children (`CancelledCalls` allows both);
`send_json` does not suspend; the semaphore serves its waiters in any order;
permits held by other connections only delay `Acquire`, which may be delayed
anyway; `resolvable` does not change during a connection; a rendering is the set
of languages it covers, timings and texts are left out.

**DraftClient.** Each event handler is an action. The values the composer held
are numbered; `timer`, `pending`, `draft` hold the number of a value, so
"newer" is a comparison. `Invalidate` is the reset that `scheduleDraft` and
`send` share. `SwitchConversation` does what `resetConversation` does (and no
more), `SwitchPair` and `ChangeTarget` also replace the socket. `cleared` is a
history variable: the value at which drafts were last invalidated. `calc` is
`draftPending`. React state is read as current (a stale closure over
`text` between two renders is not modelled).

**DraftStream.** `sent`/`taken` and `wire`/`got` are the two FIFO directions of
the socket. A replaced socket starts a new coordinator; the old one can reach
nobody and is dropped; its pair has other cache keys, so the new one starts with
an empty store. `OtherConnections` may fill and evict it.

**ApiKeyService.** A key stands for its hash. `verify` is split at its awaits:
queue for the lock, `enabled_hashes` sent / executed / resumed, `has_any`
likewise. An administrator's commit and the `_invalidate` after it are two
steps. The decision itself changes nothing, so it is the state function
`Accepts(k)` and not an action. `Restart` may happen anywhere, with other
bootstrap keys in the settings or none (the gateway is open while no key exists), and
`Seed` runs before requests are served (lifespan, `main.py:80-83`). History
variables record when queries ran and when keys were revoked. `_maybe_touch` and
`last_used_at` are left out.

**QualityTurn.** Any number of requests in one session; the console sends while it
retranslates, and nothing on the gateway serialises them. `pc[t]` is the await (or
`yield`) handler `t` is at: `idle` (`recent_turns` not answered), `queued` on the
semaphore, `streaming`, `sending` (the client has not taken the token yet),
`backQueued`/`backStreaming` (`_round_trip`), `align`, `append`, `reply`; then
`ended`, `broken` (an exception nobody catches), `closing` (cancelled with a
stream open) or `gone`. `Start` is everything up to the first permit:
numbering, `resolve` with its fallback, or the `KeyError` of the fallback.
`StreamFails` is `except UpstreamEngineError` with its three outcomes: the error
event, the second attempt with the draft engine, the `KeyError` of its lookup. A permit is
held from `Acquire` until the stream is over, while tokens wait for the client
too. `Breaks` is a failing database or an engine error that is no `APIError`;
`Disconnect` is the cancellation by Starlette. `registered` and `session` are
chosen in `Init`, so every mix of models is explored. Engines are named by the
model they serve and a token by its engine; confidence, timings, the context's
text, the result of the translation back and the alignment are left out.
`RecentIds` counts rows of equal id as one, which changes no number. `seen`,
`earlier` and `failedBy` are history variables: the rows a handler could see, the
tokens sent before its current attempt, and the engines that failed it.

**ConversationStore.** `call[k]` is the one request of client `k` and `at` the
database await it is at. An append reads the conversation (`AppendFinds`), counts
its messages (`AppendCounts`) and commits (`AppendWrites`): the number and the title
are decided on the first two. A message of `Blank` has a source that `strip()` empties,
which the schema admits (`min_length=1`); it sets no title (`Titles`). A title for a
conversation deleted meanwhile updates no row, which SQLAlchemy refuses; without a
title the row goes in, as SQLite does not enforce foreign keys here. `GetReads` returns any list ordered by number,
as rows of one number come in any order. `CallFails` is a failing database.
`sent`, `underway` and a row's `after` (what the conversation held when its save
began) are history. Languages, the fields of a message and `list_summaries`, which
only reads, are left out.

**ConsoleHistory.** Each side of the screen (operator, customer) sends one message at a
time: `translating` until the done event, `shown` until the stream ends, then
`persistMessage`: `creating` a conversation if none is open, and `saving`. `Open`,
`Remove` and `NewConversation` are `loadConversation`, `removeConversation` and
`newConversation`/`swap`; the answers to the first two are steps of their own
(`Opened`, `Removed`). `OtherConsole` appends and deletes in the same store. The
answer to a creation may be lost (`SaveEnds`); the lost answer of a save or an opening
is a send that ends or a request that fails. At most one open and one removal are under way at
once. `calm` records that no conversation was changed in the middle of a send and no
two first messages were saved at once.

**Sessions** and **Retranslation.** `SetTgt` is the wrapper that schedules a
retranslation, `Swap`, `NewConversation` and `Load` use the raw setters. The
effect on `[src, tgt]` awaits a session (`creating`); `SessionCreated` cancels the
runs before it and begins one over the operator's messages of that moment if one is
scheduled. A run is a closure: its target, the messages it has still to translate (place, id
and source, as it found them), whether the current one was answered, whether it was
cancelled. `RunDone` writes to the message with the id it captured, whether or not the run
was cancelled, as `onDone` does. `Stored` is `append_message` by any console, with a
number that may repeat; `Load` is answered with the rows of some moment, by number and
in any order within a number. A restored message has the id `[conv, number, place]`
(`s-<id>-<seq>-<i>`, `useChat.ts:400`), so the same id may stand for another message
at the next opening; a sent one has an id of its own. A message's `source` says what it
is, its `from` what its translation was made from, its `lang` to which language.
History: `calm` (what steps leave out, see section 4), `stuck` (the last session
cancelled a run and began none), `Due` and `Late` (an answer that leaves a message in
a language no longer chosen). Abstractions: deletions of conversations are left to
`ConsoleHistory`; the sends of the customer's session are complete in one step
(`CustomerDone`), since retranslation passes them over; rows are saved by `Stored` and
not by the sends of this screen, which `ConsoleHistory` models.

**TranslationService** and **ConfidenceSpans.** The engine's stream arrives chunk by
chunk; a chunk has a text (blanks and other marks) and the logarithm of a
probability, as an integer, or none. `FinalFails` falls back to the draft engine
or answers 503; `Breaks` is an error that is no `UpstreamEngineError`. `Spans` follows
`build_confidence_spans` on the offsets `_finalize` shifts; the property recomputes
from two history variables, the chunks `streamed` and the chunk each of the `marks`
came in, which word a letter is in and what its chunks say. Prompts, context and latencies are left out.

**CpuDraftServer.** `phase[r]` is the response generator: `queued` for a pool thread,
`blocked` in it on `_gen_lock`, `paused` at a yield, `reading` the streamer in a
thread, `closing` at its last yields, `done` or `gone`. `generate[r]` is the thread
it started, `out` and `read` the two ends of the streamer's queue. A thread cannot
be cancelled, so a blocked step of a client that left still takes the lock;
`Collected` is `GeneratorExit`.

## 4. Runs

| run | question | bounds | distinct states |
|---|---|---|---|
| `draft_coordinator` | is at most one task live, do answers only move forward, do partial renderings stay out of cache and socket, does the cache keep its capacity, is every accepted revision settled, do the streams of a closed connection end, is the connection a `RevisionStream`? | 3 revisions, 2 languages, 2 texts (one of other connections) and the blank one, capacity 1, 1 permit | 142,785 |
| `draft_client` | single flight on the console, the newest value waits, nothing comes back after clearing or sending, against any increasing gateway | 5 values, 2 switches | 208,200 |
| `draft_stream` | is the real gateway the environment `draft_client` assumes, also with failures and a new pair; does the preview catch up with the text; is what is waited for under way, and does the calculating mark end? | 3 values, 1 switch, 2 languages, 1 permit | 115,716 |
| `api_key` | are stale decisions bounded, does a mix of two queries fail closed, does a revoked key stay revoked across restarts, does a waiting verification end? | 2 keys (one bootstrap), 2 callers, 1 administrator, TTL 1, 3 clock values | 353,600 |
| `quality_turn` | do numbers follow the conversation, is an answer one engine's attempt, is it stored before it is sent, does every turn end? | 2 turns, 1 permit, 2 tokens, 1 turn of context, 3 models | 196,506 |
| `conversation` | do restored messages keep their order although numbers repeat, is the title that of a first message that is not blank, what does a delete leave behind, does the screen show the open conversation, does sending end? | 2 sides, 2 conversations, 3 messages, one of them blank and saved by the other console only, 1 opening, 1 other change | 538,445 |
| `retranslation` | does a late retranslation ever show another message's translation, but for rows of one number; are the messages in the language chosen in the end; does the mark go off? | 3 languages, 2 conversations, 2 messages, sent or stored, 3 changes | 639,094 |
| `translation` | are answer and word confidence those of one engine's attempt, is a verification whole? | 3 chunks of 7 kinds, 12 requests | 374,328 |
| `cpu_server` | has at most one generation a response to fill, does every request end unless waiters take all threads? | 3 requests, 2 threads, 2 chunks | 72,504 |

Two revisions are the least in which a cancelled or orphaned rendering coexists
with a live one, a third comes after such an answer, and one permit makes its streams
wait for those; two languages
the least in which one fails while another goes on; capacity 1 evicts. Five composer
values allow a request, a waiting value, a clearing and late answers to both. Two
callers are the least that meet at the lock; three clock values are more than
TTL + 1, so that every staleness bound can be exceeded. Two turns overlap or follow
each other; one turn of context is less than what is stored; a token before and one
after the failure are needed to tell a mixed answer. Two conversations and two
messages allow both sides to save at once, into one conversation or two, while one
is opened and one change (leaving, a removal here or there, another console's message) happens;
a blank message of the other console comes before, between or after them. Three
changes of language or conversation allow an opening, a change of language that begins
a run, and a second opening while that run is still to write; two rows are the least that
can swap their places, and TLC finds the swapped ids when the exception for rows of one
number is dropped from the property. Three chunks allow blanks before, between and
after. Two threads for three requests let waiters fill the pool. All runs set
`CHECK_DEADLOCK FALSE`: bounded histories end. None uses symmetry.

**Fairness.** `DraftCoordinator!Fairness`: the event loop runs ready tasks, the
semaphore serves its waiters (asyncio's is FIFO), an upstream stream ends or
errs (the OpenAI client has a timeout). `StreamFairness` adds that timers fire
and that an open socket delivers. No fairness is assumed of typing, switching,
socket opening, failures, disconnects or other connections. `ApiKeyService!Fairness`
has strong fairness on taking the lock, as `asyncio.Lock` wakes waiters in order.
`QualityTurn!Fairness` says the same of engines, aligner, database and
semaphore, and that a client takes the token it is sent or goes away (`ClientReacts`,
which assumes of nobody that he leaves while the gateway works); without it a
client that stops reading holds a permit for ever. `HistoryFairness`: a turn ends,
as `TurnEnds` says, the store answers or fails, and the console's continuations
run; nobody has to open, leave or delete. `Retranslation!Fairness`: every turn of a run ends. `CpuDraftServer!Fairness`:
threads run, the lock passes over no waiter for ever, generation is bounded by
`max_new_tokens`, and a client that stays takes what it is sent. `DraftFollowsText`
and `InflightEnds` are stated for an *attended* connection (open, the awaited
request was sent on it, no rendering failed), `CalmScreenIsInTarget` for calm histories
(changes find no turn of `send` under way, no session failed and no turn of a run that
goes on, nothing was sent to the old session, no message was stored in another
language than its conversation's, no answer was `Late`; runs that were cancelled may go
on all the while), `RetranslationEnds` for all but a `stuck` mark, `RequestEnds` while the pool is not full
of waiters, because section 5 shows that otherwise they do not hold.

## 5. Where code and documents disagree

Each of these runs checks one statement of a document or comment; TLC finds a
behaviour of the code that violates it.

| run | statement | what the code does |
|---|---|---|
| `draft_inflight_switch` | `docs/frontend-architecture.md:141`: a swap or language change cancels the draft in progress | `inflight` and `pendingValue` survive the socket |
| `quality_default_model` | `CHANGELOG.md:25`: draft stands in only when the engine cannot be reached; `CHANGELOG.md:17`: one value names the model everywhere | `SessionConfig.quality_model` defaults to `qwen3-4b-instruct` (`schemas/session.py:56`), the registry knows `settings.quality_model`, by default `Qwen/Qwen3.5-4B` (`config.py:41`): every final translation of the console, which names no model, is made by the draft engine |
| `cpu_one_generation` | `cpu_server/app.py:29`: one generation at a time | the lock is released when an abandoned response is closed, its thread generates on beside the next one; `OneServedGeneration` is what does hold |

Others were met and have no run of their own:

* an upstream draft error is not answered with an error event
  (`docs/design.md:297-298`, `docs/backend-architecture.md:217`): `_run` logs it, the console
  waits on. `gather` has no `return_exceptions=True` (`design.md:330-331`), so the
  other targets are not rendered, and older streams are not aborted
  (`design.md:326-329`). `coordinator.py:49` (closing cancels the task) holds only for
  `WebSocketDisconnect` (action `BadMessage`);
* authentication is off when no *active* key exists (`config.py:26`,
  `.env.example:4-5`); in the code it is off only as long as no key was ever added.
  `has_any` counts revoked keys too, as the docstring of `verify` has it
  (`api_key.py:59-62`) and `test_revoke_disables_key` expects: after the last key is
  revoked the gateway stays closed. `OpenModeExpires` states what the code does,
  against the comment;
* the turn is stored after the `done` event (`docs/design.md:248-249`) and outside
  the final path of the SSE, so that no user waits for it (`docs/decisions.md:130`);
  in the code `translate_turn` awaits `append_turn` before it yields `done`
  (`quality.py:143-146`), so a client does wait, and a failing database costs it the answer.
  `AnsweredIsStored` states what the code does, against both; its mutant is the
  documented order;
* `context_turns = 0` is accepted (`config.py:66`), and then `recent_turns` returns no
  row, so every turn of a session gets number 1: `LaterTurnsCountOn` is checked and
  proved for 1 and more;
* issue and revoke do not take effect at once (`api_key.py:5`): a reload that is
  running undoes the invalidation; `RevokedKeyExpires` is the bound that holds;
* no old draft under an empty input (`useChat.ts:238`) fails after a change of
  conversation, which clears neither timer nor revision (`SwitchConversation`);
* two first messages each create a conversation, and the creation answered last
  is the open one, also when another conversation was opened meanwhile
  (`persistMessage`, `useChat.ts:204-216`). `CalmScreenIsConversation` excludes both;
* an append that overlaps a delete leaves a row of a conversation that is gone,
  and the row stays (`OrphansOverlapDelete` says there are no others);
* a cancelled retranslation still writes its last message in the old language
  (`useChat.ts:151-176`): if it answers after the new one, or when none was due,
  the message stays in the wrong language (`Late`);
* it finds the message by id, and ids of restored messages are made of number and
  place (`useChat.ts:400`). When two rows of a conversation were given the same number
  (`sql.py:138-141`) their places may be swapped at the next opening, and a late answer
  puts the translation of one on the other. `TranslationIsOfItsSource` excepts just that;
* the mark stays on when the last run was cancelled and no other begins, as after a swap or
  an opening in the middle of a retranslation (`useChat.ts:134,178`): `stuck`;
* retranslations are not saved, so a restored conversation may show several languages, which
  the comment at `useChat.ts:409-410` excludes;
* when the requests that wait for `_gen_lock` have taken every pool thread, the one that
  holds it cannot yield its next chunk, and all wait until its client leaves
  (`Starved`);
* the stateless API does not validate its languages; a session with the same ones is
  refused.

## 6. Proofs

Every safety invariant, action property and refinement that a passing run checks is
stated by a theorem, for every value of the constants; so are the types of the API
keys, which no run lists. Each invariant used below was first checked by TLC on the
instances of section 4.

Nothing is assumed beyond the named assumptions on constants, which TLC evaluates
in every run: `NoConv`, `NoMsg`, `"free"` and the like are not among the values they
stand beside, bounds are natural numbers, there is a permit (`StreamAssumption`, and
`DraftAssumption` of the gateway alone), callers are the named ones. One theorem has a
condition besides: `LaterTurnsCountOnHolds` takes `ContextTurns > 0`.

**The draft connection.** `DraftCoordinatorProofs` begins with what the cache operators
return: entries that were there, or the new one, and never more than the capacity
(`GetKeeps`, `PutKeeps`), and no key twice if none was there twice (`GetUnique`,
`PutUnique`).

For all languages, texts, revisions, permits and capacities under `DraftAssumption` it proves `TypeCorrect`,
`SingleFlightHolds`, `ResponsesIncreaseHolds`, `OnlyCompleteRenderingsHolds`,
`CacheBoundedHolds` and the refinement `ImplementsRevisionStreamHolds`
(`Spec => ImplementsRevisionStream`). The argument is the invariant `IInv`. None of
the properties is inductive alone: that ids increase needs that an answered revision
is over and not newer than `latest` (`AnsweredIsOver`), and that the writer is the
newest (`SingleFlight`); that only complete renderings are sent needs them to be so
in the cache, and the key of a put needs `PendingHasSource`. `TaskEnds` is the one
lemma all ends of a task share. The refinement maps `newest` to `latest` and
`answered` to the ids on the wire; steps of tasks, streams, cache and close map to
stuttering or one `Answer`. `CacheBounded` is kept by `get` and `put` alone; it
needs `IInv` for the types of the keys. `NothingIsLost`, the safety half of
`AcceptedIsSettled`, says that the newest revision is being rendered, was answered or
has failed; `TaskEndsWithAnswer` is why a task that ends well leaves its answer, since
only a newer revision could make `_run` drop it.

**The console's drafts.** `DraftClientProofs` proves, for all texts and any number of values and switches
under `ClientAssumption`: `TypeCorrect`, `SingleFlightHolds`,
`PendingIsNewestHolds` and the refinement `ImplementsDraftViewHolds`. What makes it
inductive: the request that can still change the preview brings a later value than
the one shown and than the last clearing (`LiveIsNews`), the timer holds a later
value than anything requested, shown or waiting (`TimerIsNewest`), what waits was
typed after the clearing (`PendingIsAfterClear`), and nothing sent is newer than
`sentRev` (`SentInOrder`). Three lemmas cover the handlers that clear, type and switch
(`InvalidatedKeeps`, `TypedKeeps`, `SwitchKeeps`); `StepKeeps` shows invariant and refinement together, as the step of the
abstract view follows from the same case.

**Console and gateway.** The second half of `DraftClientProofs` is about `DraftStream`.
The coordinator's theorems are taken over through an instance of
`DraftCoordinatorProofs`; the lemmas `Same...` say that the composition's gateway steps
are its steps. `StreamInv` joins both invariants and adds

* `RevisionsFit`: every revision uses up a value the composer held, so ids stay
  within the bound the gateway was given and it never runs out of them first;
* `RequestsNumbered`: requests begin with 1, so no answer is confused with none;
* `HeardIsDelivered`: the last answer heard is the last one delivered.

As the wire only grows (`WireGrows`) and its ids increase, the next delivery is newer
than any before (`NextAnswerIsNews`), and it answers a request that was sent
(`RequestIsKnown`): that is `Answer`, and all other steps of the gateway are hidden.
From this follow `ImplementsDraftClientHolds` and `StreamImplementsDraftView`.

`InflightIsUnderWayHolds` is the safety half of `InflightEnds`: on an attended
connection what the console waits for is on its way, being rendered, or answered on
the wire. `WaitInv` adds that only text is sent (a blank is never answered), that ids
go out in order and the newest is `sentRev`, that an unanswered flight is not stale,
that the gateway's newest is the last request it took, and `NothingIsLost`. So the
awaited request, once taken, is the newest, and the newest is not lost.

**API keys.** `ApiKeyServiceProofs` proves, for all keys, callers, administrators, TTLs and
clock bounds under `ApiKeyAssumption`: `TypeCorrect`, `RevokedKeyExpiresHolds`,
`OpenModeExpiresHolds`, `MixedSnapshotFailsClosedHolds`, and the action property
`RevokedForGoodHolds`. Its `IInv` adds to the types

* `LoadIsExclusive`: only the holder of the lock loads, and while it does the cache
  is not fresh, so the two assignments that end a load are never read half done;
* `RowsInOrder`: the first key was added before any revocation;
* `AnswersSound`: what a query answered is right for the time it ran at, even when
  it is stored later and a revocation came between;
* `CacheSound`: a fresh cache was read in the order hashes, then `has_any`, then
  stored, its hashes were enabled when they were read, and open mode rests on a
  query that saw an empty table.

The bounds follow: a revoked key that is accepted was enabled when the hashes
were read, and the cache is fresh for the TTL after it was stored.

**Quality turns.** `QualityTurnProofs` proves, for any number of turns, models, permits, tokens and
turns of context (also 0) under `QualityAssumption`: `TypeCorrect`,
`AnswerIsOneAttemptHolds` and `AnsweredIsStoredHolds`, and `LaterTurnsCountOnHolds` when
`ContextTurns` is at least 1: with 0 the query returns nothing, and the property is false.
Its `IInv` adds

* `NumbersSound`: a handler's number is above every row it could see (if
  `ContextTurns > 0`), and a row
  bears its turn's number. `LastIsHighest` is the fact behind it: the highest id
  among the newest `ContextTurns` rows is the highest of all. It takes a row with
  a minimal set of newer rows (strict inclusion is well founded on finite sets);
  that set is empty, so the query returns the row;
* `AttemptSound`: the tokens after `earlier` are those of the accumulator, all by
  the engine `degraded` tells, and only an ended handler has sent a verdict;
* `RowsSound`: a handler about to reply has stored what it will send, and no
  handler before that point has a row.

Steps that only move a handler on share `MovesStep`, steps of a handler that has
stored nothing share `LocalStep`.

**Conversations.** `ConsoleHistoryProofs` proves, for any conversations, messages and clients
of the store alone under `StoreAssumption`: `StoreTypeCorrect`, `RestoredInOrderHolds`,
`TitleOfFirstMessageHolds` and `OrphansOverlapDeleteHolds`. The order of a restored
conversation is not inductive: numbers come from counts that other requests have
overtaken. Its `IInv` carries what does persist:

* `RowsOrdered`: a row has a higher number than each row its save had found, because
  the count it took was above all of theirs (`NumbersBelowCount`, which ends with the
  conversation, and needs `RowsFinite`);
* `SavedOnce`, `SeenIsSent`, `ReadByNeed`: a message under way is in no row and was
  read by nobody, and no other request saves it;
* `FoundWasLive`: what a save found is gone with the conversation, and a save that
  outlives it is in `underway`;
* `TitleIsSet`: a live conversation has a title once it has a row that is not blank, so a
  save that found no title found only blanks.

`RowWrittenKeeps` is the commit of an append, where all of them meet.

It then proves that the composition implements the store
(`HistoryImplementsStore`: `HistorySpec => Spec`), its types (`HistoryTypeCorrect`) and
`CalmScreenIsConversationHolds`, for any number of sides, messages, conversations, openings
and changes under `HistoryAssumption`. `HInv` says which requests each client can have
(`Kinds`, `KnownCalls`), that messages being sent are different and not yet in the
store (`OwnMessages`), that a message is stored in one conversation (`StoredOnce`), and while
steps are calm that a message being saved goes to the open conversation or to the one
created for it (`CalmSends`), and that nothing is sent while a conversation is
opened, so what was read is what is stored (`CalmOpens`). `Effect(k)` sums up what a
step of the store does to requests and rows; the console's lemmas use that only.

**Retranslation.** `RetranslationProofs` proves, for any languages, conversations, messages and
changes under `RetranslationAssumption`: `TypeCorrect`, `TranslationFitsSource`,
`CalmScreenFollowsTarget` and `MarkIsOfARunHolds`, the safety half of
`RetranslationEnds`. A run writes to an id it captured long ago, and that id may stand for
another message by now, so the invariant `Inv` cannot say that an id has one source. It says
what an id and a source were once *given* to each other for (`Given`): the id of a sent
message has its source's number, and that of a restored one the conversation and the number of a
row with that source. Every id on the screen or captured by a run was given for the source
it is there with (`IdsAreGiven`), and stays so, as rows are only added (`GivenStays`). When
a late answer finds its id on another source, both are rows of one conversation and one
number: that is the exception, and the proof shows there is no other. Ids on one screen
differ, because places do (`LoadKeeps`). That the screen follows the target is said of all
that is still to come: a message of the operator is in the target's language or `Due`
(`CalmScreen`); calm sessions are those of the pair (`CalmSessions`), and only the last
run is not cancelled (`OthersAreCancelled`). `MarkStep` shows of every step, calm or not,
that the mark stands for such a run or is `stuck`.

**Stateless translation.** `TranslationServiceProofs` proves, for streams of any length and
chunks of any kind under `TranslationAssumption`: `AnswerIsOneAttemptHolds` and
`VerificationIsWholeHolds`. `AccFits` says that the tokens divide the accumulator as the chunks
did, also after it was emptied for the second engine; `FinalizeFits` carries that
through the strip and the shift, and since a letter is in exactly one word
(`WordOf`), it gets exactly one span, of the chunks of that word (`OverIsOrigins`). `Firsts`
is a recursive function: what it returns for every list (`FirstsDistinct`,
`WitnessesOfSession`) is shown on the function's own rule, by a least counterexample,
as an induction theorem with an operator parameter cannot be instantiated.

**CPU draft server.** `CpuDraftServerProofs` proves `OneServedGenerationHolds` for any requests, threads and chunks
under `CpuAssumption`: the lock belongs to the one response that has started
(`LockHasStarted`), a generation that runs has such a response or an absent client
(`RunsForResponse`), and a response leaves the block in the end only after its generation
(`ClosesAfterEnd`), so that two served generations would hold one lock.

Only model-checked: the liveness properties (TLAPS has no rules for fairness and
`ENABLED`), that is `AcceptedIsSettled`, `StreamsDrainAfterClose`, `DraftFollowsText`,
`InflightEnds`, `VerifyReturns`, `TurnEnds`, `SendEnds`, `RetranslationEnds` and
`RequestEnds`; of three of them the safety half is proved. The
statements of section 5 are refuted on their instances. No module declares a
`RECURSIVE` operator.

## 7. Not modelled

* Parts that keep no state: prompts and schemas, UI components, the aligner (one
  stateless call whose failure is an empty answer, `AlignReturns`, `AlignEnds`),
  deployment, benchmarks.
* Of modelled parts: which draft is captured with a sent message, the list of
  conversations and its highlight, `list_summaries`, the touch throttle of API keys,
  context trimming, `StabilityPolicy` (a constant answer nobody calls), the language
  catalog beyond membership, `idempotency_key`, which nothing reads.
* Several gateway connections share permits only through arbitrary delay, and
  several processes are not modelled: the deployment runs one.
* Stale React closures between two renders, and failures of the browser.

## 8. Plan

The modelled set is complete for the parts that keep state. What would be next:

1. the prefix context of turns (trimming by budget, `context.py`) against a
   reference definition;
2. several connections of one process over one semaphore, with the share each gets;
3. the list of conversations of the console, refreshed after each save and removal;
4. the safety halves of the other liveness properties: that a caller waiting for the key
   lock always has a holder that can go on, and a queued turn a permit that comes back.
