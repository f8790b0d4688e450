----------------------------- MODULE DraftClient -----------------------------
(***************************************************************************)
(* The draft side of the console's useChat hook (web/src/useChat.ts): the  *)
(* composer, IME composition, the debounce timer, the single-flight refs   *)
(* and the WebSocket they use.  Every event handler runs to completion, so *)
(* a handler is one action.                                                *)
(*                                                                         *)
(* Values of the composer are numbered in the order it held them: typed    *)
(* is that history, its last element the `text` state, and the refs and    *)
(* the preview hold numbers.  The gateway is a RevisionStream here: of the *)
(* requests sent on a socket it answers some, in increasing order.         *)
(***************************************************************************)
EXTENDS Naturals, Sequences, FiniteSets, SequencesExt

CONSTANTS
    Text,        \* values with something to translate
    Blank,       \* a value whose trim() is empty
    MaxInput,    \* bound: values the composer holds in one behaviour
    MaxSwitch    \* bound: changes of conversation or language pair

ASSUME ClientAssumption ==
    /\ Blank \notin Text
    /\ MaxInput \in Nat
    /\ MaxSwitch \in Nat

VARIABLES
    typed,       \* every value of `text`, in order
    composing,   \* composing.current
    timer,       \* the value the debounce timer was armed with, 0 if unarmed
    pending,     \* pendingValue.current, 0 for null
    inflight,    \* inflight.current
    calc,        \* draftPending
    revision,    \* revision.current
    latestRev,   \* latestRev.current
    sentRev,     \* sentRev.current
    draft,       \* the value whose renderings `draft` holds, 0 for {}
    sending,     \* sending: a turn is being translated
    session,     \* sessionId is set
    sock,        \* ws.current and its readyState
    sent,        \* requests sent on this socket: [rev, of]
    heard,       \* the last revision answered on this socket
    cleared,     \* history: the value that last invalidated the drafts
    switches     \* counts towards MaxSwitch

input == <<typed, composing>>
flight == <<pending, inflight, calc, revision, latestRev, sentRev, draft, sent, cleared>>
link == <<session, sock, heard>>
vars == <<input, timer, flight, sending, link, switches>>

Value == Text \cup {Blank}
Index == 0..MaxInput
SocketState == {"loading", "failed", "connecting", "open", "closed"}
Request == [rev : Nat, of : Index]

Now == Len(typed)               \* the number of the value on screen
CurrentText == IF typed = <<>> THEN Blank ELSE Last(typed)

Init ==
    /\ typed = <<>> /\ composing = FALSE
    /\ timer = 0
    /\ pending = 0 /\ inflight = FALSE /\ calc = FALSE
    /\ revision = 0 /\ latestRev = 0 /\ sentRev = 0
    /\ draft = 0 /\ sent = <<>> /\ cleared = 0
    /\ sending = FALSE
    /\ session = FALSE /\ sock = "loading" /\ heard = 0
    /\ switches = 0

-----------------------------------------------------------------------------
(* Pieces the handlers share.                                              *)

Hold(v) ==
    /\ Now < MaxInput
    /\ typed' = Append(typed, v)

\* Mutant: the waiting value survives.
InvalidateKeepsPending ==
    /\ revision' = revision + 1 /\ latestRev' = revision + 1
    /\ inflight' = FALSE /\ calc' = FALSE /\ draft' = 0
    /\ cleared' = Len(typed')
    /\ UNCHANGED <<pending, sentRev, sent>>

\* Mutant: answers still under way are not made stale.
InvalidateKeepsRevision ==
    /\ pending' = 0 /\ inflight' = FALSE /\ calc' = FALSE /\ draft' = 0
    /\ cleared' = Len(typed')
    /\ UNCHANGED <<revision, latestRev, sentRev, sent>>

\* Every draft request made so far becomes stale, the preview goes blank.
Invalidate ==
    /\ revision' = revision + 1
    /\ latestRev' = revision + 1
    /\ pending' = 0
    /\ inflight' = FALSE
    /\ calc' = FALSE
    /\ draft' = 0
    /\ cleared' = Len(typed')
    /\ UNCHANGED <<sentRev, sent>>

\* Mutant: the request takes the next id and the counter stays.
SendDraftReusesRevision(k) ==
    IF sock = "open"
    THEN /\ sentRev' = revision + 1
         /\ inflight' = TRUE /\ calc' = TRUE
         /\ sent' = Append(sent, [rev |-> revision + 1, of |-> k])
         /\ UNCHANGED revision
    ELSE UNCHANGED <<revision, sentRev, inflight, calc, sent>>

\* sendDraft: nothing happens unless the socket is open.
SendDraft(k) ==
    IF sock = "open"
    THEN /\ revision' = revision + 1
         /\ sentRev' = revision + 1
         /\ inflight' = TRUE
         /\ calc' = TRUE
         /\ sent' = Append(sent, [rev |-> revision + 1, of |-> k])
    ELSE UNCHANGED <<revision, sentRev, inflight, calc, sent>>

\* scheduleDraft(v): the timer is cleared first; a blank value or a socket that
\* is not open invalidates, anything else arms the timer with the new value.
ScheduleDraft(v) ==
    IF v = Blank \/ sock # "open"
    THEN timer' = 0 /\ Invalidate
    ELSE timer' = Len(typed') /\ UNCHANGED flight

-----------------------------------------------------------------------------
(* The composer.                                                           *)

\* onInput outside a composition.
OnInput(v) ==
    /\ ~composing
    /\ Hold(v)
    /\ ScheduleDraft(v)
    /\ UNCHANGED <<composing, sending, link, switches>>

\* onInput while the IME composes: only the text changes.
OnComposingInput(v) ==
    /\ composing
    /\ Hold(v)
    /\ UNCHANGED <<composing, timer, flight, sending, link, switches>>

OnCompositionStart ==
    /\ ~composing
    /\ composing' = TRUE
    /\ UNCHANGED <<typed, timer, flight, sending, link, switches>>

OnCompositionEnd(v) ==
    /\ composing
    /\ composing' = FALSE
    /\ Hold(v)
    /\ ScheduleDraft(v)
    /\ UNCHANGED <<sending, link, switches>>

\* Mutant: the timer sends whether or not a request is out.
TimerAlwaysSends ==
    /\ timer # 0
    /\ timer' = 0
    /\ SendDraft(timer)
    /\ UNCHANGED <<input, pending, latestRev, draft, cleared, sending, link, switches>>

\* Mutant: with a request out the value is dropped instead of kept waiting.
TimerDropsValue ==
    /\ timer # 0
    /\ timer' = 0
    /\ IF inflight
       THEN UNCHANGED <<revision, sentRev, inflight, calc, sent>>
       ELSE SendDraft(timer)
    /\ UNCHANGED <<input, pending, latestRev, draft, cleared, sending, link, switches>>

\* The debounce timer: with a request out only the newest value waits.
TimerFires ==
    /\ timer # 0
    /\ timer' = 0
    /\ IF inflight
       THEN /\ pending' = timer
            /\ UNCHANGED <<revision, sentRev, inflight, calc, sent>>
       ELSE /\ SendDraft(timer)
            /\ UNCHANGED pending
    /\ UNCHANGED <<input, latestRev, draft, cleared, sending, link, switches>>

\* Mutant: only an answer newer than the request in flight ends it.
OnMessageOffByOne(m) ==
    /\ sock = "open"
    /\ IF m.rev < latestRev
       THEN UNCHANGED flight
       ELSE /\ latestRev' = m.rev
            /\ draft' = m.of
            /\ UNCHANGED <<cleared, pending, revision, sentRev, inflight, calc, sent>>
    /\ UNCHANGED <<input, timer, sending, session, sock, switches>>

\* onmessage: a stale answer is dropped; the answer to the request in flight
\* ends it and sends the waiting value.
OnMessage(m) ==
    /\ sock = "open"
    /\ IF m.rev < latestRev
       THEN UNCHANGED flight
       ELSE /\ latestRev' = m.rev
            /\ draft' = m.of
            /\ UNCHANGED cleared
            /\ IF m.rev < sentRev
               THEN UNCHANGED <<pending, revision, sentRev, inflight, calc, sent>>
               ELSE /\ pending' = 0
                    /\ IF pending # 0
                       THEN SendDraft(pending)
                       ELSE /\ inflight' = FALSE
                            /\ calc' = FALSE
                            /\ UNCHANGED <<revision, sentRev, sent>>
    /\ UNCHANGED <<input, timer, sending, session, sock, switches>>

\* send: the text becomes a turn, every draft state is reset.
Send ==
    /\ CurrentText # Blank /\ ~composing
    /\ session /\ ~sending
    /\ sending' = TRUE
    /\ Hold(Blank)
    /\ timer' = 0
    /\ Invalidate
    /\ UNCHANGED <<composing, link, switches>>

\* The turn's stream and the save that follows it are over.
SendReturns ==
    /\ sending
    /\ sending' = FALSE
    /\ UNCHANGED <<input, timer, flight, link, switches>>

-----------------------------------------------------------------------------
(* Conversations, language pairs and the socket.                           *)

Switching ==
    /\ switches < MaxSwitch
    /\ switches' = switches + 1

\* The effect of [src, tgt]: its cleanup closes the socket, which delivers
\* nothing more, and the new run starts to create sessions.
ReplaceSocket ==
    /\ sock' = "loading"
    /\ sent' = <<>>
    /\ heard' = 0
    /\ UNCHANGED session

\* resetConversation, as newConversation, removeConversation and
\* loadConversation of the same pair do it: text and preview, nothing else.
SwitchConversation ==
    /\ Switching
    /\ Hold(Blank)
    /\ draft' = 0
    /\ UNCHANGED <<composing, timer, pending, inflight, calc, revision, latestRev,
                   sentRev, sent, cleared, sending, link>>

\* swap, and loadConversation of another pair.
SwitchPair ==
    /\ Switching
    /\ Hold(Blank)
    /\ draft' = 0
    /\ ReplaceSocket
    /\ UNCHANGED <<composing, timer, pending, inflight, calc, revision, latestRev,
                   sentRev, cleared, sending>>

\* setTgt: the text and the preview stay.
ChangeTarget ==
    /\ Switching
    /\ ReplaceSocket
    /\ UNCHANGED <<input, timer, pending, inflight, calc, revision, latestRev,
                   sentRev, draft, cleared, sending>>

\* Both sessions exist: openDraftSocket.
SessionsReady ==
    /\ sock = "loading"
    /\ session' = TRUE
    /\ sock' = "connecting"
    /\ UNCHANGED <<input, timer, flight, sending, heard, switches>>

\* A request of the effect fails (the first session may exist already): its
\* catch ignores the error and ws.current stays null.
SessionsFail ==
    /\ sock = "loading"
    /\ session' \in {session, TRUE}
    /\ sock' = "failed"
    /\ UNCHANGED <<input, timer, flight, sending, heard, switches>>

SocketOpens ==
    /\ sock = "connecting"
    /\ sock' = "open"
    /\ UNCHANGED <<input, timer, flight, sending, session, heard, switches>>

\* The gateway or the network closes the socket; nothing reopens it.
SocketCloses ==
    /\ sock \in {"connecting", "open"}
    /\ sock' = "closed"
    /\ UNCHANGED <<input, timer, flight, sending, session, heard, switches>>

-----------------------------------------------------------------------------

\* The gateway answers a request newer than those it answered before.
Answer(m) ==
    /\ m.rev > heard
    /\ heard' = m.rev
    /\ OnMessage(m)

Typing ==
    \/ \E v \in Value : OnInput(v) \/ OnComposingInput(v) \/ OnCompositionEnd(v)
    \/ OnCompositionStart
    \/ Send

Switch == SwitchConversation \/ SwitchPair \/ ChangeTarget

\* Steps of the client that touch neither the composer nor the gateway.
Background ==
    \/ TimerFires
    \/ SendReturns
    \/ SessionsReady
    \/ SessionsFail
    \/ SocketOpens
    \/ SocketCloses

Next ==
    \/ Typing
    \/ Switch
    \/ Background
    \/ \E m \in ToSet(sent) : Answer(m)

Spec == Init /\ [][Next]_vars

-----------------------------------------------------------------------------
(* Properties.                                                             *)

\* Every variable holds a value of its kind; numbers name values held so far.
TypeOK ==
    /\ typed \in Seq(Value) /\ Now <= MaxInput
    /\ {composing, inflight, calc, sending, session} \subseteq BOOLEAN
    /\ {timer, pending, draft, cleared} \subseteq 0..Now
    /\ {revision, switches} \subseteq Nat
    /\ {latestRev, sentRev, heard} \subseteq 0..revision
    /\ sock \in SocketState
    /\ sent \in Seq(Request)

\* Requests whose answer could still arrive and be shown.
LiveRequests == { m \in ToSet(sent) : m.rev > heard /\ m.rev >= latestRev }

\* Single flight: however clearing, sending, switching and late answers
\* interleave, at most one request can still change the preview; it is the one
\* the inflight flag and the calculating mark stand for.
SingleFlight ==
    /\ \A m \in LiveRequests : m.rev = sentRev /\ inflight
    /\ calc = inflight

\* A waiting value is newer than every value requested or shown, and a request
\* is out whose answer will send it, as long as the gateway answers.
PendingIsNewest ==
    pending # 0 =>
        /\ inflight
        /\ pending > draft
        /\ \A m \in ToSet(sent) : pending > m.of

\* Once the text was cleared or sent no draft of an earlier text comes back,
\* and the preview only moves forward: the client implements DraftView.
View == INSTANCE DraftView WITH count <- Now, cleared <- cleared, shown <- draft

ImplementsDraftView == View!Spec

\* docs/frontend-architecture.md: a swap or a change of language cancels the
\* draft in progress, so on a new socket only a request sent there is waited for.
InflightWasSentHere ==
    sock = "open" /\ inflight => \E m \in ToSet(sent) : m.rev = sentRev
=============================================================================
