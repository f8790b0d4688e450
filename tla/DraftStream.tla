----------------------------- MODULE DraftStream -----------------------------
(***************************************************************************)
(* The draft path end to end: the console's DraftClient and the gateway's  *)
(* DraftCoordinator over one WebSocket at a time.  Requests are the        *)
(* sequence `sent` on the current socket, of which the gateway has         *)
(* received the first `taken`; answers are `wire`, of which the console    *)
(* has received the first `got`.  A replaced socket gets a coordinator of  *)
(* its own; the cache keys of another language pair are other keys, so the *)
(* new coordinator starts from an empty store.                             *)
(***************************************************************************)
EXTENDS DraftClient

CONSTANTS
    Foreign,        \* cache keys that only other connections use
    Lang,           \* target languages of the session
    Permits,        \* settings.engine_max_concurrency
    CacheMax        \* settings.cache_max_entries

ASSUME StreamAssumption ==
    /\ Permits \in Nat \ {0}
    /\ CacheMax \in Nat

VARIABLES
    resolvable, conn, latest, current, source, task, call, store, wire,
    taken, got

Gateway == INSTANCE DraftCoordinator WITH MaxRev <- MaxInput

gatewayVars == <<resolvable, conn, latest, current, source, task, call, store, wire>>
channelVars == <<taken, got>>
streamVars == <<vars, gatewayVars, channelVars>>

StreamInit ==
    /\ Init
    /\ Gateway!Init
    /\ resolvable
    /\ taken = 0 /\ got = 0

-----------------------------------------------------------------------------

\* Steps of the console that leave the connection as it is.
ConsoleStep ==
    /\ Typing \/ SwitchConversation \/ TimerFires \/ SendReturns
         \/ SessionsReady \/ SessionsFail \/ SocketOpens
    /\ UNCHANGED <<gatewayVars, channelVars>>

\* draft_stream of a new connection; the old coordinator is closed with the
\* old socket and answers nobody any more.
NewConnection ==
    /\ SwitchPair \/ ChangeTarget
    /\ conn' = "open"
    /\ latest' = -1 /\ current' = -1
    /\ source' = [r \in Gateway!Rev |-> Gateway!NoSource]
    /\ task' = [r \in Gateway!Rev |-> "none"]
    /\ call' = [r \in Gateway!Rev |-> [l \in Lang |-> "none"]]
    /\ store' = <<>> /\ wire' = <<>>
    /\ taken' = 0 /\ got' = 0
    /\ UNCHANGED resolvable

\* The gateway or the network ends the connection.
ConnectionLost ==
    /\ SocketCloses
    /\ Gateway!Disconnect
    /\ UNCHANGED channelVars

\* The receive loop takes the next request.
Receive ==
    /\ sock = "open"
    /\ taken < Len(sent)
    /\ LET req == sent[taken + 1]
       IN  \/ Gateway!Submit(req.rev, typed[req.of])
           \/ Gateway!DropStale(req.rev)
    /\ taken' = taken + 1
    /\ UNCHANGED <<vars, got>>

\* A task or an engine stream of the gateway makes a step.
GatewayStep ==
    /\ \E r \in Gateway!Rev :
        \/ Gateway!TaskStep(r)
        \/ \E l \in Lang : Gateway!StreamStep(r, l)
    /\ UNCHANGED <<vars, channelVars>>

\* Other connections of the process use the shared cache.
OtherConnections ==
    /\ \E key \in Gateway!CacheKey : Gateway!Neighbour(key)
    /\ UNCHANGED <<vars, channelVars>>

\* The console receives the next answer.
Deliver ==
    /\ got < Len(wire)
    /\ \E m \in ToSet(sent) :
        /\ m.rev = wire[got + 1].rev
        /\ heard' = m.rev
        /\ OnMessage(m)
    /\ got' = got + 1
    /\ UNCHANGED <<gatewayVars, taken>>

StreamNext ==
    \/ ConsoleStep
    \/ NewConnection
    \/ ConnectionLost
    \/ Receive
    \/ GatewayStep
    \/ OtherConnections
    \/ Deliver

\* Timers fire, messages arrive while the socket is open, and the gateway's
\* event loop and the upstream make progress.
StreamFairness ==
    /\ WF_streamVars(TimerFires /\ UNCHANGED <<gatewayVars, channelVars>>)
    /\ WF_streamVars(Receive)
    /\ WF_streamVars(GatewayStep)
    /\ WF_streamVars(Deliver)

StreamSpec == StreamInit /\ [][StreamNext]_streamVars /\ StreamFairness

-----------------------------------------------------------------------------
(* Properties.                                                             *)

\* The gateway as the console meets it is the environment DraftClient assumes:
\* answers come only to requests of this socket and in increasing order.
ImplementsDraftClient == Spec

\* The connection works for the client: it is open, the request waited for was
\* sent on it, and no rendering failed (a failed one is never answered).
Attended ==
    /\ sock = "open"
    /\ InflightWasSentHere
    /\ \A r \in Gateway!Rev : task[r] # "failed"

\* Nothing is waited for in vain: as long as the connection is attended, the
\* request in flight is on its way to the gateway, is being rendered there, or
\* its answer is on the wire, whatever was typed, cleared, cached or dropped.
InflightIsUnderWay ==
    inflight /\ Attended =>
        \/ \E i \in (taken + 1)..Len(sent) : sent[i].rev = sentRev
        \/ Gateway!Pending(sentRev)
        \/ \E i \in (got + 1)..Len(wire) : wire[i].rev = sentRev

\* When typing pauses the preview catches up with the text: a value the timer
\* was armed with is not lost between the timer, the waiting value, the request
\* and the tasks that answer it.
DraftFollowsText ==
    \A k \in 1..MaxInput :
        (timer = k /\ Attended) ~> (draft = k \/ Now > k \/ ~Attended)

\* The calculating mark does not stay: every request in flight ends.
InflightEnds == inflight ~> (~inflight \/ ~Attended)
=============================================================================
