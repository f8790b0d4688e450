-------------------------- MODULE DraftClientProofs --------------------------
(***************************************************************************)
(* Proofs about the draft side of the console, for every text, any number  *)
(* of values, revisions and switches: type correctness, single flight, the *)
(* waiting value, and that the preview implements DraftView.  Then the     *)
(* composition: over the real gateway the client meets no other            *)
(* environment than the one these proofs assume, and waits for nothing     *)
(* that is not under way.                                                  *)
(***************************************************************************)
EXTENDS DraftStream, SequenceTheorems, TLAPS

\* The last request sent has the highest id, and names a value held before.
SentInOrder ==
    \A m \in ToSet(sent) : m.rev <= sentRev /\ m.of <= Now

\* The request that can still change the preview brings a later value than the
\* one shown, and one that was typed after the drafts were last invalidated.
LiveIsNews ==
    \A m \in LiveRequests : m.of > draft /\ m.of > cleared

\* The timer holds a later value than everything requested, shown or waiting.
TimerIsNewest ==
    timer # 0 =>
        /\ timer > draft /\ timer > cleared /\ timer > pending
        /\ \A m \in ToSet(sent) : timer > m.of

PendingIsAfterClear == pending # 0 => pending > cleared

IInv ==
    /\ TypeOK /\ SentInOrder
    /\ SingleFlight /\ PendingIsNewest
    /\ LiveIsNews /\ TimerIsNewest /\ PendingIsAfterClear

-----------------------------------------------------------------------------
(* The requests on the socket.                                             *)

\* An appended list has the old elements and the new one.
LEMMA AppendElements ==
    ASSUME NEW S, NEW list \in Seq(S), NEW x \in S
    PROVE  /\ Append(list, x) \in Seq(S)
           /\ ToSet(Append(list, x)) = ToSet(list) \cup {x}
<1> DEFINE longer == Append(list, x)
<1>1. /\ longer \in Seq(S) /\ Len(longer) = Len(list) + 1
      /\ \A i \in 1..Len(list) : longer[i] = list[i]
      /\ longer[Len(list) + 1] = x
  BY AppendProperties
<1>2. DOMAIN longer = 1..(Len(list) + 1) /\ DOMAIN list = 1..Len(list) /\ Len(list) \in Nat
  BY <1>1, LenProperties
<1> HIDE DEF longer
<1>3. ToSet(longer) = ToSet(list) \cup {x}
  BY <1>1, <1>2 DEF ToSet
<1> QED BY <1>1, <1>3 DEF longer

\* What is on the socket are requests, with a revision and a value.
LEMMA Requests ==
    ASSUME TypeOK
    PROVE  \A m \in ToSet(sent) : m \in Request /\ m.rev \in Nat /\ m.of \in Nat
<1>1. sent \in Seq(Request)
  BY DEF TypeOK
<1>2. \A m \in ToSet(sent) : m \in Request
  BY <1>1, LenProperties, ElementOfSeq DEF ToSet
<1> QED BY <1>2, ClientAssumption DEF Request, Index

\* A new socket carries none.
LEMMA NoRequests == <<>> \in Seq(Request) /\ ToSet(<<>>) = {}
BY EmptySeq DEF ToSet

\* A value more was typed.
LEMMA HoldTyped ==
    ASSUME TypeOK, NEW v \in Value, Hold(v)
    PROVE  /\ typed' \in Seq(Value) /\ Len(typed') = Len(typed) + 1
           /\ Len(typed) \in Nat /\ Len(typed') <= MaxInput
<1>1. typed \in Seq(Value) /\ typed' = Append(typed, v) /\ Len(typed) < MaxInput
  BY DEF TypeOK, Hold, Now
<1>2. typed' \in Seq(Value) /\ Len(typed') = Len(typed) + 1 /\ Len(typed) \in Nat
  BY <1>1, AppendProperties, LenProperties
<1> QED BY <1>1, <1>2, ClientAssumption

\* The counters are numbers.
LEMMA Numbers ==
    ASSUME TypeOK
    PROVE  /\ Now \in Nat
           /\ revision \in Nat /\ latestRev \in Nat /\ sentRev \in Nat /\ heard \in Nat
           /\ latestRev <= revision /\ sentRev <= revision /\ heard <= revision
           /\ timer \in Nat /\ pending \in Nat /\ draft \in Nat /\ cleared \in Nat
           /\ timer <= Now /\ pending <= Now /\ draft <= Now /\ cleared <= Now
<1>1. Now \in Nat
  BY LenProperties DEF TypeOK, Now
<1> QED BY <1>1 DEF TypeOK

-----------------------------------------------------------------------------
(* The kinds of steps.                                                     *)

\* The invariant holds of an empty composer.
THEOREM InitEstablishes == Init => IInv
<1> SUFFICES ASSUME Init PROVE IInv
  OBVIOUS
<1>1. ToSet(sent) = {} /\ sent \in Seq(Request)
  BY NoRequests DEF Init
<1>2. typed \in Seq(Value) /\ Now = 0
  BY EmptySeq, LenProperties DEF Init, Now
<1>3. TypeOK
  <2>1. {composing, inflight, calc, sending, session} \subseteq BOOLEAN
    BY DEF Init
  <2>2. /\ {timer, pending, draft, cleared} \subseteq 0..Now
        /\ {revision, switches} \subseteq Nat
        /\ {latestRev, sentRev, heard} \subseteq 0..revision
    BY <1>2 DEF Init
  <2>3. sock \in SocketState /\ Now <= MaxInput
    BY <1>2, ClientAssumption DEF Init, SocketState
  <2> QED BY <1>1, <1>2, <2>1, <2>2, <2>3 DEF TypeOK
<1> QED BY <1>1, <1>3
        DEF Init, IInv, SentInOrder, SingleFlight, PendingIsNewest, LiveIsNews, TimerIsNewest,
            PendingIsAfterClear, LiveRequests

\* The drafts are invalidated by the value just typed: nothing is live.
LEMMA InvalidatedKeeps ==
    ASSUME IInv, NEW v \in Value, Hold(v), timer' = 0, Invalidate,
           composing' \in BOOLEAN, sending' \in BOOLEAN, UNCHANGED <<link, switches>>
    PROVE  IInv' /\ View!Clear
<1> USE DEF IInv
<1>1. /\ typed' \in Seq(Value) /\ Len(typed') = Len(typed) + 1
      /\ Len(typed) \in Nat /\ Len(typed') <= MaxInput
  BY HoldTyped
<1>2. /\ Now \in Nat /\ Now' = Now + 1
      /\ revision \in Nat /\ latestRev \in Nat /\ sentRev \in Nat /\ heard \in Nat
      /\ latestRev <= revision /\ sentRev <= revision /\ heard <= revision
  BY <1>1, Numbers DEF Now
<1>3. /\ revision' = revision + 1 /\ latestRev' = revision + 1 /\ pending' = 0
      /\ inflight' = FALSE /\ calc' = FALSE /\ draft' = 0 /\ cleared' = Now'
      /\ sentRev' = sentRev /\ sent' = sent
      /\ session' = session /\ sock' = sock /\ heard' = heard /\ switches' = switches
  BY DEF Invalidate, Now, link
<1>4. TypeOK'
  <2>1. {composing', inflight', calc', sending', session'} \subseteq BOOLEAN
    BY <1>3 DEF TypeOK
  <2>2. /\ {timer', pending', draft', cleared'} \subseteq 0..Now'
        /\ {revision', switches'} \subseteq Nat
        /\ {latestRev', sentRev', heard'} \subseteq 0..revision'
    BY <1>2, <1>3 DEF TypeOK
  <2> QED BY <1>1, <1>3, <2>1, <2>2 DEF TypeOK, Now
<1>5. \A m \in ToSet(sent') : m.rev <= sentRev' /\ m.of <= Now' /\ m.rev \in Nat /\ m.of \in Nat
  BY <1>2, <1>3, Requests DEF SentInOrder
<1>6. LiveRequests' = {}
  BY <1>2, <1>3, <1>5 DEF LiveRequests
<1>7. IInv'
  BY <1>3, <1>4, <1>5, <1>6
     DEF SentInOrder, SingleFlight, PendingIsNewest, LiveIsNews, TimerIsNewest,
         PendingIsAfterClear
<1>8. View!Clear
  BY <1>2, <1>3 DEF View!Clear
<1> QED BY <1>7, <1>8

\* A value was typed, and perhaps the timer armed with it.
LEMMA TypedKeeps ==
    ASSUME IInv, NEW v \in Value, Hold(v), timer' \in {timer, Len(typed')}, UNCHANGED flight,
           composing' \in BOOLEAN, sending' \in BOOLEAN, UNCHANGED <<link, switches>>
    PROVE  IInv' /\ View!Type
<1> USE DEF IInv
<1>1. /\ typed' \in Seq(Value) /\ Len(typed') = Len(typed) + 1
      /\ Len(typed) \in Nat /\ Len(typed') <= MaxInput
  BY HoldTyped
<1>2. /\ Now \in Nat /\ Now' = Now + 1
      /\ timer \in Nat /\ pending \in Nat /\ draft \in Nat /\ cleared \in Nat
      /\ timer <= Now /\ pending <= Now /\ draft <= Now /\ cleared <= Now
  BY <1>1, Numbers DEF Now
<1>3. UNCHANGED <<pending, inflight, calc, revision, latestRev, sentRev, draft, sent, cleared,
                  session, sock, heard, switches>>
  BY DEF flight, link
<1>4. TypeOK'
  BY <1>1, <1>2, <1>3 DEF TypeOK, Now
<1>5. \A m \in ToSet(sent') : m.rev <= sentRev' /\ m.of < Now' /\ m.of \in Nat
  BY <1>2, <1>3, Requests DEF SentInOrder
<1>6. SentInOrder'
  BY <1>2, <1>5 DEF SentInOrder
<1>7. SingleFlight' /\ PendingIsNewest' /\ LiveIsNews' /\ PendingIsAfterClear'
  BY <1>3 DEF SingleFlight, PendingIsNewest, LiveIsNews, LiveRequests, PendingIsAfterClear
<1>8. TimerIsNewest'
  <2>1. CASE timer' = timer
    BY <1>3, <2>1 DEF TimerIsNewest
  <2>2. CASE timer' = Now'
    BY <1>2, <1>3, <1>5, <2>2 DEF TimerIsNewest
  <2> QED BY <2>1, <2>2 DEF Now
<1>9. View!Type
  BY <1>2, <1>3 DEF View!Type
<1> QED BY <1>4, <1>6, <1>7, <1>8, <1>9

\* Nothing of the drafts is touched.
LEMMA QuietKeeps ==
    ASSUME IInv, UNCHANGED <<typed, timer, flight, heard, switches>>,
           composing' \in BOOLEAN, sending' \in BOOLEAN, session' \in BOOLEAN,
           sock' \in SocketState
    PROVE  IInv' /\ UNCHANGED View!view
<1> USE DEF IInv
<1>1. UNCHANGED <<pending, inflight, calc, revision, latestRev, sentRev, draft, sent, cleared>>
  BY DEF flight
<1>2. Now' = Now
  BY DEF Now
<1>3. TypeOK'
  BY <1>1, <1>2 DEF TypeOK
<1>4. SentInOrder' /\ SingleFlight' /\ PendingIsNewest'
  BY <1>1, <1>2 DEF SentInOrder, SingleFlight, PendingIsNewest, LiveRequests
<1>5. LiveIsNews' /\ TimerIsNewest' /\ PendingIsAfterClear'
  BY <1>1 DEF LiveIsNews, TimerIsNewest, PendingIsAfterClear, LiveRequests
<1> QED BY <1>1, <1>2, <1>3, <1>4, <1>5 DEF View!view

\* Another conversation or language: the preview may go, the socket may be
\* another one, and what is under way for the old text stays.
LEMMA SwitchKeeps ==
    ASSUME IInv, Switch
    PROVE  IInv' /\ [View!Next]_(View!view)
<1> USE DEF IInv
<1>1. UNCHANGED <<composing, timer, pending, inflight, calc, revision, latestRev, sentRev,
                  cleared, sending, session>>
  BY DEF Switch, SwitchConversation, SwitchPair, ChangeTarget, ReplaceSocket, input, link
<1>2. \/ Hold(Blank) /\ draft' = 0
      \/ typed' = typed /\ draft' = draft
  BY DEF Switch, SwitchConversation, SwitchPair, ChangeTarget, input
<1>3. \/ sent' = sent /\ heard' = heard /\ sock' = sock
      \/ sent' = <<>> /\ heard' = 0 /\ sock' = "loading"
  BY DEF Switch, SwitchConversation, SwitchPair, ChangeTarget, ReplaceSocket, link
<1>4. switches' = switches + 1
  BY DEF Switch, SwitchConversation, SwitchPair, ChangeTarget, Switching
<1>5. /\ Now \in Nat /\ timer \in Nat /\ pending \in Nat /\ draft \in Nat /\ cleared \in Nat
      /\ timer <= Now /\ pending <= Now /\ draft <= Now /\ cleared <= Now
  BY Numbers
<1>6. typed' \in Seq(Value) /\ Now' \in {Now, Now + 1} /\ Now' <= MaxInput
  <2>1. CASE Hold(Blank)
    BY <2>1, HoldTyped DEF Value, Now
  <2>2. CASE typed' = typed
    BY <2>2 DEF TypeOK, Now
  <2> QED BY <1>2, <2>1, <2>2
<1>7. /\ ToSet(sent') \subseteq ToSet(sent) /\ sent' \in Seq(Request)
      /\ heard' \in 0..revision /\ sock' \in SocketState
  <2>1. CASE sent' = sent /\ heard' = heard /\ sock' = sock
    BY <2>1 DEF TypeOK
  <2>2. CASE sent' = <<>> /\ heard' = 0 /\ sock' = "loading"
    BY <2>2, NoRequests, Numbers DEF SocketState
  <2> QED BY <1>3, <2>1, <2>2
<1>8. TypeOK'
  <2>1. {timer', pending', draft', cleared'} \subseteq 0..Now'
    BY <1>1, <1>2, <1>5, <1>6
  <2>2. {latestRev', sentRev', heard'} \subseteq 0..revision' /\ {revision', switches'} \subseteq Nat
    BY <1>1, <1>4, <1>7 DEF TypeOK
  <2> QED BY <1>1, <1>6, <1>7, <2>1, <2>2 DEF TypeOK, Now
<1>9. LiveRequests' \subseteq LiveRequests
  <2>1. CASE sent' = sent /\ heard' = heard
    BY <1>1, <2>1 DEF LiveRequests
  <2>2. CASE sent' = <<>>
    BY <2>2, NoRequests DEF LiveRequests
  <2> QED BY <1>3, <2>1, <2>2
<1>10. SentInOrder'
  BY <1>1, <1>5, <1>6, <1>7, Requests DEF SentInOrder
<1>11. SingleFlight'
  BY <1>1, <1>9 DEF SingleFlight
<1>12. draft' <= draft /\ draft' \in Nat
  BY <1>2, <1>5
<1>13. PendingIsNewest' /\ PendingIsAfterClear'
  BY <1>1, <1>5, <1>7, <1>12 DEF PendingIsNewest, PendingIsAfterClear
<1>14. TimerIsNewest'
  BY <1>1, <1>5, <1>7, <1>12 DEF TimerIsNewest
<1>15. LiveIsNews'
  <2>1. \A m \in LiveRequests' : m \in LiveRequests /\ m.of \in Nat
    BY <1>9, Requests DEF LiveRequests
  <2> QED BY <1>1, <1>5, <1>12, <2>1 DEF LiveIsNews
<1>16. [View!Next]_(View!view)
  <2>1. CASE Hold(Blank) /\ draft' = 0
    <3>1. Now' = Now + 1
      BY <2>1, HoldTyped DEF Value, Now
    <3> QED BY <1>1, <2>1, <3>1 DEF View!Next, View!Hide
  <2>2. CASE typed' = typed /\ draft' = draft
    BY <1>1, <2>2 DEF View!view, Now
  <2> QED BY <1>2, <2>1, <2>2
<1> QED BY <1>8, <1>10, <1>11, <1>13, <1>14, <1>15, <1>16

-----------------------------------------------------------------------------
(* The timer and the answers.                                              *)

\* On an open socket a request is added with the next id.
LEMMA SendDraftEffect ==
    ASSUME TypeOK, NEW k \in 1..Now, sock = "open", SendDraft(k)
    PROVE  /\ revision' = revision + 1 /\ sentRev' = revision + 1
           /\ inflight' = TRUE /\ calc' = TRUE
           /\ sent' \in Seq(Request)
           /\ ToSet(sent') = ToSet(sent) \cup {[rev |-> revision + 1, of |-> k]}
<1>1. /\ revision' = revision + 1 /\ sentRev' = revision + 1
      /\ inflight' = TRUE /\ calc' = TRUE
      /\ sent' = Append(sent, [rev |-> revision + 1, of |-> k])
  BY DEF SendDraft
<1>2. [rev |-> revision + 1, of |-> k] \in Request
  <2>1. k \in Index /\ revision + 1 \in Nat
    BY Numbers, ClientAssumption DEF TypeOK, Index
  <2> QED BY <2>1 DEF Request
<1>3. sent \in Seq(Request)
  BY DEF TypeOK
<1> QED BY <1>1, <1>2, <1>3, AppendElements

\* The timer sends the value it holds, or lets it wait for the answer under way
\* (the debounce of scheduleDraft).
LEMMA TimerFiresKeeps ==
    ASSUME IInv, TimerFires
    PROVE  IInv' /\ UNCHANGED View!view
<1> USE DEF IInv
<1>1. /\ timer # 0 /\ timer' = 0
      /\ UNCHANGED <<typed, composing, latestRev, draft, cleared, sending, session, sock, heard,
                     switches>>
  BY DEF TimerFires, input, link
<1>2. /\ Now \in Nat /\ Now' = Now
      /\ revision \in Nat /\ latestRev \in Nat /\ sentRev \in Nat /\ heard \in Nat
      /\ latestRev <= revision /\ sentRev <= revision /\ heard <= revision
      /\ timer \in Nat /\ pending \in Nat /\ draft \in Nat /\ cleared \in Nat
      /\ timer <= Now /\ pending <= Now /\ draft <= Now /\ cleared <= Now
  BY <1>1, Numbers DEF Now
<1>3. UNCHANGED View!view
  BY <1>1, <1>2 DEF View!view
<1>4. TimerIsNewest'
  BY <1>1 DEF TimerIsNewest
<1>5. CASE inflight
  <2>1. pending' = timer /\ UNCHANGED <<revision, sentRev, inflight, calc, sent>>
    BY <1>5 DEF TimerFires
  <2>2. TypeOK'
    BY <1>1, <1>2, <2>1 DEF TypeOK
  <2>3. SentInOrder' /\ SingleFlight' /\ LiveIsNews'
    BY <1>1, <1>2, <2>1 DEF SentInOrder, SingleFlight, LiveIsNews, LiveRequests
  <2>4. PendingIsNewest' /\ PendingIsAfterClear'
    BY <1>1, <1>5, <2>1 DEF PendingIsNewest, PendingIsAfterClear, TimerIsNewest
  <2> QED BY <1>3, <1>4, <2>2, <2>3, <2>4
<1>6. CASE ~inflight
  <2>1. SendDraft(timer) /\ pending' = pending
    BY <1>6 DEF TimerFires
  <2>2. pending = 0 /\ LiveRequests = {}
    BY <1>6 DEF PendingIsNewest, SingleFlight
  <2>3. PendingIsNewest' /\ PendingIsAfterClear'
    BY <2>1, <2>2 DEF PendingIsNewest, PendingIsAfterClear
  <2>4. CASE sock = "open"
    <3> DEFINE new == [rev |-> revision + 1, of |-> timer]
    <3>1. /\ revision' = revision + 1 /\ sentRev' = revision + 1
          /\ inflight' = TRUE /\ calc' = TRUE
          /\ sent' \in Seq(Request) /\ ToSet(sent') = ToSet(sent) \cup {new}
      <4>1. timer \in 1..Now /\ TypeOK /\ sock = "open" /\ SendDraft(timer)
        BY <1>1, <1>2, <2>1, <2>4
      <4> QED BY <4>1, SendDraftEffect
    <3>2. TypeOK'
      <4>1. {composing', inflight', calc', sending', session'} \subseteq BOOLEAN
        BY <1>1, <3>1 DEF TypeOK
      <4>2. /\ {timer', pending', draft', cleared'} \subseteq 0..Now'
            /\ {revision', switches'} \subseteq Nat
            /\ {latestRev', sentRev', heard'} \subseteq 0..revision'
        BY <1>1, <1>2, <2>1, <3>1 DEF TypeOK
      <4> QED BY <1>1, <1>2, <3>1, <4>1, <4>2 DEF TypeOK
    <3>3. SentInOrder'
      <4>1. \A m \in ToSet(sent) : m.rev <= revision + 1 /\ m.of <= Now
        BY <1>2, Requests DEF SentInOrder
      <4> QED BY <1>2, <3>1, <4>1 DEF SentInOrder
    <3>4. LiveRequests' \subseteq {new}
      BY <1>1, <2>2, <3>1 DEF LiveRequests
    <3>5. SingleFlight' /\ LiveIsNews'
      BY <1>1, <3>1, <3>4 DEF SingleFlight, LiveIsNews, TimerIsNewest
    <3> QED BY <1>3, <1>4, <2>3, <3>2, <3>3, <3>5
  <2>5. CASE sock # "open"
    <3>1. UNCHANGED <<revision, sentRev, inflight, calc, sent>>
      BY <2>1, <2>5 DEF SendDraft
    <3>2. TypeOK'
      BY <1>1, <1>2, <2>1, <3>1 DEF TypeOK
    <3>3. SentInOrder' /\ SingleFlight' /\ LiveIsNews'
      BY <1>1, <1>2, <3>1 DEF SentInOrder, SingleFlight, LiveIsNews, LiveRequests
    <3> QED BY <1>3, <1>4, <2>3, <3>2, <3>3
  <2> QED BY <2>4, <2>5
<1> QED BY <1>5, <1>6

\* An answer that is taken belongs to the one live request: everything sent is
\* then heard, so the value that waited goes out alone.
LEMMA AnswerKeeps ==
    ASSUME IInv, NEW m \in ToSet(sent), Answer(m)
    PROVE  IInv' /\ [View!Next]_(View!view)
<1> USE DEF IInv
<1>1. /\ m.rev > heard /\ heard' = m.rev /\ sock = "open"
      /\ UNCHANGED <<typed, composing, timer, sending, session, sock, switches, cleared>>
  BY DEF Answer, OnMessage, input, flight
<1>2. /\ Now \in Nat /\ Now' = Now
      /\ revision \in Nat /\ latestRev \in Nat /\ sentRev \in Nat /\ heard \in Nat
      /\ latestRev <= revision /\ sentRev <= revision /\ heard <= revision
      /\ timer \in Nat /\ pending \in Nat /\ draft \in Nat /\ cleared \in Nat
      /\ timer <= Now /\ pending <= Now /\ draft <= Now /\ cleared <= Now
  BY <1>1, Numbers DEF Now
<1>3. \A x \in ToSet(sent) : x.rev \in Nat /\ x.of \in Nat /\ x.rev <= sentRev /\ x.of <= Now
  BY Requests DEF SentInOrder
<1>4. CASE m.rev < latestRev
  <2>1. UNCHANGED <<pending, inflight, calc, revision, latestRev, sentRev, draft, sent>>
    BY <1>4 DEF Answer, OnMessage, flight
  <2>2. TypeOK'
    BY <1>1, <1>2, <1>3, <2>1 DEF TypeOK
  <2>3. LiveRequests' \subseteq LiveRequests
    BY <1>1, <1>2, <1>3, <2>1 DEF LiveRequests
  <2>4. SentInOrder' /\ SingleFlight' /\ LiveIsNews'
    BY <1>1, <1>2, <2>1, <2>3 DEF SentInOrder, SingleFlight, LiveIsNews
  <2>5. PendingIsNewest' /\ TimerIsNewest' /\ PendingIsAfterClear'
    BY <1>1, <2>1 DEF PendingIsNewest, TimerIsNewest, PendingIsAfterClear
  <2>6. UNCHANGED View!view
    BY <1>1, <1>2, <2>1 DEF View!view
  <2> QED BY <2>2, <2>4, <2>5, <2>6
<1>5. CASE ~(m.rev < latestRev)
  <2>1. m \in LiveRequests
    BY <1>1, <1>2, <1>3, <1>5 DEF LiveRequests
  <2>2. m.rev = sentRev /\ inflight /\ m.of > draft /\ m.of > cleared
    BY <2>1 DEF SingleFlight, LiveIsNews
  <2>3. ~(m.rev < sentRev)
    BY <1>2, <2>2
  <2>4. latestRev' = m.rev /\ draft' = m.of /\ pending' = 0
    BY <1>5, <2>3 DEF Answer, OnMessage
  <2>5. [View!Next]_(View!view)
    BY <1>1, <1>2, <1>3, <2>2, <2>4 DEF View!Next, View!Show
  <2>6. PendingIsNewest' /\ PendingIsAfterClear'
    BY <2>4 DEF PendingIsNewest, PendingIsAfterClear
  <2>7. CASE pending # 0
    <3> DEFINE new == [rev |-> revision + 1, of |-> pending]
    <3>1. SendDraft(pending)
      BY <1>5, <2>3, <2>7 DEF Answer, OnMessage
    <3>2. /\ revision' = revision + 1 /\ sentRev' = revision + 1
          /\ inflight' = TRUE /\ calc' = TRUE
          /\ sent' \in Seq(Request) /\ ToSet(sent') = ToSet(sent) \cup {new}
      <4>1. pending \in 1..Now /\ TypeOK /\ sock = "open" /\ SendDraft(pending)
        BY <1>1, <1>2, <2>7, <3>1
      <4> QED BY <4>1, SendDraftEffect
    <3>3. TypeOK'
      <4>1. {composing', inflight', calc', sending', session'} \subseteq BOOLEAN
        BY <1>1, <3>2 DEF TypeOK
      <4>2. /\ {timer', pending', draft', cleared'} \subseteq 0..Now'
            /\ {revision', switches'} \subseteq Nat
            /\ {latestRev', sentRev', heard'} \subseteq 0..revision'
        BY <1>1, <1>2, <1>3, <2>4, <3>2 DEF TypeOK
      <4> QED BY <1>1, <1>2, <3>2, <4>1, <4>2 DEF TypeOK
    <3>4. SentInOrder'
      <4>1. \A x \in ToSet(sent) : x.rev <= revision + 1
        BY <1>2, <1>3
      <4> QED BY <1>2, <1>3, <3>2, <4>1 DEF SentInOrder
    <3>5. LiveRequests' \subseteq {new}
      BY <1>1, <1>2, <1>3, <2>2, <3>2 DEF LiveRequests
    <3>6. SingleFlight'
      BY <3>2, <3>5 DEF SingleFlight
    <3>7. pending > m.of /\ pending > cleared
      BY <2>7 DEF PendingIsNewest, PendingIsAfterClear
    <3>8. LiveIsNews'
      BY <1>1, <2>4, <3>5, <3>7 DEF LiveIsNews
    <3>9. TimerIsNewest'
      BY <1>1, <1>2, <2>4, <2>7, <3>2 DEF TimerIsNewest
    <3> QED BY <2>5, <2>6, <3>3, <3>4, <3>6, <3>8, <3>9
  <2>8. CASE pending = 0
    <3>1. inflight' = FALSE /\ calc' = FALSE /\ UNCHANGED <<revision, sentRev, sent>>
      BY <1>5, <2>3, <2>8 DEF Answer, OnMessage
    <3>2. TypeOK'
      <4>1. {composing', inflight', calc', sending', session'} \subseteq BOOLEAN
        BY <1>1, <3>1 DEF TypeOK
      <4>2. /\ {timer', pending', draft', cleared'} \subseteq 0..Now'
            /\ {revision', switches'} \subseteq Nat
            /\ {latestRev', sentRev', heard'} \subseteq 0..revision'
        BY <1>1, <1>2, <1>3, <2>4, <3>1 DEF TypeOK
      <4> QED BY <1>1, <1>2, <3>1, <4>1, <4>2 DEF TypeOK
    <3>3. LiveRequests' = {}
      BY <1>1, <1>2, <1>3, <2>2, <3>1 DEF LiveRequests
    <3>4. SingleFlight' /\ LiveIsNews' /\ SentInOrder'
      BY <1>2, <3>1, <3>3 DEF SingleFlight, LiveIsNews, SentInOrder
    <3>5. TimerIsNewest'
      BY <1>1, <1>2, <2>4, <3>1 DEF TimerIsNewest
    <3> QED BY <2>5, <2>6, <3>2, <3>4, <3>5
  <2> QED BY <2>7, <2>8
<1> QED BY <1>4, <1>5

-----------------------------------------------------------------------------

\* Every step of the client keeps the invariant, and is a step of DraftView or
\* changes nothing DraftView speaks of.
THEOREM StepKeeps == IInv /\ [Next]_vars => IInv' /\ [View!Next]_(View!view)
<1> SUFFICES ASSUME IInv, [Next]_vars PROVE IInv' /\ [View!Next]_(View!view)
  OBVIOUS
<1>1. {composing, sending, session} \subseteq BOOLEAN /\ sock \in SocketState
  BY DEF IInv, TypeOK
<1>2. ASSUME NEW v \in Value, OnInput(v) \/ OnCompositionEnd(v)
      PROVE  IInv' /\ [View!Next]_(View!view)
  <2>1. /\ Hold(v) /\ composing' \in BOOLEAN /\ UNCHANGED <<sending, link, switches>>
        /\ ScheduleDraft(v)
    BY <1>1, <1>2 DEF OnInput, OnCompositionEnd
  <2>2. CASE timer' = 0 /\ Invalidate
    BY <1>1, <2>1, <2>2, InvalidatedKeeps DEF View!Next
  <2>3. CASE timer' = Len(typed') /\ UNCHANGED flight
    BY <1>1, <2>1, <2>3, TypedKeeps DEF View!Next
  <2> QED BY <2>1, <2>2, <2>3 DEF ScheduleDraft
<1>3. ASSUME NEW v \in Value, OnComposingInput(v)
      PROVE  IInv' /\ [View!Next]_(View!view)
  BY <1>1, <1>3, TypedKeeps DEF OnComposingInput, View!Next
<1>4. CASE Send
  <2>1. /\ Hold(Blank) /\ timer' = 0 /\ Invalidate /\ Blank \in Value
        /\ composing' \in BOOLEAN /\ sending' \in BOOLEAN /\ UNCHANGED <<link, switches>>
    BY <1>1, <1>4 DEF Send, Value
  <2> QED BY <2>1, InvalidatedKeeps DEF View!Next
<1>5. CASE Switch
  BY <1>5, SwitchKeeps
<1>6. CASE TimerFires
  BY <1>6, TimerFiresKeeps
<1>7. CASE \/ OnCompositionStart \/ SendReturns \/ SessionsReady \/ SessionsFail
           \/ SocketOpens \/ SocketCloses \/ UNCHANGED vars
  <2>1. UNCHANGED <<typed, timer, flight, heard, switches>>
    BY <1>7 DEF OnCompositionStart, SendReturns, SessionsReady, SessionsFail, SocketOpens,
                SocketCloses, vars, input, link
  <2>2. /\ composing' \in BOOLEAN /\ sending' \in BOOLEAN /\ session' \in BOOLEAN
        /\ sock' \in SocketState
    BY <1>1, <1>7 DEF OnCompositionStart, SendReturns, SessionsReady, SessionsFail,
                SocketOpens, SocketCloses, vars, input, link, SocketState
  <2> QED BY <2>1, <2>2, QuietKeeps
<1>8. ASSUME NEW m \in ToSet(sent), Answer(m)
      PROVE  IInv' /\ [View!Next]_(View!view)
  BY <1>8, AnswerKeeps
<1> QED BY <1>2, <1>3, <1>4, <1>5, <1>6, <1>7, <1>8 DEF Next, Typing, Background

\* The invariant holds throughout.
THEOREM Inductive == Spec => []IInv
<1>1. IInv /\ [Next]_vars => IInv'
  BY StepKeeps
<1> QED BY <1>1, InitEstablishes, PTL DEF Spec

\* Every variable of the console's draft side keeps its type, and the refs name
\* values the composer has held.
THEOREM TypeCorrect == Spec => []TypeOK
<1>1. IInv => TypeOK
  BY DEF IInv
<1> QED BY <1>1, Inductive, PTL

\* At most one request can still change the preview, and it is the one the
\* inflight ref stands for.
THEOREM SingleFlightHolds == Spec => []SingleFlight
<1>1. IInv => SingleFlight
  BY DEF IInv
<1> QED BY <1>1, Inductive, PTL

\* A waiting value is the newest, and a request is out whose answer sends it.
THEOREM PendingIsNewestHolds == Spec => []PendingIsNewest
<1>1. IInv => PendingIsNewest
  BY DEF IInv
<1> QED BY <1>1, Inductive, PTL

\* The client implements DraftView: once the text was cleared or sent no draft
\* of an earlier one comes back, and the preview only moves forward.
THEOREM ImplementsDraftViewHolds == Spec => ImplementsDraftView
<1>1. Init => View!Init
  BY LenProperties, EmptySeq DEF Init, View!Init, Now
<1>2. IInv /\ [Next]_vars => [View!Next]_(View!view)
  BY StepKeeps
<1> QED BY <1>1, <1>2, Inductive, PTL DEF Spec, ImplementsDraftView, View!Spec

-----------------------------------------------------------------------------
(* The console and the gateway.  Coordinator is the gateway with what is   *)
(* proved of it; the lemmas say that Gateway, which DraftStream is made    *)
(* of, takes the same steps.                                               *)

Coordinator == INSTANCE DraftCoordinatorProofs WITH MaxRev <- MaxInput

\* The constants of the stream are ones the gateway's proofs are about.
LEMMA CoordinatorAssumption == Coordinator!DraftAssumption
BY ClientAssumption, StreamAssumption DEF Coordinator!DraftAssumption

\* The same revisions, and the same elements of a sequence.
LEMMA SameSets ==
    /\ Gateway!Rev = 0..MaxInput /\ Coordinator!Rev = 0..MaxInput
    /\ Gateway!NoTask = Coordinator!NoTask
    /\ Gateway!CacheKey = Coordinator!CacheKey
    /\ Gateway!vars = gatewayVars /\ Coordinator!vars = gatewayVars
    /\ \A s : Gateway!ToSet(s) = ToSet(s) /\ Coordinator!ToSet(s) = ToSet(s)
BY DEF Gateway!Rev, Coordinator!Rev, Gateway!NoTask, Coordinator!NoTask, Gateway!CacheKey,
       Coordinator!CacheKey, Gateway!vars, Coordinator!vars, gatewayVars, Gateway!ToSet,
       Coordinator!ToSet, ToSet

\* The same cancellations.
LEMMA SameCancel ==
    ASSUME NEW base, Gateway!CancelCurrent(base)
    PROVE  Coordinator!CancelCurrent(base)
<1>1. \A s : Gateway!AbortedCall(s) = Coordinator!AbortedCall(s)
  BY DEF Gateway!AbortedCall, Coordinator!AbortedCall
<1>2. \A r : Gateway!CancelledCalls(r) = Coordinator!CancelledCalls(r)
  BY <1>1 DEF Gateway!CancelledCalls, Coordinator!CancelledCalls
<1>3. \A r : Gateway!Pending(r) <=> Coordinator!Pending(r)
  BY DEF Gateway!Pending, Coordinator!Pending
<1> QED
  BY <1>2, <1>3, SameSets DEF Gateway!CancelCurrent, Coordinator!CancelCurrent

\* The same cache.
LEMMA SameStore ==
    /\ \A s, k : Gateway!Holds(s, k) <=> Coordinator!Holds(s, k)
    /\ \A s, k : Gateway!ValueOf(s, k) = Coordinator!ValueOf(s, k)
    /\ \A s, k : Gateway!Get(s, k) = Coordinator!Get(s, k)
    /\ \A s, k, v, max : Gateway!Put(s, k, v, max) = Coordinator!Put(s, k, v, max)
<1>1. \A s, k : Gateway!Holds(s, k) <=> Coordinator!Holds(s, k)
  BY SameSets DEF Gateway!Holds, Coordinator!Holds, Gateway!Keys, Coordinator!Keys
<1>2. \A s, k : Gateway!PositionOf(s, k) = Coordinator!PositionOf(s, k)
  BY DEF Gateway!PositionOf, Coordinator!PositionOf
<1>3. \A s, k : Gateway!ValueOf(s, k) = Coordinator!ValueOf(s, k)
  BY <1>2 DEF Gateway!ValueOf, Coordinator!ValueOf
<1>4. \A s, i : Gateway!RemoveAt(s, i) = Coordinator!RemoveAt(s, i)
  BY DEF Gateway!RemoveAt, Coordinator!RemoveAt
<1>5. \A s, k, v : Gateway!Refreshed(s, k, v) = Coordinator!Refreshed(s, k, v)
  BY <1>2, <1>4 DEF Gateway!Refreshed, Coordinator!Refreshed
<1>6. \A s, max : Gateway!Evicted(s, max) = Coordinator!Evicted(s, max)
  BY DEF Gateway!Evicted, Coordinator!Evicted
<1>7. \A s, k : Gateway!Get(s, k) = Coordinator!Get(s, k)
  BY <1>1, <1>3, <1>5 DEF Gateway!Get, Coordinator!Get
<1>8. \A s, k, v, max : Gateway!Put(s, k, v, max) = Coordinator!Put(s, k, v, max)
  BY <1>1, <1>5, <1>6 DEF Gateway!Put, Coordinator!Put
<1> QED BY <1>1, <1>3, <1>7, <1>8

\* A request the gateway of the stream takes, the coordinator takes.
LEMMA SameSubmit ==
    ASSUME NEW id \in 0..MaxInput, NEW text \in Text \cup {Blank},
           Gateway!Submit(id, text) \/ Gateway!DropStale(id)
    PROVE  [Coordinator!Next]_(Coordinator!vars)
<1>1. CASE Gateway!Submit(id, text)
  <2>1. Coordinator!Submit(id, text)
    BY <1>1, SameCancel DEF Gateway!Submit, Coordinator!Submit
  <2> QED BY <2>1, SameSets DEF Coordinator!Next, Coordinator!Receive
<1>2. CASE Gateway!DropStale(id)
  BY <1>2 DEF Gateway!DropStale, Gateway!vars, Coordinator!vars
<1> QED BY <1>1, <1>2

\* It closes as the coordinator does.
LEMMA SameDisconnect ==
    ASSUME Gateway!Disconnect
    PROVE  Coordinator!Next
<1>1. Coordinator!Disconnect
  BY SameCancel DEF Gateway!Disconnect, Coordinator!Disconnect
<1> QED BY <1>1 DEF Coordinator!Next

\* Other connections use the same cache.
LEMMA SameNeighbour ==
    ASSUME NEW key \in Gateway!CacheKey, Gateway!Neighbour(key)
    PROVE  Coordinator!Next
<1>1. Coordinator!Neighbour(key)
  BY SameStore DEF Gateway!Neighbour, Coordinator!Neighbour
<1> QED BY <1>1, SameSets DEF Coordinator!Next

\* Its tasks take the steps of the coordinator's tasks.
LEMMA SameTaskStep ==
    ASSUME NEW r \in Gateway!Rev, Gateway!TaskStep(r)
    PROVE  Coordinator!Next
<1>1. \A langs : Gateway!Emit(r, langs) <=> Coordinator!Emit(r, langs)
  BY DEF Gateway!Emit, Coordinator!Emit
<1>2. Gateway!FanOut(r) <=> Coordinator!FanOut(r)
  BY DEF Gateway!FanOut, Coordinator!FanOut
<1>3. Gateway!Rendered(r) = Coordinator!Rendered(r)
  BY DEF Gateway!Rendered, Coordinator!Rendered
<1>4. Gateway!Start(r) => Coordinator!Start(r)
  BY <1>1, <1>2, SameStore DEF Gateway!Start, Coordinator!Start
<1>5. Gateway!GatherReturns(r) => Coordinator!GatherReturns(r)
  BY <1>1, <1>3, SameStore DEF Gateway!GatherReturns, Coordinator!GatherReturns
<1>6. Gateway!GatherRaises(r) => Coordinator!GatherRaises(r)
  BY DEF Gateway!GatherRaises, Coordinator!GatherRaises
<1>7. Coordinator!TaskStep(r)
  BY <1>4, <1>5, <1>6 DEF Gateway!TaskStep, Coordinator!TaskStep
<1> QED BY <1>7, SameSets DEF Coordinator!Next

\* And its engine streams those of the coordinator's.
LEMMA SameStreamStep ==
    ASSUME NEW r \in Gateway!Rev, NEW l \in Lang, Gateway!StreamStep(r, l)
    PROVE  Coordinator!Next
<1>1. Gateway!Holding = Coordinator!Holding
  BY SameSets DEF Gateway!Holding, Coordinator!Holding
<1>2. \A s : Gateway!SetCall(r, l, s) <=> Coordinator!SetCall(r, l, s)
  BY DEF Gateway!SetCall, Coordinator!SetCall
<1>3. \A S : Gateway!Cardinality(S) = Coordinator!Cardinality(S)
  BY DEF Gateway!Cardinality, Coordinator!Cardinality
<1>4. Coordinator!StreamStep(r, l)
  BY <1>1, <1>2, <1>3
     DEF Gateway!StreamStep, Coordinator!StreamStep, Gateway!Acquire, Coordinator!Acquire,
         Gateway!StreamEnds, Coordinator!StreamEnds, Gateway!StreamFails,
         Coordinator!StreamFails, Gateway!StreamAborted, Coordinator!StreamAborted
<1> QED BY <1>4, SameSets DEF Coordinator!Next

-----------------------------------------------------------------------------
(* The invariant of the composition.                                       *)

One(k) == IF k = 0 THEN 0 ELSE 1

\* Every revision sent, and every one still to be sent, has a value of its own:
\* the ids stay within the gateway's.
RevisionsFit == revision + One(timer) + One(pending) <= Now

\* Requests are numbered from one, and bring a value that was typed.
RequestsNumbered == \A m \in ToSet(sent) : m.rev >= 1 /\ m.of >= 1

\* The console has heard the answers it took from the wire, and no others.
HeardIsDelivered ==
    /\ taken \in Nat
    /\ got \in 0..Len(wire)
    /\ heard = IF got = 0 THEN 0 ELSE wire[got].rev

StreamInv ==
    /\ IInv /\ RevisionsFit /\ RequestsNumbered
    /\ Coordinator!IInv
    /\ HeardIsDelivered

\* A request sent takes the place of the value it brings.
LEMMA SendDraftFits ==
    ASSUME TypeOK, RequestsNumbered, NEW k \in 1..Now, SendDraft(k)
    PROVE  /\ RequestsNumbered'
           /\ revision' \in {revision, revision + 1}
<1>1. CASE sock = "open"
  <2>1. /\ revision' = revision + 1
        /\ ToSet(sent') = ToSet(sent) \cup {[rev |-> revision + 1, of |-> k]}
    BY <1>1, SendDraftEffect
  <2>2. revision + 1 >= 1 /\ k >= 1
    BY Numbers
  <2> QED BY <2>1, <2>2 DEF RequestsNumbered
<1>2. CASE sock # "open"
  BY <1>2 DEF SendDraft, RequestsNumbered
<1> QED BY <1>1, <1>2

\* No step of the console sends more than it has values for.
LEMMA CountsKeep ==
    ASSUME IInv, RevisionsFit, RequestsNumbered, [Next]_vars
    PROVE  RevisionsFit' /\ RequestsNumbered'
<1> USE DEF IInv
<1>1. /\ Now \in Nat /\ revision \in Nat /\ timer \in Nat /\ pending \in Nat
      /\ timer <= Now /\ pending <= Now
  BY Numbers
<1>2. ASSUME NEW v \in Value, Hold(v)
      PROVE  Now' = Now + 1 /\ Len(typed') = Now + 1
  BY <1>2, HoldTyped DEF Now
<1>3. ASSUME NEW v \in Value, Hold(v), timer' = 0, Invalidate
      PROVE  RevisionsFit' /\ RequestsNumbered'
  BY <1>1, <1>2, <1>3 DEF RevisionsFit, RequestsNumbered, One, Invalidate
<1>4. ASSUME NEW v \in Value, Hold(v), timer' \in {timer, Len(typed')},
             UNCHANGED <<revision, pending, sent>>
      PROVE  RevisionsFit' /\ RequestsNumbered'
  BY <1>1, <1>2, <1>4 DEF RevisionsFit, RequestsNumbered, One
<1>5. ASSUME NEW v \in Value, OnInput(v) \/ OnCompositionEnd(v)
      PROVE  RevisionsFit' /\ RequestsNumbered'
  BY <1>3, <1>4, <1>5 DEF OnInput, OnCompositionEnd, ScheduleDraft, flight
<1>6. ASSUME NEW v \in Value, OnComposingInput(v)
      PROVE  RevisionsFit' /\ RequestsNumbered'
  BY <1>4, <1>6 DEF OnComposingInput, flight
<1>7. CASE Send
  BY <1>3, <1>7 DEF Send, Value
<1>8. CASE Switch
  <2>1. UNCHANGED <<timer, pending, revision>> /\ (sent' = sent \/ sent' = <<>>)
    BY <1>8 DEF Switch, SwitchConversation, SwitchPair, ChangeTarget, ReplaceSocket
  <2>2. Now' = Now \/ Now' = Now + 1
    <3>1. Hold(Blank) \/ typed' = typed
      BY <1>8 DEF Switch, SwitchConversation, SwitchPair, ChangeTarget, input
    <3> QED BY <1>2, <3>1 DEF Now, Value
  <2> QED BY <1>1, <2>1, <2>2, NoRequests DEF RevisionsFit, RequestsNumbered, One
<1>9. CASE TimerFires
  <2>1. timer \in 1..Now /\ timer' = 0 /\ Now' = Now
    BY <1>1, <1>9 DEF TimerFires, input, Now
  <2>2. CASE inflight
    BY <1>1, <1>9, <2>1, <2>2 DEF TimerFires, RevisionsFit, RequestsNumbered, One
  <2>3. CASE ~inflight
    <3>1. SendDraft(timer) /\ pending' = pending
      BY <1>9, <2>3 DEF TimerFires
    <3>2. RequestsNumbered' /\ revision' \in {revision, revision + 1}
      BY <2>1, <3>1, SendDraftFits
    <3>3. /\ One(timer) = 1 /\ One(timer)' = 0
          /\ One(pending)' = One(pending) /\ One(pending) \in Nat
      BY <2>1, <3>1 DEF One
    <3> QED BY <1>1, <2>1, <3>2, <3>3 DEF RevisionsFit
  <2> QED BY <2>2, <2>3
<1>10. CASE \/ OnCompositionStart \/ SendReturns \/ SessionsReady \/ SessionsFail
            \/ SocketOpens \/ SocketCloses \/ UNCHANGED vars
  <2>1. UNCHANGED <<typed, timer, flight>>
    BY <1>10 DEF OnCompositionStart, SendReturns, SessionsReady, SessionsFail, SocketOpens,
                 SocketCloses, vars, input
  <2> QED BY <2>1 DEF RevisionsFit, RequestsNumbered, Now, flight
<1>11. ASSUME NEW m \in ToSet(sent), Answer(m)
       PROVE  RevisionsFit' /\ RequestsNumbered'
  <2>1. timer' = timer /\ Now' = Now
    BY <1>11 DEF Answer, OnMessage, input, Now
  <2>2. CASE pending' = pending /\ UNCHANGED <<revision, sent>>
    BY <2>1, <2>2 DEF RevisionsFit, RequestsNumbered
  <2>3. CASE pending' = 0 /\ pending = 0 /\ UNCHANGED <<revision, sent>>
    BY <2>1, <2>3 DEF RevisionsFit, RequestsNumbered
  <2>4. CASE pending' = 0 /\ pending # 0 /\ SendDraft(pending)
    <3>1. pending \in 1..Now
      BY <1>1, <2>4
    <3>2. RequestsNumbered' /\ revision' \in {revision, revision + 1}
      BY <2>4, <3>1, SendDraftFits
    <3>3. /\ One(pending) = 1 /\ One(pending)' = 0
          /\ One(timer)' = One(timer) /\ One(timer) \in Nat
      BY <2>1, <2>4 DEF One
    <3> QED BY <1>1, <2>1, <3>2, <3>3 DEF RevisionsFit
  <2> QED BY <1>11, <2>2, <2>3, <2>4 DEF Answer, OnMessage, flight
<1> QED BY <1>5, <1>6, <1>7, <1>8, <1>9, <1>10, <1>11 DEF Next, Typing, Background

\* A step of the coordinator leaves what the console took from the wire.
LEMMA CoordinatorKeeps ==
    ASSUME Coordinator!IInv, HeardIsDelivered, [Coordinator!Next]_(Coordinator!vars),
           taken' \in Nat, got' = got, heard' = heard
    PROVE  Coordinator!IInv' /\ HeardIsDelivered'
<1>1. Coordinator!IInv'
  BY Coordinator!StepKeeps, CoordinatorAssumption
<1>2. /\ Len(wire) <= Len(wire')
      /\ \A i \in 1..Len(wire) : wire'[i] = wire[i]
  BY Coordinator!WireGrows, CoordinatorAssumption
<1>3. wire \in Seq(Coordinator!Response) /\ wire' \in Seq(Coordinator!Response)
  BY <1>1 DEF Coordinator!IInv, Coordinator!TypeOK
<1>4. Len(wire) \in Nat /\ Len(wire') \in Nat
  BY <1>3, LenProperties
<1> QED BY <1>1, <1>2, <1>4 DEF HeardIsDelivered

\* The answer the console takes next is to a request newer than all it heard of:
\* the wire is in increasing order, and requests are numbered from one.
LEMMA NextAnswerIsNews ==
    ASSUME StreamInv, Deliver
    PROVE  \E m \in ToSet(sent) : Answer(m)
<1>1. PICK m \in ToSet(sent) : m.rev = wire[got + 1].rev /\ heard' = m.rev /\ OnMessage(m)
  BY DEF Deliver
<1>2. m.rev > heard
  <2>1. wire \in Seq(Coordinator!Response) /\ got \in Nat /\ got + 1 \in 1..Len(wire)
    BY LenProperties DEF StreamInv, Coordinator!IInv, Coordinator!TypeOK, HeardIsDelivered, Deliver
  <2>2. CASE got = 0
    BY <2>2, Requests DEF StreamInv, IInv, RequestsNumbered, HeardIsDelivered
  <2>3. CASE got # 0
    <3>1. got \in DOMAIN wire /\ got + 1 \in DOMAIN wire /\ got < got + 1
      BY <2>1, <2>3, LenProperties
    <3>2. wire[got].rev < wire[got + 1].rev
      BY <3>1 DEF StreamInv, Coordinator!IInv, Coordinator!ResponsesIncrease
    <3>3. heard = wire[got].rev /\ heard \in Nat /\ m.rev \in Nat
      BY <2>3, Requests, Numbers DEF StreamInv, IInv, HeardIsDelivered
    <3> QED BY <1>1, <3>2, <3>3
  <2> QED BY <2>2, <2>3
<1> QED BY <1>1, <1>2 DEF Answer

\* A request the gateway receives has an id and a text the gateway knows.
LEMMA RequestIsKnown ==
    ASSUME StreamInv, NEW i \in 1..Len(sent)
    PROVE  sent[i].rev \in 0..MaxInput /\ typed[sent[i].of] \in Text \cup {Blank}
<1>1. sent[i] \in ToSet(sent)
  BY LenProperties DEF StreamInv, IInv, TypeOK, ToSet
<1>2. /\ sent[i].rev \in Nat /\ sent[i].of \in Nat
      /\ sent[i].rev <= sentRev /\ sent[i].of <= Now
      /\ sent[i].rev >= 1 /\ sent[i].of >= 1
  BY <1>1, Requests DEF StreamInv, IInv, SentInOrder, RequestsNumbered
<1>3. /\ Now \in Nat /\ revision \in Nat /\ sentRev \in Nat /\ sentRev <= revision
      /\ Now <= MaxInput /\ MaxInput \in Nat
  BY Numbers, ClientAssumption DEF StreamInv, IInv, TypeOK
<1>4. revision <= Now
  BY <1>3 DEF StreamInv, RevisionsFit, One
<1>5. typed \in Seq(Value) /\ sent[i].of \in 1..Len(typed)
  BY <1>2, <1>3 DEF StreamInv, IInv, TypeOK, Now
<1> QED BY <1>2, <1>3, <1>4, <1>5, ElementOfSeq DEF Value

\* The invariant holds when the page is loaded.
LEMMA StreamInitEstablishes == StreamInit => StreamInv
<1> SUFFICES ASSUME StreamInit PROVE StreamInv
  OBVIOUS
<1>1. IInv /\ revision = 0 /\ timer = 0 /\ pending = 0 /\ Now = 0 /\ ToSet(sent) = {} /\ heard = 0
  BY InitEstablishes, NoRequests, EmptySeq, LenProperties DEF StreamInit, Init, Now
<1>2. Coordinator!Init
  BY SameSets DEF StreamInit, Gateway!Init, Coordinator!Init, Gateway!NoSource, Coordinator!NoSource
<1>3. Coordinator!IInv
  BY <1>2, Coordinator!InitEstablishes, CoordinatorAssumption
<1>4. taken = 0 /\ got = 0 /\ wire = <<>>
  BY DEF StreamInit, Gateway!Init
<1>5. HeardIsDelivered
  BY <1>1, <1>4, EmptySeq, LenProperties DEF HeardIsDelivered
<1> QED BY <1>1, <1>3, <1>5 DEF StreamInv, RevisionsFit, RequestsNumbered, One

\* A new socket has a new coordinator, in its initial state.
LEMMA NewCoordinator ==
    ASSUME NewConnection, StreamInv
    PROVE  Coordinator!Init'
<1>1. resolvable' \in BOOLEAN
  BY DEF NewConnection, StreamInv, Coordinator!IInv, Coordinator!TypeOK
<1> QED
  BY <1>1 DEF NewConnection, Coordinator!Init, Gateway!NoSource, Coordinator!NoSource, Gateway!Rev,
              Coordinator!Rev, Coordinator!NoTask

\* Every step of the composition keeps the invariant and is a step of the client,
\* with the gateway as its environment, or leaves the client as it is; and it is a
\* step of the coordinator, unless that is a new one.
THEOREM StreamStepKeeps ==
    StreamInv /\ [StreamNext]_streamVars =>
        /\ StreamInv' /\ [Next]_vars
        /\ NewConnection \/ [Coordinator!Next]_(Coordinator!vars)
<1> DEFINE OfCoordinator == NewConnection \/ [Coordinator!Next]_(Coordinator!vars)
<1> SUFFICES ASSUME StreamInv, [StreamNext]_streamVars
             PROVE  StreamInv' /\ [Next]_vars /\ OfCoordinator
  OBVIOUS
<1>1. ASSUME [Next]_vars, Coordinator!IInv', HeardIsDelivered', OfCoordinator
      PROVE  StreamInv' /\ [Next]_vars /\ OfCoordinator
  BY <1>1, StepKeeps, CountsKeep DEF StreamInv
<1>2. ASSUME UNCHANGED vars, [Coordinator!Next]_(Coordinator!vars), taken' \in Nat, got' = got
      PROVE  StreamInv' /\ [Next]_vars /\ OfCoordinator
  <2>1. heard' = heard
    BY <1>2 DEF vars, link
  <2> QED BY <1>1, <1>2, <2>1, CoordinatorKeeps DEF StreamInv
<1>3. CASE ConsoleStep
  <2>1. Next /\ heard' = heard /\ UNCHANGED Coordinator!vars /\ got' = got /\ taken' = taken
    BY <1>3 DEF ConsoleStep, Next, Switch, Background, channelVars, gatewayVars, Coordinator!vars,
                Typing, OnInput, OnComposingInput, OnCompositionEnd, OnCompositionStart, Send,
                SwitchConversation, TimerFires, SendReturns, SessionsReady, SessionsFail,
                SocketOpens, link
  <2>2. taken' \in Nat
    BY <2>1 DEF StreamInv, HeardIsDelivered
  <2> QED BY <1>1, <2>1, <2>2, CoordinatorKeeps DEF StreamInv
<1>4. CASE NewConnection
  <2>1. Next
    BY <1>4 DEF NewConnection, Next, Switch
  <2>2. Coordinator!IInv'
    BY <1>4, NewCoordinator, Coordinator!InitEstablishes, CoordinatorAssumption, PTL
  <2>3. heard' = 0 /\ wire' = <<>> /\ taken' = 0 /\ got' = 0
    BY <1>4 DEF NewConnection, SwitchPair, ChangeTarget, ReplaceSocket
  <2>4. HeardIsDelivered'
    BY <2>3, EmptySeq, LenProperties DEF HeardIsDelivered
  <2> QED BY <1>1, <1>4, <2>1, <2>2, <2>4
<1>5. CASE ConnectionLost
  <2>1. Next /\ heard' = heard /\ got' = got /\ taken' = taken
    BY <1>5 DEF ConnectionLost, Next, Background, SocketCloses, channelVars
  <2>2. Coordinator!Next
    BY <1>5, SameDisconnect DEF ConnectionLost
  <2>3. taken' \in Nat
    BY <2>1 DEF StreamInv, HeardIsDelivered
  <2> QED BY <1>1, <2>1, <2>2, <2>3, CoordinatorKeeps DEF StreamInv
<1>6. CASE Receive
  <2>1. /\ UNCHANGED vars /\ got' = got /\ taken' = taken + 1
        /\ taken < Len(sent)
    BY <1>6 DEF Receive
  <2>2. taken \in Nat /\ taken + 1 \in 1..Len(sent)
    BY <2>1, LenProperties DEF StreamInv, HeardIsDelivered, IInv, TypeOK
  <2>3. /\ sent[taken + 1].rev \in 0..MaxInput
        /\ typed[sent[taken + 1].of] \in Text \cup {Blank}
    BY <2>2, RequestIsKnown
  <2>4. \/ Gateway!Submit(sent[taken + 1].rev, typed[sent[taken + 1].of])
        \/ Gateway!DropStale(sent[taken + 1].rev)
    BY <1>6 DEF Receive
  <2>5. [Coordinator!Next]_(Coordinator!vars)
    BY <2>3, <2>4, SameSubmit
  <2> QED BY <1>2, <2>1, <2>2, <2>5
<1>7. CASE GatewayStep
  <2>1. UNCHANGED vars /\ got' = got /\ taken' = taken
    BY <1>7 DEF GatewayStep, channelVars
  <2>2. Coordinator!Next
    BY <1>7, SameTaskStep, SameStreamStep DEF GatewayStep
  <2>3. taken' \in Nat
    BY <2>1 DEF StreamInv, HeardIsDelivered
  <2> QED BY <1>2, <2>1, <2>2, <2>3
<1>8. CASE OtherConnections
  <2>1. UNCHANGED vars /\ got' = got /\ taken' = taken
    BY <1>8 DEF OtherConnections, channelVars
  <2>2. Coordinator!Next
    BY <1>8, SameNeighbour DEF OtherConnections
  <2>3. taken' \in Nat
    BY <2>1 DEF StreamInv, HeardIsDelivered
  <2> QED BY <1>2, <2>1, <2>2, <2>3
<1>9. CASE Deliver
  <2>1. Next
    BY <1>9, NextAnswerIsNews DEF Next
  <2>2. /\ heard' = wire[got + 1].rev /\ got' = got + 1 /\ got < Len(wire)
        /\ wire' = wire /\ taken' = taken /\ UNCHANGED Coordinator!vars
    BY <1>9 DEF Deliver, gatewayVars, Coordinator!vars
  <2>3. Coordinator!IInv'
    BY <2>2, Coordinator!StepKeeps, CoordinatorAssumption DEF StreamInv
  <2>4. HeardIsDelivered'
    <3>1. Len(wire) \in Nat /\ got \in Nat /\ taken \in Nat
      BY LenProperties DEF StreamInv, Coordinator!IInv, Coordinator!TypeOK, HeardIsDelivered
    <3> QED BY <2>2, <3>1 DEF HeardIsDelivered
  <2> QED BY <1>1, <2>1, <2>2, <2>3, <2>4
<1>10. CASE UNCHANGED streamVars
  <2>1. UNCHANGED vars /\ UNCHANGED Coordinator!vars /\ got' = got /\ taken' = taken
    BY <1>10 DEF streamVars, channelVars, gatewayVars, Coordinator!vars
  <2>2. taken' \in Nat
    BY <2>1 DEF StreamInv, HeardIsDelivered
  <2> QED BY <1>2, <2>1, <2>2
<1> QED BY <1>3, <1>4, <1>5, <1>6, <1>7, <1>8, <1>9, <1>10 DEF StreamNext

\* The invariant holds throughout.
THEOREM StreamInductive == StreamSpec => []StreamInv
<1>1. StreamInv /\ [StreamNext]_streamVars => StreamInv'
  BY StreamStepKeeps
<1> QED BY <1>1, StreamInitEstablishes, PTL DEF StreamSpec

\* The gateway as it is built is the environment the client's theorems assume:
\* answers come only to requests of this socket and in increasing order.
THEOREM ImplementsDraftClientHolds == StreamSpec => ImplementsDraftClient
<1>1. StreamInit => Init
  BY DEF StreamInit
<1>2. StreamInv /\ [StreamNext]_streamVars => [Next]_vars
  BY StreamStepKeeps
<1> QED BY <1>1, <1>2, StreamInductive, PTL DEF StreamSpec, ImplementsDraftClient, Spec

\* End to end: over the real gateway the preview still implements DraftView.
THEOREM StreamImplementsDraftView == StreamSpec => ImplementsDraftView
BY ImplementsDraftClientHolds, ImplementsDraftViewHolds, PTL DEF ImplementsDraftClient

-----------------------------------------------------------------------------
(* What the console waits for is under way.                                *)

\* Only values with something to translate are timed, kept waiting or sent.
BroughtIsText ==
    /\ timer # 0 => typed[timer] \in Text
    /\ pending # 0 => typed[pending] \in Text
    /\ \A m \in ToSet(sent) : typed[m.of] \in Text

\* Requests go out in the order of their ids, the last one being sentRev's.
SentIncrease ==
    /\ \A i, j \in 1..Len(sent) : i < j => sent[i].rev < sent[j].rev
    /\ sent # <<>> => sent[Len(sent)].rev = sentRev

\* What is in flight was not answered, and nothing made it stale.
InflightIsUnheard == inflight => sentRev > heard /\ sentRev >= latestRev

\* The gateway has accepted the requests it took, the last one being its newest.
TakenInOrder ==
    /\ taken \in 0..Len(sent)
    /\ latest = IF taken = 0 THEN -1 ELSE sent[taken].rev
    /\ taken # 0 => source[latest] \in Text
    /\ sock # "closed" => conn = "open"

WaitInv ==
    /\ BroughtIsText /\ SentIncrease /\ InflightIsUnheard
    /\ TakenInOrder
    /\ Coordinator!NothingIsLost

\* Values the composer held stay where they are.
LEMMA HeldStay ==
    ASSUME TypeOK, NEW v \in Value, Hold(v)
    PROVE  /\ \A k \in 1..Now : typed'[k] = typed[k]
           /\ typed'[Now + 1] = v
BY AppendProperties DEF TypeOK, Hold, Now

\* The numbers in use are numbers of values held.
LEMMA InUse ==
    ASSUME IInv, RequestsNumbered
    PROVE  /\ timer # 0 => timer \in 1..Now
           /\ pending # 0 => pending \in 1..Now
           /\ \A m \in ToSet(sent) : m.of \in 1..Now
BY Numbers, Requests DEF IInv, SentInOrder, RequestsNumbered

\* Typing and clearing bring nothing that has no text.
LEMMA TypedBringsText ==
    ASSUME IInv, RequestsNumbered, BroughtIsText, NEW v \in Value, Hold(v),
           timer' \in {0, timer} \/ (timer' = Len(typed') /\ v \in Text),
           pending' \in {0, pending}, sent' \in {<<>>, sent}
    PROVE  BroughtIsText'
<1>1. /\ \A k \in 1..Now : typed'[k] = typed[k]
      /\ typed'[Now + 1] = v /\ Len(typed') = Now + 1
  BY HeldStay, HoldTyped DEF IInv, Now
<1>2. \A m \in ToSet(sent') : m \in ToSet(sent)
  BY NoRequests
<1> QED BY <1>1, <1>2, InUse DEF BroughtIsText

\* A request that goes out is the last and has the highest id.
LEMMA SendDraftInOrder ==
    ASSUME IInv, SentIncrease, NEW k \in 1..Now, SendDraft(k)
    PROVE  SentIncrease'
<1>1. CASE sock = "open"
  <2> DEFINE new == [rev |-> revision + 1, of |-> k]
  <2>1. sentRev' = revision + 1 /\ sent' = Append(sent, new)
    BY <1>1 DEF SendDraft
  <2>2. sent \in Seq(Request) /\ Len(sent) \in Nat
    BY LenProperties DEF IInv, TypeOK
  <2>3. new.rev = revision + 1
    OBVIOUS
  <2> HIDE DEF new
  <2>4. /\ Len(sent') = Len(sent) + 1 /\ sent'[Len(sent) + 1] = new
        /\ \A i \in 1..Len(sent) : sent'[i] = sent[i]
    BY <2>1, <2>2
  <2>5. \A i \in 1..Len(sent) : sent[i].rev \in Nat /\ sent[i].rev < revision + 1
    <3>1. \A i \in 1..Len(sent) : sent[i] \in ToSet(sent)
      BY <2>2, LenProperties DEF ToSet
    <3> QED BY <3>1, Requests, Numbers DEF IInv, SentInOrder
  <2>6. \A i, j \in 1..Len(sent') : i < j => sent'[i].rev < sent'[j].rev
    <3> SUFFICES ASSUME NEW i \in 1..(Len(sent) + 1), NEW j \in 1..(Len(sent) + 1), i < j
                 PROVE  sent'[i].rev < sent'[j].rev
      BY <2>4
    <3>1. i \in 1..Len(sent)
      BY <2>2
    <3>2. CASE j = Len(sent) + 1
      BY <2>3, <2>4, <2>5, <3>1, <3>2
    <3>3. CASE j # Len(sent) + 1
      BY <2>2, <2>4, <3>1, <3>3 DEF SentIncrease
    <3> QED BY <3>2, <3>3
  <2> QED BY <2>1, <2>3, <2>4, <2>6 DEF SentIncrease
<1>2. CASE sock # "open"
  BY <1>2 DEF SendDraft, SentIncrease
<1> QED BY <1>1, <1>2

\* And brings a text, being one the timer held or one that waited.
LEMMA SendDraftBringsText ==
    ASSUME IInv, BroughtIsText, NEW k \in 1..Now, typed[k] \in Text, SendDraft(k),
           typed' = typed, timer' \in {0, timer}, pending' \in {0, pending}
    PROVE  BroughtIsText'
<1>1. CASE sock = "open"
  <2>1. ToSet(sent') = ToSet(sent) \cup {[rev |-> revision + 1, of |-> k]}
    BY <1>1, SendDraftEffect DEF IInv
  <2> QED BY <2>1 DEF BroughtIsText
<1>2. CASE sock # "open"
  BY <1>2 DEF SendDraft, BroughtIsText
<1> QED BY <1>1, <1>2

\* Every step of the console keeps what it needs of its requests.
LEMMA ClientWaits ==
    ASSUME IInv, RequestsNumbered, BroughtIsText, SentIncrease, InflightIsUnheard, [Next]_vars
    PROVE  BroughtIsText' /\ SentIncrease' /\ InflightIsUnheard'
<1>1. /\ Now \in Nat /\ revision \in Nat /\ latestRev \in Nat /\ sentRev \in Nat /\ heard \in Nat
      /\ latestRev <= revision /\ sentRev <= revision /\ heard <= revision
      /\ timer \in Nat /\ pending \in Nat
  BY Numbers DEF IInv
<1>2. ASSUME NEW v \in Value, Hold(v), timer' = 0, Invalidate
      PROVE  BroughtIsText' /\ SentIncrease' /\ InflightIsUnheard'
  BY <1>2, TypedBringsText DEF Invalidate, SentIncrease, InflightIsUnheard
<1>3. ASSUME NEW v \in Value, Hold(v), UNCHANGED <<flight, link>>,
             timer' = timer \/ (timer' = Len(typed') /\ v \in Text)
      PROVE  BroughtIsText' /\ SentIncrease' /\ InflightIsUnheard'
  BY <1>3, TypedBringsText DEF flight, link, SentIncrease, InflightIsUnheard
<1>4. ASSUME NEW v \in Value, OnInput(v) \/ OnCompositionEnd(v)
      PROVE  BroughtIsText' /\ SentIncrease' /\ InflightIsUnheard'
  BY <1>2, <1>3, <1>4 DEF OnInput, OnCompositionEnd, ScheduleDraft, Value
<1>5. ASSUME NEW v \in Value, OnComposingInput(v)
      PROVE  BroughtIsText' /\ SentIncrease' /\ InflightIsUnheard'
  BY <1>3, <1>5 DEF OnComposingInput
<1>6. CASE Send
  BY <1>2, <1>6 DEF Send, Value
<1>7. CASE Switch
  <2>1. /\ UNCHANGED <<timer, pending, inflight, sentRev, latestRev>>
        /\ (sent' = sent /\ heard' = heard) \/ (sent' = <<>> /\ heard' = 0)
        /\ Hold(Blank) \/ typed' = typed
    BY <1>7 DEF Switch, SwitchConversation, SwitchPair, ChangeTarget, ReplaceSocket, input, link
  <2>2. BroughtIsText'
    <3>1. CASE Hold(Blank)
      BY <2>1, <3>1, TypedBringsText DEF Value
    <3>2. CASE typed' = typed
      <4>1. \A m \in ToSet(sent') : m \in ToSet(sent)
        BY <2>1, NoRequests
      <4> QED BY <2>1, <3>2, <4>1 DEF BroughtIsText
    <3> QED BY <2>1, <3>1, <3>2
  <2>3. SentIncrease'
    BY <2>1, EmptySeq, LenProperties DEF SentIncrease
  <2> QED BY <1>1, <2>1, <2>2, <2>3 DEF InflightIsUnheard
<1>8. CASE TimerFires
  <2>1. /\ timer # 0 /\ timer \in 1..Now /\ typed[timer] \in Text
        /\ timer' = 0 /\ typed' = typed /\ heard' = heard /\ latestRev' = latestRev
    BY <1>8, InUse DEF TimerFires, BroughtIsText, input, link
  <2>2. CASE inflight
    BY <1>8, <2>1, <2>2 DEF TimerFires, BroughtIsText, SentIncrease, InflightIsUnheard
  <2>3. CASE ~inflight
    <3>1. SendDraft(timer) /\ pending' = pending
      BY <1>8, <2>3 DEF TimerFires
    <3>2. BroughtIsText' /\ SentIncrease'
      BY <2>1, <3>1, SendDraftBringsText, SendDraftInOrder
    <3>3. sentRev' = revision + 1 \/ ~inflight'
      <4>1. CASE sock = "open"
        BY <3>1, <4>1 DEF SendDraft
      <4>2. CASE sock # "open"
        BY <2>3, <3>1, <4>2 DEF SendDraft
      <4> QED BY <4>1, <4>2
    <3>4. InflightIsUnheard'
      BY <1>1, <2>1, <3>3 DEF InflightIsUnheard
    <3> QED BY <3>2, <3>4
  <2> QED BY <2>2, <2>3
<1>9. CASE \/ OnCompositionStart \/ SendReturns \/ SessionsReady \/ SessionsFail
           \/ SocketOpens \/ SocketCloses \/ UNCHANGED vars
  <2>1. UNCHANGED <<typed, timer, flight, heard>>
    BY <1>9 DEF OnCompositionStart, SendReturns, SessionsReady, SessionsFail, SocketOpens,
                SocketCloses, vars, input, link
  <2> QED BY <2>1 DEF flight, BroughtIsText, SentIncrease, InflightIsUnheard
<1>10. ASSUME NEW m \in ToSet(sent), Answer(m)
       PROVE  BroughtIsText' /\ SentIncrease' /\ InflightIsUnheard'
  <2>1. /\ timer' = timer /\ typed' = typed /\ heard' = m.rev
        /\ m.rev \in Nat /\ m.rev <= sentRev
    BY <1>10, Requests DEF Answer, OnMessage, input, IInv, SentInOrder
  <2>2. CASE m.rev < latestRev
    <3>1. UNCHANGED flight
      BY <1>10, <2>2 DEF Answer, OnMessage
    <3> QED BY <1>1, <2>1, <2>2, <3>1
            DEF flight, BroughtIsText, SentIncrease, InflightIsUnheard
  <2>3. CASE ~(m.rev < latestRev) /\ m.rev < sentRev
    <3>1. latestRev' = m.rev /\ UNCHANGED <<pending, revision, sentRev, inflight, calc, sent>>
      BY <1>10, <2>3 DEF Answer, OnMessage
    <3> QED BY <1>1, <2>1, <2>3, <3>1
            DEF BroughtIsText, SentIncrease, InflightIsUnheard
  <2>4. CASE ~(m.rev < latestRev) /\ ~(m.rev < sentRev) /\ pending # 0
    <3>1. latestRev' = m.rev /\ pending' = 0 /\ SendDraft(pending) /\ sock = "open"
      BY <1>10, <2>4 DEF Answer, OnMessage
    <3>2. pending \in 1..Now /\ typed[pending] \in Text
      BY <2>4, InUse DEF BroughtIsText
    <3>3. BroughtIsText' /\ SentIncrease'
      BY <2>1, <3>1, <3>2, SendDraftBringsText, SendDraftInOrder
    <3>4. InflightIsUnheard'
      BY <1>1, <2>1, <3>1 DEF SendDraft, InflightIsUnheard
    <3> QED BY <3>3, <3>4
  <2>5. CASE ~(m.rev < latestRev) /\ ~(m.rev < sentRev) /\ pending = 0
    <3>1. pending' = 0 /\ inflight' = FALSE /\ UNCHANGED <<sentRev, sent>>
      BY <1>10, <2>5 DEF Answer, OnMessage
    <3> QED BY <2>1, <3>1 DEF BroughtIsText, SentIncrease, InflightIsUnheard
  <2> QED BY <2>2, <2>3, <2>4, <2>5
<1> QED BY <1>4, <1>5, <1>6, <1>7, <1>8, <1>9, <1>10 DEF Next, Typing, Background

\* What the gateway took stays what it was when the console sends on.
LEMMA TakenStays ==
    ASSUME IInv, TakenInOrder, UNCHANGED <<latest, source, taken>>,
           sent' = sent \/ \E m : sent' = Append(sent, m),
           sock' # "closed" => sock # "closed" /\ conn' = conn
    PROVE  TakenInOrder'
<1>1. sent \in Seq(Request) /\ Len(sent) \in Nat
  BY LenProperties DEF IInv, TypeOK
<1>2. Len(sent) <= Len(sent') /\ Len(sent') \in Nat /\ \A i \in 1..Len(sent) : sent'[i] = sent[i]
  <2>1. CASE sent' = sent
    BY <1>1, <2>1
  <2>2. ASSUME NEW m, sent' = Append(sent, m)
        PROVE  Len(sent') = Len(sent) + 1 /\ \A i \in 1..Len(sent) : sent'[i] = sent[i]
    BY <1>1, <2>2
  <2> QED BY <1>1, <2>1, <2>2
<1> QED BY <1>1, <1>2 DEF TakenInOrder

\* The gateway takes requests in the order they were sent: none is stale.
LEMMA TakesNewest ==
    ASSUME StreamInv, SentIncrease, TakenInOrder, BroughtIsText, Receive
    PROVE  TakenInOrder'
<1> DEFINE m == sent[taken + 1]
<1>1. /\ taken < Len(sent) /\ taken' = taken + 1 /\ UNCHANGED vars
      /\ Gateway!Submit(m.rev, typed[m.of]) \/ Gateway!DropStale(m.rev)
  BY DEF Receive
<1>2. /\ Len(sent) \in Nat /\ taken \in Nat /\ taken + 1 \in 1..Len(sent)
      /\ DOMAIN sent = 1..Len(sent)
  BY <1>1, LenProperties DEF TakenInOrder, StreamInv, IInv, TypeOK
<1>3. m \in ToSet(sent)
  BY <1>2 DEF ToSet
<1>4. m.rev \in 0..MaxInput /\ m.rev \in Nat /\ m.rev >= 1 /\ typed[m.of] \in Text
  BY <1>2, <1>3, RequestIsKnown, Requests DEF StreamInv, IInv, RequestsNumbered, BroughtIsText
<1>5. m.rev > latest
  <2>1. CASE taken = 0
    BY <1>4, <2>1 DEF TakenInOrder
  <2>2. CASE taken # 0
    <3>1. taken \in 1..Len(sent) /\ taken < taken + 1
      BY <1>2, <2>2
    <3>2. sent[taken].rev < m.rev /\ latest = sent[taken].rev
      BY <1>2, <2>2, <3>1 DEF SentIncrease, TakenInOrder
    <3> QED BY <3>2
  <2> QED BY <2>1, <2>2
<1>6. latest \in Int
  BY <1>2 DEF StreamInv, Coordinator!IInv, Coordinator!TypeOK, Coordinator!Rev
<1>7. Gateway!Submit(m.rev, typed[m.of])
  BY <1>1, <1>4, <1>5, <1>6 DEF Gateway!DropStale
<1>8. source \in [0..MaxInput -> Text \cup {Blank, Coordinator!NoSource}]
  BY SameSets DEF StreamInv, Coordinator!IInv, Coordinator!TypeOK
<1>9. /\ latest' = m.rev /\ source' = [source EXCEPT ![m.rev] = typed[m.of]] /\ conn' = conn
  BY <1>7 DEF Gateway!Submit
<1>10. sent' = sent /\ sock' = sock
  BY <1>1 DEF vars, flight, link
<1> HIDE DEF m
<1>11. source'[latest'] \in Text
  BY <1>4, <1>8, <1>9
<1>12. taken' \in 0..Len(sent') /\ taken' # 0 /\ latest' = sent'[taken'].rev
  BY <1>1, <1>2, <1>9, <1>10 DEF m
<1> QED BY <1>9, <1>10, <1>11, <1>12 DEF TakenInOrder

\* Every step of the composition keeps what the console waits for.
LEMMA WaitStep == StreamInv /\ WaitInv /\ [StreamNext]_streamVars => WaitInv'
<1> SUFFICES ASSUME StreamInv, WaitInv, [StreamNext]_streamVars PROVE WaitInv'
  OBVIOUS
<1>1. [Next]_vars /\ (NewConnection \/ [Coordinator!Next]_(Coordinator!vars))
  BY StreamStepKeeps
<1>2. BroughtIsText' /\ SentIncrease' /\ InflightIsUnheard'
  BY <1>1, ClientWaits DEF StreamInv, WaitInv
<1>3. CASE NewConnection
  <2>1. sent' = <<>> /\ taken' = 0 /\ latest' = -1 /\ conn' = "open"
    BY <1>3 DEF NewConnection, SwitchPair, ChangeTarget, ReplaceSocket
  <2>2. TakenInOrder'
    BY <2>1, EmptySeq, LenProperties DEF TakenInOrder
  <2>3. Coordinator!NothingIsLost'
    BY <2>1 DEF Coordinator!NothingIsLost
  <2> QED BY <1>2, <2>2, <2>3 DEF WaitInv
<1>4. CASE [Coordinator!Next]_(Coordinator!vars)
  <2>1. Coordinator!NothingIsLost'
    BY <1>4, Coordinator!NothingIsLostStep, CoordinatorAssumption DEF StreamInv, WaitInv
  <2>2. ASSUME UNCHANGED <<latest, source, taken>>,
               sent' = sent \/ \E m : sent' = Append(sent, m),
               sock' # "closed" => sock # "closed" /\ conn' = conn
        PROVE  TakenInOrder'
    BY <2>2, TakenStays DEF StreamInv, WaitInv
  <2>3. ASSUME UNCHANGED <<vars, latest, source, conn, taken>>
        PROVE  TakenInOrder'
    BY <2>2, <2>3 DEF vars, flight, link, WaitInv, TakenInOrder
  <2>4. ASSUME NEW k, SendDraft(k) PROVE sent' = sent \/ \E m : sent' = Append(sent, m)
    BY <2>4 DEF SendDraft
  <2>5. TakenInOrder'
    <3>1. CASE ConsoleStep
      <4>1. sent' = sent \/ \E m : sent' = Append(sent, m)
        BY <2>4, <3>1
           DEF ConsoleStep, Typing, OnInput, OnComposingInput, OnCompositionEnd,
               OnCompositionStart, Send, ScheduleDraft, Invalidate, SwitchConversation,
               TimerFires, SendReturns, SessionsReady, SessionsFail, SocketOpens, flight
      <4>2. sock' # "closed" => sock # "closed"
        BY <3>1
           DEF ConsoleStep, Typing, OnInput, OnComposingInput, OnCompositionEnd,
               OnCompositionStart, Send, SwitchConversation,
               TimerFires, SendReturns, SessionsReady, SessionsFail, SocketOpens, link
      <4> QED BY <2>2, <3>1, <4>1, <4>2 DEF ConsoleStep, gatewayVars, channelVars
    <3>2. CASE NewConnection
      BY <1>3, <3>2 DEF WaitInv
    <3>3. CASE ConnectionLost
      BY <2>2, <3>3 DEF ConnectionLost, SocketCloses, Gateway!Disconnect, flight, channelVars
    <3>4. CASE Receive
      BY <3>4, TakesNewest DEF WaitInv
    <3>5. CASE GatewayStep
      <4>1. UNCHANGED <<vars, taken>>
        BY <3>5 DEF GatewayStep, channelVars
      <4>2. UNCHANGED <<latest, source, conn>>
        BY <3>5 DEF GatewayStep, Gateway!TaskStep, Gateway!Start, Gateway!GatherReturns,
                    Gateway!GatherRaises, Gateway!StreamStep, Gateway!Acquire,
                    Gateway!StreamEnds, Gateway!StreamFails, Gateway!StreamAborted,
                    Gateway!SetCall
      <4> QED BY <2>3, <4>1, <4>2
    <3>6. CASE OtherConnections
      BY <2>3, <3>6 DEF OtherConnections, Gateway!Neighbour, channelVars
    <3>7. CASE Deliver
      <4>1. sent' = sent \/ \E m : sent' = Append(sent, m)
        BY <2>4, <3>7 DEF Deliver, OnMessage, flight
      <4> QED BY <2>2, <3>7, <4>1 DEF Deliver, OnMessage, gatewayVars
    <3>8. CASE UNCHANGED streamVars
      BY <2>3, <3>8 DEF streamVars, gatewayVars, channelVars
    <3> QED BY <3>1, <3>2, <3>3, <3>4, <3>5, <3>6, <3>7, <3>8 DEF StreamNext
  <2> QED BY <1>2, <2>1, <2>5 DEF WaitInv
<1> QED BY <1>1, <1>3, <1>4

\* The console waits for nothing that is not under way, which is the safety half
\* of InflightEnds: fairness then only has to move it on.
THEOREM InflightIsUnderWayHolds == StreamSpec => []InflightIsUnderWay
<1>1. StreamInit => WaitInv
  <2> SUFFICES ASSUME StreamInit PROVE WaitInv
    OBVIOUS
  <2>1. sent = <<>> /\ ToSet(sent) = {} /\ Len(sent) = 0
    BY NoRequests, EmptySeq, LenProperties DEF StreamInit, Init
  <2> QED BY <2>1 DEF StreamInit, Init, Gateway!Init, WaitInv, BroughtIsText, SentIncrease,
                      InflightIsUnheard, TakenInOrder, Coordinator!NothingIsLost
<1>2. StreamInv /\ WaitInv /\ [StreamNext]_streamVars => WaitInv'
  BY WaitStep
<1>3. StreamInv /\ WaitInv => InflightIsUnderWay
  <2> SUFFICES ASSUME StreamInv, WaitInv, inflight, Attended
               PROVE  \/ \E i \in (taken + 1)..Len(sent) : sent[i].rev = sentRev
                      \/ Gateway!Pending(sentRev)
                      \/ \E i \in (got + 1)..Len(wire) : wire[i].rev = sentRev
    BY DEF InflightIsUnderWay
  <2>1. sent # <<>> /\ Len(sent) \in Nat /\ Len(sent) # 0
    BY NoRequests, EmptySeq, LenProperties DEF Attended, InflightWasSentHere, StreamInv, IInv, TypeOK
  <2>2. sent[Len(sent)].rev = sentRev /\ taken \in 0..Len(sent)
    BY <2>1 DEF WaitInv, SentIncrease, TakenInOrder
  <2>3. CASE taken # Len(sent)
    <3>1. Len(sent) \in (taken + 1)..Len(sent)
      BY <2>1, <2>2, <2>3
    <3> QED BY <2>2, <3>1
  <2>4. CASE taken = Len(sent)
    <3>1. latest = sentRev /\ source[latest] \in Text /\ conn = "open"
      BY <2>1, <2>2, <2>4 DEF WaitInv, TakenInOrder, Attended
    <3>2. sentRev \in Nat /\ heard \in Nat /\ sentRev > heard
      BY Numbers DEF StreamInv, IInv, WaitInv, InflightIsUnheard
    <3>3. \/ Coordinator!Pending(sentRev)
          \/ task[sentRev] = "failed"
          \/ \E m \in Coordinator!ToSet(wire) : m.rev = sentRev
      BY <3>1, <3>2, ClientAssumption DEF WaitInv, Coordinator!NothingIsLost
    <3>4. task[sentRev] # "failed"
      <4>1. sentRev \in Gateway!Rev
        BY <3>1, <3>2, SameSets DEF StreamInv, Coordinator!IInv, Coordinator!TypeOK
      <4> QED BY <4>1 DEF Attended
    <3>5. ASSUME NEW m \in Coordinator!ToSet(wire), m.rev = sentRev
          PROVE  \E i \in (got + 1)..Len(wire) : wire[i].rev = sentRev
      <4>1. /\ wire \in Seq(Coordinator!Response) /\ Len(wire) \in Nat /\ DOMAIN wire = 1..Len(wire)
            /\ got \in 0..Len(wire)
        BY LenProperties DEF StreamInv, Coordinator!IInv, Coordinator!TypeOK, HeardIsDelivered
      <4>2. PICK i \in 1..Len(wire) : wire[i].rev = sentRev
        BY <3>5, <4>1 DEF Coordinator!ToSet
      <4>3. ~(i <= got)
        <5>1. i = got => wire[i].rev = heard
          BY <4>1 DEF StreamInv, HeardIsDelivered
        <5>2. i < got => wire[i].rev < heard
          BY <4>1 DEF StreamInv, HeardIsDelivered, Coordinator!IInv, Coordinator!ResponsesIncrease
        <5> QED BY <3>2, <4>1, <4>2, <5>1, <5>2
      <4> QED BY <4>1, <4>2, <4>3
    <3>6. Coordinator!Pending(sentRev) => Gateway!Pending(sentRev)
      BY DEF Coordinator!Pending, Gateway!Pending
    <3> QED BY <3>3, <3>4, <3>5, <3>6
  <2> QED BY <2>3, <2>4
<1> QED BY <1>1, <1>2, <1>3, StreamInductive, PTL DEF StreamSpec
=============================================================================
