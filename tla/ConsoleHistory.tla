--------------------------- MODULE ConsoleHistory ---------------------------
(* How the console keeps its conversation in the store: web/src/useChat.ts. *)
(* The operator and the customer send from one screen; a message is shown   *)
(* when its translation is done and saved afterwards, to the conversation   *)
(* open by then, which the first one creates.  Meanwhile the operator opens, *)
(* deletes and leaves conversations, and another console does the same.     *)
EXTENDS ConversationStore

CONSTANTS Side, Opener, Remover, Other, MaxOpens, MaxChanges

\* Every request in flight has a name; a send awaits one request at a time.
ASSUME HistoryAssumption ==
    /\ Caller = Side \cup {Opener, Remover, Other}
    /\ {Opener, Remover, Other} \cap Side = {}
    /\ Opener # Remover /\ Opener # Other /\ Remover # Other
    /\ MaxOpens \in Nat /\ MaxChanges \in Nat

VARIABLES
    convId,  \* convId.current
    screen,  \* messages
    sender,  \* [Side -> where send / sendFromCustomer is]
    saying   \* [Side -> the message it sends]

\* History: the messages this console sent; whether its steps were calm, that
\* is, nobody changed conversations in the middle of a send and no two first
\* messages were saved at once; how often conversations were opened, and left or changed.
VARIABLES own, calm, opens, changes

console == <<convId, screen, sender, saying, own, calm, opens, changes>>

HistoryInit ==
    /\ Init
    /\ convId = NoConv
    /\ screen = {}
    /\ sender = [s \in Side |-> "idle"]
    /\ saying = [s \in Side |-> NoMsg]
    /\ own = {}
    /\ calm = TRUE
    /\ opens = 0
    /\ changes = 0

-----------------------------------------------------------------------------

Quiet == \A s \in Side : sender[s] = "idle"

Becomes(s, to) == sender' = [sender EXCEPT ![s] = to]

\* `finally`.
Ends(s) == Becomes(s, "idle") /\ saying' = [saying EXCEPT ![s] = NoMsg]

\* send / sendFromCustomer, one at a time on each side (`sending`), of a text
\* that trim() leaves.
Send(s) ==
    /\ sender[s] = "idle"
    /\ \E m \in Msg \ (sent \cup own \cup Blank) :
          /\ saying' = [saying EXCEPT ![s] = m]
          /\ own' = own \cup {m}
    /\ Becomes(s, "translating")
    /\ calm' = (calm /\ call[Opener].at = "idle")
    /\ UNCHANGED <<store, convId, screen, opens, changes>>

\* The done event puts the message on the screen.
TurnDone(s) ==
    /\ sender[s] = "translating"
    /\ screen' = screen \cup {saying[s]}
    /\ Becomes(s, "shown")
    /\ UNCHANGED <<store, convId, saying, own, calm, opens, changes>>

\* The stream breaks, or ends with an error event or an empty translation:
\* nothing is saved (`finally` ends the send).
TurnFails(s) ==
    /\ sender[s] \in {"translating", "shown"}
    /\ Ends(s)
    /\ UNCHANGED <<store, convId, screen, own, calm, opens, changes>>

\* The stream ends and persistMessage reads convId: with none it creates one.
PersistFirst(s) ==
    /\ sender[s] = "shown"
    /\ convId = NoConv
    /\ AskCreate(s)
    /\ Becomes(s, "creating")
    /\ calm' = (calm /\ \A other \in Side : sender[other] # "creating")
    /\ UNCHANGED <<convId, screen, saying, own, opens, changes>>

PersistNext(s) ==
    /\ sender[s] = "shown"
    /\ convId # NoConv
    /\ AskAppend(s, convId, saying[s])
    /\ Becomes(s, "saving")
    /\ UNCHANGED <<convId, screen, saying, own, calm, opens, changes>>

\* The new conversation becomes the open one, whatever was opened meanwhile.
Created(s) ==
    /\ sender[s] = "creating"
    /\ call[s].at = "ok"
    /\ convId' = call[s].conv
    /\ AskAppend(s, call[s].conv, saying[s])
    /\ Becomes(s, "saving")
    /\ UNCHANGED <<screen, saying, own, calm, opens, changes>>

\* Mutant: only success ends the send.
SaveEndsWell(s) ==
    /\ sender[s] = "saving" /\ call[s].at = "ok"
    /\ Returns(s)
    /\ Ends(s)
    /\ UNCHANGED <<convId, screen, own, calm, opens, changes>>

\* Mutant: the save is not awaited.
SaveEndsEarly(s) ==
    /\ sender[s] \in {"creating", "saving"}
    /\ Ends(s)
    /\ UNCHANGED <<store, convId, screen, own, calm, opens, changes>>

\* The save is over, or the creation failed or its answer was lost.
SaveEnds(s) ==
    /\ sender[s] \in {"creating", "saving"}
    /\ Returns(s)
    /\ Ends(s)
    /\ UNCHANGED <<convId, screen, own, calm, opens, changes>>

-----------------------------------------------------------------------------

\* loadConversation: the answer replaces conversation and screen.
Open ==
    /\ opens < MaxOpens
    /\ opens' = opens + 1
    /\ \E c \in Known : AskGet(Opener, c)
    /\ calm' = (calm /\ Quiet)
    /\ UNCHANGED <<convId, screen, sender, saying, own, changes>>

Opened ==
    /\ call[Opener].at \in Answered
    /\ IF call[Opener].at = "ok"
       THEN /\ convId' = call[Opener].conv
            /\ screen' = { call[Opener].restored[i].msg : i \in DOMAIN call[Opener].restored }
       ELSE UNCHANGED <<convId, screen>>
    /\ Returns(Opener)
    /\ UNCHANGED <<sender, saying, own, calm, opens, changes>>

Reset == convId' = NoConv /\ screen' = {}

\* newConversation and swap.
NewConversation ==
    /\ changes < MaxChanges
    /\ changes' = changes + 1
    /\ Reset
    /\ calm' = ((calm \/ call[Opener].at = "idle") /\ Quiet)
    /\ UNCHANGED <<store, sender, saying, own, opens>>

\* removeConversation: reset when it is the open one by the time it is gone.
Remove ==
    /\ changes < MaxChanges
    /\ changes' = changes + 1
    /\ \E c \in Known : AskDelete(Remover, c)
    /\ UNCHANGED <<convId, screen, sender, saying, own, calm, opens>>

\* Mutant: the screen is emptied whatever conversation was deleted.
RemovedResetsScreen ==
    /\ call[Remover].at \in Answered
    /\ screen' = IF call[Remover].at = "ok" THEN {} ELSE screen
    /\ convId' = IF call[Remover].at = "ok" /\ convId = call[Remover].conv
                 THEN NoConv ELSE convId
    /\ Returns(Remover)
    /\ UNCHANGED <<sender, saying, own, calm, opens, changes>>

Removed ==
    /\ call[Remover].at \in Answered
    /\ IF call[Remover].at = "ok" /\ convId = call[Remover].conv
       THEN Reset /\ calm' = (calm /\ Quiet)
       ELSE UNCHANGED <<convId, screen, calm>>
    /\ Returns(Remover)
    /\ UNCHANGED <<sender, saying, own, opens, changes>>

\* Another client appends, blank sources too (min_length=1), and deletes.
OtherConsole ==
    /\ \/ /\ changes < MaxChanges
          /\ changes' = changes + 1
          /\ \E c \in Known :
                \/ AskDelete(Other, c)
                \/ \E m \in Msg \ own : AskAppend(Other, c, m)
       \/ Returns(Other) /\ UNCHANGED changes
    /\ UNCHANGED <<convId, screen, sender, saying, own, calm, opens>>

\* The store works on a request, or fails it.
StoreStep(k) ==
    /\ HandlerStep(k) \/ CallFails(k)
    /\ UNCHANGED console

-----------------------------------------------------------------------------

SendStep(s) ==
    \/ TurnDone(s)
    \/ TurnFails(s)
    \/ PersistFirst(s)
    \/ PersistNext(s)
    \/ Created(s)
    \/ SaveEnds(s)

HistoryNext ==
    \/ \E s \in Side : Send(s) \/ SendStep(s)
    \/ Open \/ Opened
    \/ NewConversation
    \/ Remove \/ Removed
    \/ OtherConsole
    \/ \E k \in Caller : StoreStep(k)

HistorySpec == HistoryInit /\ [][HistoryNext]_<<store, console>>

\* A turn ends (QualityTurn), the console's continuations run, and the store
\* answers; nobody has to open, leave, delete or send anything.
HistoryFairness ==
    \A s \in Side :
        /\ WF_<<store, console>>(SendStep(s))
        /\ WF_<<store, console>>(StoreStep(s))

HistoryFairSpec == HistorySpec /\ HistoryFairness

-----------------------------------------------------------------------------
(* Properties.                                                             *)

\* Every variable holds a value of its kind; a send that awaits the store has
\* a request there.
HistoryTypeOK ==
    /\ TypeOK
    /\ convId \in Conv \cup {NoConv}
    /\ screen \subseteq Msg
    /\ sender \in [Side -> {"idle", "translating", "shown", "creating", "saving"}]
    /\ saying \in [Side -> Msg \cup {NoMsg}]
    /\ own \subseteq Msg
    /\ calm \in BOOLEAN
    /\ opens \in 0..MaxOpens /\ changes \in 0..MaxChanges
    /\ \A s \in Side : sender[s] \in {"creating", "saving"} <=> call[s].at # "idle"

Saved == UNION { Messages(c) : c \in Conv }

\* What the operator sees is what is kept: unless conversations are changed in
\* the middle of a send, the messages of this console that were saved and are
\* on the screen are those the open conversation holds.
CalmScreenIsConversation ==
    calm => screen \cap own \cap Saved
                = IF convId = NoConv THEN {} ELSE Messages(convId) \cap own

\* Sending ends on both sides, whatever fails.
SendEnds == \A s \in Side : (sender[s] # "idle") ~> (sender[s] = "idle")
=============================================================================
