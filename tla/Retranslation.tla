--------------------------- MODULE Retranslation ---------------------------
(* A language change in the console (web/src/useChat.ts): the session is    *)
(* created anew and the operator's messages on the screen are translated    *)
(* again, one turn after the other, while messages are sent, conversations  *)
(* are opened and left and the languages change again.                      *)
EXTENDS Sessions, FiniteSets, Integers

CONSTANTS
    Source, Target, Witness, \* DEFAULT_SRC, DEFAULT_TGT, default_witness
    Conv,                    \* stored conversations
    PairOf,                  \* [Conv -> the languages each was created with]
    NoConv,
    MaxMsgs,                 \* bound: messages that are ever sent or stored
    MaxChanges               \* bound: changes of language or conversation

ASSUME RetranslationAssumption ==
    /\ {Source, Target, Witness} \subseteq Supported
    /\ PairOf \in [Conv -> [src : Supported, tgt : Supported]]
    /\ NoConv \notin Conv
    /\ MaxMsgs \in Nat /\ MaxChanges \in Nat

VARIABLES
    pair,     \* [src, tgt]
    creating, \* the effect of this pair awaits its session
    session,  \* the session of sessionId: a sequence of none or one
    pending,  \* retranslatePending
    mark,     \* retranslating
    screen,   \* messages
    runs,     \* the retranslations begun, each a closure of its own
    sending,  \* the session of the turn `send` awaits: none or one
    stored    \* the messages table

\* History: how many sources there were so far and the changes made; whether
\* the last session ended a run and began none (`stuck`); whether steps were
\* calm, that is, every change found no turn of `send` under way, no session
\* failed and no run's turn, nothing was sent to the old session, no message
\* restored that was not in its conversation's target, and none left in
\* another language by a run that answered late.
VARIABLES made, changes, stuck, calm

history == <<made, changes, stuck, calm>>
vars == <<pair, creating, session, pending, mark, screen, runs, sending, stored, history>>

\* The id of a restored message is made of its conversation, its number and
\* its place in the answer; the id of one that was sent is its own.
Id == [conv : Conv \cup {NoConv}, number : Nat, place : Nat]
SentId(source) == [conv |-> NoConv, number |-> source, place |-> 0]

\* `from` is the source its translation was made from.
Message == [id : Id, source : 1..MaxMsgs, side : {"mine", "theirs"},
            from : 1..MaxMsgs, lang : Lang]
Shown(id, source, side, lang) ==
    [id |-> id, source |-> source, side |-> side, from |-> source, lang |-> lang]

\* A row of the table; `lang` is the language of its translation, which another
\* console or an earlier choice may have made another one than PairOf says.
Row == [conv : Conv, source : 1..MaxMsgs, number : Nat, side : {"mine", "theirs"},
        lang : Supported]

\* A run: its session's target, what it has still to translate of the array it
\* found, the first of them under way; `answered` once the done event came.
Entry == [at : Nat, id : Id, source : 1..MaxMsgs]
Run == [tgt : Lang, todo : SUBSET Entry, answered : BOOLEAN, cancelled : BOOLEAN]
Active(run) == run.todo # {}
Current(run) == CHOOSE e \in run.todo : \A f \in run.todo : e.at <= f.at

Init ==
    /\ pair = [src |-> Source, tgt |-> Target]
    /\ creating = TRUE
    /\ session = <<>>
    /\ pending = FALSE
    /\ mark = FALSE
    /\ screen = <<>>
    /\ runs = <<>>
    /\ sending = <<>>
    /\ stored = {}
    /\ made = 0
    /\ changes = 0
    /\ stuck = FALSE
    /\ calm = TRUE

-----------------------------------------------------------------------------

Change == changes < MaxChanges /\ changes' = changes + 1

\* setSrc / setTgtState: the effect runs when the pair is another one.
SetPair(src, tgt) ==
    /\ pair' = [src |-> src, tgt |-> tgt]
    /\ creating' = (creating \/ pair' # pair)

\* Mutant: the old session is still there, so nothing is scheduled.
SetTgtUnscheduled(code) ==
    /\ Change
    /\ code # pair.tgt
    /\ pending' = (pending \/ session = <<>>)
    /\ SetPair(pair.src, code)
    /\ calm' = (calm /\ sending = <<>>)
    /\ UNCHANGED <<session, mark, screen, runs, sending, stored, made, stuck>>

\* setTgt: schedules a retranslation when there is a message.
SetTgt(code) ==
    /\ Change
    /\ code # pair.tgt
    /\ pending' = (pending \/ screen # <<>>)
    /\ SetPair(pair.src, code)
    /\ calm' = (calm /\ sending = <<>>)
    /\ UNCHANGED <<session, mark, screen, runs, sending, stored, made, stuck>>

\* swap and newConversation: what is scheduled stays so.
Swap ==
    /\ Change
    /\ screen' = <<>>
    /\ SetPair(pair.tgt, pair.src)
    /\ calm' = (calm /\ sending = <<>>)
    /\ UNCHANGED <<session, pending, mark, runs, sending, stored, made, stuck>>

NewConversation ==
    /\ Change
    /\ screen' = <<>>
    /\ UNCHANGED <<pair, creating, session, pending, mark, runs, sending, stored,
                   made, stuck, calm>>

RowsOf(conv) == { r \in stored : r.conv = conv }

\* append_message, of this console or another: a source of its own and a number
\* by count, too low when other saves overlapped.  A customer's message is
\* translated to the operator's language.
Stored(conv) ==
    /\ made < MaxMsgs
    /\ made' = made + 1
    /\ \E number \in 0..Cardinality(RowsOf(conv)), side \in {"mine", "theirs"}, lang \in Supported :
          /\ side = "theirs" => lang = PairOf[conv].src
          /\ stored' = stored \cup {[conv |-> conv, source |-> made', number |-> number,
                                     side |-> side, lang |-> lang]}
    /\ UNCHANGED <<pair, creating, session, pending, mark, screen, runs, sending,
                   changes, stuck, calm>>

\* get_detail: by number, rows of one number in any order.
ByNumber(R) ==
    { list \in [1..Cardinality(R) -> R] :
        /\ \A i, j \in DOMAIN list : list[i] = list[j] => i = j
        /\ \A i, j \in DOMAIN list : i < j => list[i].number <= list[j].number }

\* A row in the answer of get_detail, at place i.
Restored(list, i) ==
    Shown([conv |-> list[i].conv, number |-> list[i].number, place |-> i - 1],
          list[i].source, list[i].side, list[i].lang)

\* loadConversation is answered with the rows of some moment since it was asked.
Load(conv) ==
    /\ Change
    /\ \E last \in 0..made : \E list \in ByNumber({ r \in RowsOf(conv) : r.source <= last }) :
          /\ screen' = [i \in DOMAIN list |-> Restored(list, i)]
          /\ calm' = (/\ calm /\ sending = <<>>
                      /\ \A i \in DOMAIN list :
                            list[i].side = "mine" => list[i].lang = PairOf[conv].tgt)
    /\ pending' = FALSE
    /\ SetPair(PairOf[conv].src, PairOf[conv].tgt)
    /\ UNCHANGED <<session, mark, runs, sending, stored, made, stuck>>

\* What the console asks for: the default witness, unless it is the target.
Asked == Session(pair.src, pair.tgt, IF pair.tgt = Witness THEN <<>> ELSE <<Witness>>)

Mine == { i \in DOMAIN screen : screen[i].side = "mine" }

\* A run over the operator's messages of the moment.
NewRun == [tgt |-> pair.tgt, answered |-> FALSE, cancelled |-> FALSE,
           todo |-> { [at |-> i, id |-> screen[i].id, source |-> screen[i].source] : i \in Mine }]

\* Mutant: the effect has no cleanup, the runs before go on.
SessionCreatedNoCleanup ==
    /\ creating
    /\ Creatable(Asked)
    /\ creating' = FALSE
    /\ session' = <<Asked>>
    /\ IF pending
       THEN runs' = Append(runs, NewRun) /\ mark' = (Mine # {}) /\ stuck' = FALSE
       ELSE UNCHANGED <<runs, mark, stuck>>
    /\ pending' = FALSE
    /\ UNCHANGED <<pair, screen, sending, stored, made, changes, calm>>

\* The new sessionId ends the effect of the old one and, if a retranslation is
\* scheduled, begins one.
SessionCreated ==
    /\ creating
    /\ Creatable(Asked)
    /\ creating' = FALSE
    /\ session' = <<Asked>>
    /\ LET old == [i \in DOMAIN runs |-> [runs[i] EXCEPT !.cancelled = TRUE]] IN
       IF pending
       THEN runs' = Append(old, NewRun) /\ mark' = (Mine # {}) /\ stuck' = FALSE
       ELSE /\ runs' = old
            /\ stuck' = (stuck \/ \E i \in DOMAIN runs : Active(runs[i]) /\ ~runs[i].cancelled)
            /\ UNCHANGED mark
    /\ pending' = FALSE
    /\ UNCHANGED <<pair, screen, sending, stored, made, changes, calm>>

\* `.catch(() => {})`: the console goes on with the session it has.
SessionFails ==
    /\ creating
    /\ creating' = FALSE
    /\ calm' = FALSE
    /\ UNCHANGED <<pair, session, pending, mark, screen, runs, sending, stored,
                   made, changes, stuck>>

-----------------------------------------------------------------------------

\* What a run has still to give: its current message no more once answered.
Owed(run) == IF run.answered THEN run.todo \ {Current(run)} ELSE run.todo

\* A message is still to be translated to the language chosen.
Due(id) ==
    IF creating THEN pending
    ELSE \E i \in DOMAIN runs : /\ ~runs[i].cancelled /\ runs[i].tgt = pair.tgt
                                /\ id \in { e.id : e \in Owed(runs[i]) }

\* An answer that leaves a message in another language than the one chosen.
Late(i) ==
    LET id == Current(runs[i]).id IN
    runs[i].tgt # pair.tgt /\ ~Due(id) /\ id \in { screen[j].id : j \in Mine }

Translated(m, run) == [m EXCEPT !.from = Current(run).source, !.lang = run.tgt]

\* Mutant: the message is found by its place on the screen.
RunDoneByPlace(i) ==
    /\ Active(runs[i])
    /\ ~runs[i].answered
    /\ runs' = [runs EXCEPT ![i].answered = TRUE]
    /\ screen' = [j \in DOMAIN screen |-> IF j = Current(runs[i]).at
                                            THEN Translated(screen[j], runs[i])
                                            ELSE screen[j]]
    /\ calm' = (calm /\ ~Late(i))
    /\ UNCHANGED <<pair, creating, session, pending, mark, sending, stored, made, changes, stuck>>

\* The done event of a run's turn: the message with its id, if there is one,
\* takes the new translation.  A cancelled run does the same.
RunDone(i) ==
    /\ Active(runs[i])
    /\ ~runs[i].answered
    /\ runs' = [runs EXCEPT ![i].answered = TRUE]
    /\ screen' = [j \in DOMAIN screen |-> IF screen[j].id = Current(runs[i]).id
                                            THEN Translated(screen[j], runs[i])
                                            ELSE screen[j]]
    /\ calm' = (calm /\ ~Late(i))
    /\ UNCHANGED <<pair, creating, session, pending, mark, sending, stored, made, changes, stuck>>

\* Mutant: the mark of a run that comes to its end is left on.
RunTurnEndsMarked(i) ==
    /\ Active(runs[i])
    /\ runs' = [runs EXCEPT ![i].todo = IF runs[i].cancelled THEN {} ELSE @ \ {Current(runs[i])},
                            ![i].answered = FALSE]
    /\ calm' = (calm /\ (runs[i].cancelled \/ runs[i].answered))
    /\ UNCHANGED <<pair, creating, session, pending, mark, screen, sending, stored,
                   made, changes, stuck>>

\* The turn's stream is over: on to the next message, unless the run was
\* cancelled.  A run that comes to its end clears the mark.
RunTurnEnds(i) ==
    /\ Active(runs[i])
    /\ runs' = [runs EXCEPT ![i].todo = IF runs[i].cancelled THEN {} ELSE @ \ {Current(runs[i])},
                            ![i].answered = FALSE]
    /\ mark' = (mark /\ (runs[i].cancelled \/ Active(runs'[i])))
    /\ calm' = (calm /\ (runs[i].cancelled \/ runs[i].answered))
    /\ UNCHANGED <<pair, creating, session, pending, screen, sending, stored, made, changes, stuck>>

\* The request or its stream fails: the mark is cleared, also by a run that
\* was cancelled.
RunFails(i) ==
    /\ Active(runs[i])
    /\ runs' = [runs EXCEPT ![i].todo = {}, ![i].answered = FALSE]
    /\ mark' = FALSE
    /\ calm' = (calm /\ runs[i].cancelled)
    /\ UNCHANGED <<pair, creating, session, pending, screen, sending, stored, made, changes, stuck>>

-----------------------------------------------------------------------------

\* send: one turn at a time, on the session there is.
Send ==
    /\ session # <<>>
    /\ sending = <<>>
    /\ made < MaxMsgs
    /\ sending' = session
    /\ calm' = (calm /\ ~creating)
    /\ UNCHANGED <<pair, creating, session, pending, mark, screen, runs, stored,
                   made, changes, stuck>>

Shows(side, lang) ==
    /\ made < MaxMsgs
    /\ made' = made + 1
    /\ screen' = Append(screen, Shown(SentId(made'), made', side, lang))

SendDone ==
    /\ sending # <<>>
    /\ Shows("mine", sending[1].tgt)
    /\ sending' = <<>>
    /\ UNCHANGED <<pair, creating, session, pending, mark, runs, stored, changes, stuck, calm>>

\* The stream failed, or ended with no done event.
SendFails ==
    /\ sending # <<>>
    /\ sending' = <<>>
    /\ UNCHANGED <<pair, creating, session, pending, mark, screen, runs, stored, history>>

\* A message of the customer, translated to the operator's language.
CustomerDone ==
    /\ Shows("theirs", pair.src)
    /\ UNCHANGED <<pair, creating, session, pending, mark, runs, sending, stored,
                   changes, stuck, calm>>

-----------------------------------------------------------------------------

RunStep(i) == RunDone(i) \/ RunTurnEnds(i) \/ RunFails(i)

Next ==
    \/ \E code \in Supported : SetTgt(code)
    \/ \E conv \in Conv : Stored(conv) \/ Load(conv)
    \/ Swap
    \/ NewConversation
    \/ SessionCreated
    \/ SessionFails
    \/ Send
    \/ SendDone
    \/ SendFails
    \/ CustomerDone
    \/ \E i \in DOMAIN runs : RunStep(i)

Spec == Init /\ [][Next]_vars

\* Every turn of a run ends (QualityTurn); nobody has to change anything.
Fairness == \A i \in 1..MaxChanges + 1 : WF_vars(i \in DOMAIN runs /\ RunStep(i))

FairSpec == Spec /\ Fairness

-----------------------------------------------------------------------------
(* Properties.                                                             *)

\* Every variable holds a value of its kind, ids on the screen are unique, and
\* of the runs at most the last is not cancelled.
TypeOK ==
    /\ pair \in [src : Lang, tgt : Lang]
    /\ {creating, pending, mark, stuck, calm} \subseteq BOOLEAN
    /\ Len(session) <= 1
    /\ screen \in Seq(Message)
    /\ \A i, j \in DOMAIN screen : screen[i].id = screen[j].id => i = j
    /\ runs \in Seq(Run)
    /\ \A i \in DOMAIN runs : i < Len(runs) => runs[i].cancelled
    /\ sending = <<>> \/ session # <<>>
    /\ stored \subseteq Row
    /\ made \in 0..MaxMsgs /\ changes \in 0..MaxChanges

\* Two rows of one conversation, of these sources, have the number of this id.
SameNumber(id, source1, source2) ==
    \E r, s \in stored : /\ {r.conv, s.conv} = {id.conv} /\ {r.number, s.number} = {id.number}
                         /\ r.source = source1 /\ s.source = source2

\* However late a retranslation answers, and whatever was opened, sent, stored
\* or left meanwhile, no message shows the translation of another one, unless
\* both are rows of one conversation that were given the same number: their
\* order, and so their ids, may change from one opening to the next.
TranslationIsOfItsSource ==
    \A i \in DOMAIN screen : LET m == screen[i] IN
        m.from = m.source \/ SameNumber(m.id, m.from, m.source)

\* When it is all done the operator's messages are in the language chosen,
\* if steps were calm; retranslations that were cancelled may still be going.
CalmScreenIsInTarget ==
    (/\ calm /\ ~creating
     /\ \A i \in DOMAIN runs : Active(runs[i]) => runs[i].cancelled) =>
        \A i \in Mine : screen[i].lang = pair.tgt

\* The mark of a retranslation goes off when it is over, also when others took
\* its place; it stays on only if the last was cancelled by a session that
\* began none.
RetranslationEnds == mark ~> (~mark \/ stuck)
=============================================================================
