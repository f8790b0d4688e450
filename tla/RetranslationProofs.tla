------------------------ MODULE RetranslationProofs ------------------------
(* Proofs about the language change in the console: what is on the screen   *)
(* while retranslations, sent messages and opened conversations interleave. *)
EXTENDS Retranslation, FiniteSetTheorems, WellFoundedInduction, TLAPS

NoneOrOne(s) == s = <<>> \/ \E x : x.tgt \in Lang /\ s = <<x>>

Typed ==
    /\ pair \in [src : Lang, tgt : Lang]
    /\ creating \in BOOLEAN /\ pending \in BOOLEAN /\ mark \in BOOLEAN
    /\ stuck \in BOOLEAN /\ calm \in BOOLEAN
    /\ NoneOrOne(session) /\ NoneOrOne(sending)
    /\ sending # <<>> => session # <<>>
    /\ screen \in Seq(Message)
    /\ runs \in Seq(Run)
    /\ stored \subseteq Row /\ IsFiniteSet(stored)
    /\ made \in 0..MaxMsgs /\ changes \in 0..MaxChanges

\* What an id was given for: a source that was sent, or a row with its number.
Given(id, source, rows, n) ==
    IF id.conv = NoConv
    THEN id.number = source /\ source <= n
    ELSE \E r \in rows : r.conv = id.conv /\ r.number = id.number /\ r.source = source

\* Ids on the screen and those that runs captured were given for their sources.
IdsAreGiven ==
    /\ \A i, j \in DOMAIN screen : screen[i].id = screen[j].id => i = j
    /\ \A i \in DOMAIN screen : Given(screen[i].id, screen[i].source, stored, made)
    /\ \A i \in DOMAIN runs : \A e \in runs[i].todo : Given(e.id, e.source, stored, made)

OthersAreCancelled ==
    \A i \in DOMAIN runs : i < Len(runs) => runs[i].cancelled

\* The sessions of a calm console are those of the pair.
CalmSessions == calm =>
    /\ (~creating /\ session # <<>>) => session[1].tgt = pair.tgt
    /\ sending # <<>> => (~creating /\ sending[1].tgt = pair.tgt)

\* Each message of the operator is in the language chosen or about to be.
CalmScreen == calm =>
    \A i \in Mine : screen[i].lang = pair.tgt \/ Due(screen[i].id)

Inv == /\ Typed /\ IdsAreGiven /\ OthersAreCancelled /\ TranslationIsOfItsSource
       /\ CalmSessions /\ CalmScreen

\* The invariant gives the three the run checks.
LEMMA InvImplies == Inv => TypeOK /\ TranslationIsOfItsSource /\ CalmScreenIsInTarget
<1> SUFFICES ASSUME Inv PROVE TypeOK /\ CalmScreenIsInTarget
  BY DEF Inv
<1>1. TypeOK
  <2>1. Len(session) <= 1
    <3>1. session = <<>> \/ \E x : session = <<x>>
      BY DEF Inv, Typed, NoneOrOne
    <3>2. \A x : session = <<x>> => Len(session) = 1
      OBVIOUS
    <3>3. session = <<>> => Len(session) = 0
      OBVIOUS
    <3>4. Len(session) \in {0, 1}
      BY <3>1, <3>2, <3>3, Zenon
    <3>5. \A n \in {0, 1} : n <= 1
      OBVIOUS
    <3> QED
      BY <3>4, <3>5, Zenon
  <2>2. {creating, pending, mark, stuck, calm} \subseteq BOOLEAN
    BY DEF Inv, Typed
  <2> QED
    BY <2>1, <2>2 DEF Inv, Typed, IdsAreGiven, OthersAreCancelled, TypeOK
<1>2. CalmScreenIsInTarget
  <2> SUFFICES ASSUME calm, ~creating,
                      \A i \in DOMAIN runs : Active(runs[i]) => runs[i].cancelled,
                      NEW m \in Mine
               PROVE  screen[m].lang = pair.tgt
    BY DEF CalmScreenIsInTarget
  <2>1. \A i \in DOMAIN runs : ~runs[i].cancelled => Owed(runs[i]) = {}
    BY DEF Owed, Active
  <2>2. ~Due(screen[m].id)
    BY <2>1 DEF Due
  <2> QED
    BY <2>2 DEF Inv, CalmScreen
<1> QED
  BY <1>1, <1>2

\* It holds at the start.
LEMMA InitInv == Init => Inv
<1> SUFFICES ASSUME Init PROVE Inv
  OBVIOUS
<1>1. pair \in [src : Lang, tgt : Lang]
  BY SessionsAssumption, RetranslationAssumption DEF Init
<1>2. made \in 0..MaxMsgs /\ changes \in 0..MaxChanges
  BY RetranslationAssumption DEF Init
<1>3. Typed
  <2>1. runs \in Seq(Run) /\ screen \in Seq(Message)
    BY DEF Init
  <2>2. stored \subseteq Row /\ IsFiniteSet(stored)
    BY FS_EmptySet DEF Init
  <2> QED
    BY <1>1, <1>2, <2>1, <2>2 DEF Init, Typed, NoneOrOne
<1> QED
  BY <1>3 DEF Init, Inv, IdsAreGiven, OthersAreCancelled, TranslationIsOfItsSource,
     CalmSessions, CalmScreen, Mine

-----------------------------------------------------------------------------
(* Lemmas about the sequence of runs.                                      *)

\* A nonempty set of naturals has a least element.
LEMMA LeastNat ==
    ASSUME NEW S \in SUBSET Nat, NEW k \in S
    PROVE  \E m \in S : \A n \in S : m <= n
<1> DEFINE D == 0..k
           J == { n \in S : n <= k }
           Below(j) == { n \in S : n <= j }
           T == { Below(j) : j \in J }
<1>0. k \in Nat /\ \A n \in S : n \in Nat
  OBVIOUS
<1>1. IsFiniteSet(D)
  BY FS_Interval
<1>2. k \in J /\ J \subseteq S /\ \A j \in J : j \in Nat /\ j <= k
  BY <1>0
<1>3. \A n \in S : n \in J \/ k < n
  BY <1>0
<1> HIDE DEF J
<1>4. \A j \in J : Below(j) \subseteq D
  <2> SUFFICES ASSUME NEW j \in J, NEW n \in S, n <= j PROVE n \in 0..k
    OBVIOUS
  <2> QED
    BY <1>0, <1>2
<1>5. ASSUME NEW j \in J, NEW n \in J, n < j
      PROVE  Below(n) \subseteq Below(j) /\ j \in Below(j) /\ j \notin Below(n)
  <2>1. j \in Nat /\ n \in Nat /\ j \in S /\ j <= j /\ ~(j <= n)
    BY <1>2, <1>5
  <2>2. \A i \in S : i <= n => i <= j
    BY <1>0, <1>5, <2>1
  <2> QED
    BY <2>1, <2>2
<1> HIDE DEF D, Below
<1>6. T \in SUBSET (SUBSET D) /\ T # {}
  BY <1>2, <1>4
<1>7. IsWellFoundedOn(StrictSubsetOrdering(D), SUBSET D)
  BY <1>1, FS_StrictSubsetOrderingWellFounded, FS_FiniteSubsetsOfFinite
<1>8. PICK x \in T : \A y \in T : ~(<<y, x>> \in StrictSubsetOrdering(D))
  BY <1>6, <1>7, WFMin
<1>9. PICK m \in J : x = Below(m)
  BY <1>8
<1>10. ASSUME NEW n \in J, n < m PROVE FALSE
  <2>1. <<Below(n), Below(m)>> \in StrictSubsetOrdering(D)
    BY <1>4, <1>5, <1>9, <1>10 DEF StrictSubsetOrdering
  <2> QED
    BY <1>8, <1>9, <2>1
<1>11. \A n \in S : m <= n
  BY <1>0, <1>2, <1>3, <1>9, <1>10
<1> QED
  BY <1>2, <1>11

\* The cleanup of the effect cancels each run and changes nothing else of it.
LEMMA CancelAll ==
    ASSUME NEW s \in Seq(Run)
    PROVE  LET old == [i \in DOMAIN s |-> [s[i] EXCEPT !.cancelled = TRUE]]
           IN  /\ old \in Seq(Run) /\ Len(old) = Len(s) /\ DOMAIN old = DOMAIN s
               /\ \A i \in DOMAIN s : /\ old[i].cancelled = TRUE
                                      /\ old[i].todo = s[i].todo
                                      /\ old[i].tgt = s[i].tgt
                                      /\ old[i].answered = s[i].answered
<1> DEFINE old == [i \in DOMAIN s |-> [s[i] EXCEPT !.cancelled = TRUE]]
<1>1. \A i \in DOMAIN s : s[i] \in Run
  OBVIOUS
<1>2. \A i \in DOMAIN s : old[i] \in Run
  BY <1>1 DEF Run
<1>3. old \in Seq(Run) /\ Len(old) = Len(s)
  BY <1>2
<1>4. \A i \in DOMAIN s : /\ old[i].cancelled = TRUE
                         /\ old[i].todo = s[i].todo
                         /\ old[i].tgt = s[i].tgt
                         /\ old[i].answered = s[i].answered
  BY <1>1 DEF Run
<1> QED
  BY <1>3, <1>4

\* A step of one run leaves the others, its target and its cancellation.
LEMMA RunChanged ==
    ASSUME NEW s \in Seq(Run), NEW i \in DOMAIN s,
           NEW todo \in SUBSET Entry, NEW answered \in BOOLEAN
    PROVE  LET t == [s EXCEPT ![i].todo = todo, ![i].answered = answered]
           IN  /\ t \in Seq(Run) /\ Len(t) = Len(s) /\ DOMAIN t = DOMAIN s
               /\ t[i].todo = todo /\ t[i].answered = answered
               /\ t[i].tgt = s[i].tgt /\ t[i].cancelled = s[i].cancelled
               /\ \A j \in DOMAIN s : j # i => t[j] = s[j]
<1> DEFINE t == [s EXCEPT ![i].todo = todo, ![i].answered = answered]
<1> DEFINE r == [s[i] EXCEPT !.todo = todo, !.answered = answered]
<1>1. s[i] \in Run
  OBVIOUS
<1>2. r \in Run /\ r.todo = todo /\ r.answered = answered /\ r.tgt = s[i].tgt
      /\ r.cancelled = s[i].cancelled
  BY <1>1 DEF Run
<1>3. t = [s EXCEPT ![i] = r]
  BY <1>1 DEF Run
<1> HIDE DEF r, t
<1>4. t \in Seq(Run) /\ Len(t) = Len(s) /\ DOMAIN t = DOMAIN s
  <2>1. s \in [1..Len(s) -> Run] /\ Len(s) \in Nat
    OBVIOUS
  <2>2. t \in [1..Len(s) -> Run]
    BY <1>2, <1>3, <2>1
  <2>3. \A f : f \in [1..Len(s) -> Run] => f \in Seq(Run) /\ Len(f) = Len(s) /\ DOMAIN f = DOMAIN s
    BY <2>1
  <2> QED
    BY <2>2, <2>3, Zenon
<1>5. t[i] = r /\ \A j \in DOMAIN s : j # i => t[j] = s[j]
  BY <1>3
<1> QED
  BY <1>2, <1>4, <1>5 DEF t

\* A run that goes on has a current message.
LEMMA CurrentIsOne ==
    ASSUME NEW run \in Run, Active(run)
    PROVE  Current(run) \in run.todo
<1> DEFINE places == { e.at : e \in run.todo }
<1>1. run.todo \subseteq Entry /\ run.todo # {}
  BY DEF Run, Active
<1>2. places \in SUBSET Nat
  BY <1>1 DEF Entry
<1>3. PICK e0 \in run.todo : TRUE
  BY <1>1
<1>4. PICK k \in places : \A n \in places : k <= n
  BY <1>2, <1>3, LeastNat
<1>5. \E e \in run.todo : \A f \in run.todo : e.at <= f.at
  BY <1>4
<1> QED
  BY <1>5 DEF Current

\* Every source on the screen or in a run is a number.
LEMMA SourcesAreNumbers ==
    ASSUME Typed
    PROVE  /\ \A i \in DOMAIN screen : screen[i].source \in Nat
           /\ \A i \in DOMAIN runs : \A e \in runs[i].todo : e.source \in Nat
<1>1. 1..MaxMsgs \subseteq Nat
  BY RetranslationAssumption
<1>2. \A i \in DOMAIN screen : screen[i] \in Message
  BY DEF Typed
<1>3. \A i \in DOMAIN runs : runs[i] \in Run
  BY DEF Typed
<1>4. \A i \in DOMAIN screen : screen[i].source \in 1..MaxMsgs
  BY <1>2 DEF Message
<1>5. \A i \in DOMAIN runs : \A e \in runs[i].todo : e.source \in 1..MaxMsgs
  BY <1>3 DEF Run, Entry
<1> QED
  BY <1>1, <1>4, <1>5

\* Ids and numbers given stay so when rows are stored and messages made.
LEMMA GivenStays ==
    ASSUME Typed, Typed', stored \subseteq stored', made <= made'
    PROVE  /\ \A id : \A source \in Nat :
            Given(id, source, stored, made) => Given(id, source, stored', made')
           /\ \A id, s1, s2 : SameNumber(id, s1, s2) => SameNumber(id, s1, s2)'
<1>1. made \in Nat /\ made' \in Nat
  BY RetranslationAssumption DEF Typed
<1>2. \A source \in Nat : source <= made => source <= made'
  BY <1>1
<1> QED
  BY <1>2 DEF Given, SameNumber

-----------------------------------------------------------------------------
(* Steps that neither begin a run nor go on with one.                      *)

\* A change of language, of the session, or a turn begun or failed.
LEMMA QuietKeeps ==
    ASSUME Inv, \/ \E code \in Supported : SetTgt(code)
                \/ Swap \/ NewConversation \/ SessionFails \/ Send \/ SendFails
    PROVE  Inv'
<1>1. /\ UNCHANGED <<runs, stored, made, mark, stuck>>
      /\ screen' = screen \/ screen' = <<>>
      /\ calm' => calm
  <2>1. ASSUME NEW code \in Supported, SetTgt(code)
        PROVE  UNCHANGED <<runs, stored, made, mark, stuck, screen>> /\ (calm' => calm)
    BY <2>1 DEF SetTgt
  <2>2. CASE Swap
    BY <2>2 DEF Swap
  <2>3. CASE NewConversation
    BY <2>3 DEF NewConversation
  <2>4. CASE SessionFails
    BY <2>4 DEF SessionFails
  <2>5. CASE Send
    BY <2>5 DEF Send
  <2>6. CASE SendFails
    BY <2>6 DEF SendFails, history
  <2> QED
    BY <2>1, <2>2, <2>3, <2>4, <2>5, <2>6
<1> USE DEF Inv
<1>2. Typed'
  <2>1. screen' \in Seq(Message)
    <3>1. CASE screen' = screen
      BY <3>1 DEF Typed
    <3>2. CASE screen' = <<>>
      BY <3>2
    <3> QED
      BY <1>1, <3>1, <3>2
  <2>2. /\ pair' \in [src : Lang, tgt : Lang]
        /\ creating' \in BOOLEAN /\ pending' \in BOOLEAN /\ calm' \in BOOLEAN
    <3>1. ASSUME NEW code \in Supported, SetTgt(code)
          PROVE  /\ pair' \in [src : Lang, tgt : Lang]
                 /\ creating' \in BOOLEAN /\ pending' \in BOOLEAN /\ calm' \in BOOLEAN
      BY <3>1, SessionsAssumption DEF Typed, SetTgt, SetPair
    <3>2. CASE Swap
      BY <3>2 DEF Typed, Swap, SetPair
    <3>3. CASE NewConversation \/ SessionFails \/ Send \/ SendFails
      BY <3>3 DEF Typed, NewConversation, SessionFails, Send, SendFails, history
    <3> QED
      BY <3>1, <3>2, <3>3
  <2>3. changes' \in 0..MaxChanges
    BY RetranslationAssumption
       DEF Typed, SetTgt, Swap, NewConversation, SessionFails, Send, SendFails, Change, history
  <2>4. NoneOrOne(session') /\ NoneOrOne(sending') /\ (sending' # <<>> => session' # <<>>)
    BY DEF Typed, NoneOrOne, SetTgt, Swap, NewConversation, SessionFails, Send, SendFails
  <2> QED
    BY <1>1, <2>1, <2>2, <2>3, <2>4 DEF Typed
<1>3. IdsAreGiven' /\ TranslationIsOfItsSource'
  <2>1. \A id, source : Given(id, source, stored', made') <=> Given(id, source, stored, made)
    BY <1>1 DEF Given
  <2>2. \A id, s1, s2 : SameNumber(id, s1, s2)' <=> SameNumber(id, s1, s2)
    BY <1>1 DEF SameNumber
  <2> QED
    BY <1>1, <2>1, <2>2 DEF IdsAreGiven, TranslationIsOfItsSource
<1>4. OthersAreCancelled'
  BY <1>1 DEF OthersAreCancelled
<1>5. CalmSessions'
  BY DEF Typed, CalmSessions, SetTgt, Swap, NewConversation, SessionFails, Send, SendFails,
         SetPair, history
<1>6. CalmScreen'
  <2>1. CASE screen' = <<>>
    BY <2>1 DEF CalmScreen, Mine
  <2>2. CASE \E code \in Supported : SetTgt(code)
    <3> SUFFICES ASSUME NEW i \in Mine' PROVE Due(screen[i].id)'
      BY <1>1, <2>1 DEF CalmScreen
    <3>1. screen' = screen /\ screen # <<>>
      BY <2>1, <2>2 DEF Mine, SetTgt
    <3>2. creating' /\ pending'
      <4>1. PICK code \in Supported : SetTgt(code)
        BY <2>2
      <4>2. pair'.tgt = code /\ code # pair.tgt /\ creating' = (creating \/ pair' # pair)
        BY <4>1 DEF SetTgt, SetPair
      <4>3. pending' = (pending \/ screen # <<>>)
        BY <4>1 DEF SetTgt
      <4> QED
        BY <3>1, <4>2, <4>3
    <3> QED
      BY <3>2 DEF Due
  <2>3. CASE SessionFails
    BY <2>3 DEF SessionFails, CalmScreen
  <2>4. CASE Send \/ SendFails
    <3>1. UNCHANGED <<screen, runs, pair, creating, pending>>
      BY <2>4 DEF Send, SendFails
    <3>2. Mine' = Mine /\ \A id : Due(id)' <=> Due(id)
      BY <3>1 DEF Mine, Due
    <3> QED
      BY <1>1, <3>1, <3>2 DEF CalmScreen
  <2>5. CASE Swap \/ NewConversation
    BY <2>1, <2>5 DEF Swap, NewConversation
  <2> QED
    BY <2>2, <2>3, <2>4, <2>5
<1> QED
  BY <1>2, <1>3, <1>4, <1>5, <1>6

\* A row is stored.
LEMMA StoredKeeps ==
    ASSUME Inv, NEW conv \in Conv, Stored(conv)
    PROVE  Inv'
<1> USE DEF Inv
<1>1. /\ made' = made + 1 /\ made < MaxMsgs
      /\ UNCHANGED <<pair, creating, session, pending, mark, screen, runs, sending,
                     changes, stuck, calm>>
  BY DEF Stored
<1>2. PICK number \in 0..Cardinality(RowsOf(conv)), side \in {"mine", "theirs"},
           lang \in Supported :
         stored' = stored \cup {[conv |-> conv, source |-> made', number |-> number,
                                 side |-> side, lang |-> lang]}
  BY DEF Stored
<1>3. made' \in 0..MaxMsgs /\ made' \in 1..MaxMsgs /\ made <= made'
  BY <1>1, RetranslationAssumption DEF Typed
<1>4. number \in Nat
  OBVIOUS
<1>5. Typed'
  <2>1. stored' \subseteq Row
    BY <1>2, <1>3, <1>4 DEF Typed, Row
  <2>2. IsFiniteSet(stored')
    BY <1>2, FS_AddElement DEF Typed
  <2> QED
    BY <1>1, <1>3, <2>1, <2>2 DEF Typed
<1>6. /\ \A id : \A source \in Nat :
            Given(id, source, stored, made) => Given(id, source, stored', made')
      /\ \A id, s1, s2 : SameNumber(id, s1, s2) => SameNumber(id, s1, s2)'
  <2>1. stored \subseteq stored'
    BY <1>2
  <2> QED
    BY <1>3, <1>5, <2>1, GivenStays
<1>7. IdsAreGiven' /\ TranslationIsOfItsSource'
  <2>1. \A i \in DOMAIN screen : screen[i].source \in Nat
    BY SourcesAreNumbers
  <2>2. \A i \in DOMAIN runs : \A e \in runs[i].todo : e.source \in Nat
    BY SourcesAreNumbers
  <2>3. IdsAreGiven'
    BY <1>1, <1>6, <2>1, <2>2 DEF IdsAreGiven
  <2>4. TranslationIsOfItsSource'
    BY <1>1, <1>6 DEF TranslationIsOfItsSource
  <2> QED
    BY <2>3, <2>4
<1>8. OthersAreCancelled' /\ CalmSessions' /\ CalmScreen'
  BY <1>1 DEF OthersAreCancelled, CalmSessions, CalmScreen, Mine, Due
<1> QED
  BY <1>5, <1>7, <1>8

\* A message that was sent is shown, in the session's language (send) or the
\* operator's (sendFromCustomer).
LEMMA ShowsKeeps ==
    ASSUME Inv, SendDone \/ CustomerDone
    PROVE  Inv'
<1> USE DEF Inv
<1>1. PICK side \in {"mine", "theirs"}, lang \in Lang :
         /\ Shows(side, lang)
         /\ side = "mine" => sending # <<>> /\ lang = sending[1].tgt
  <2>1. CASE SendDone
    <3>1. sending[1].tgt \in Lang /\ sending # <<>>
      BY <2>1 DEF SendDone, Typed, NoneOrOne
    <3> QED
      BY <2>1, <3>1 DEF SendDone
  <2>2. CASE CustomerDone
    BY <2>2 DEF CustomerDone, Typed
  <2> QED
    BY <2>1, <2>2
<1> DEFINE new == Shown(SentId(made'), made', side, lang)
<1>2. /\ made < MaxMsgs /\ made' = made + 1 /\ screen' = Append(screen, new)
      /\ UNCHANGED <<pair, creating, session, pending, mark, runs, stored, changes, stuck, calm>>
      /\ sending' = sending \/ sending' = <<>>
  BY <1>1 DEF Shows, SendDone, CustomerDone
<1>3. made \in Nat /\ made' \in 0..MaxMsgs /\ made' \in 1..MaxMsgs /\ made <= made'
  BY <1>2, RetranslationAssumption DEF Typed
<1>4. /\ new.id.conv = NoConv /\ new.id.number = made' /\ new.source = made' /\ new.from = made'
      /\ new.side = side /\ new.lang = lang /\ new \in Message
  BY <1>3 DEF Shown, SentId, Message, Id
<1> HIDE DEF new
<1>5. /\ screen \in Seq(Message) /\ screen' \in Seq(Message)
      /\ DOMAIN screen' = DOMAIN screen \cup {Len(screen) + 1}
      /\ Len(screen) + 1 \notin DOMAIN screen
      /\ screen'[Len(screen) + 1] = new
      /\ \A i \in DOMAIN screen : screen'[i] = screen[i]
  <2>1. screen \in Seq(Message) /\ Len(screen) \in Nat /\ DOMAIN screen = 1..Len(screen)
    BY DEF Typed
  <2>2. Len(screen') = Len(screen) + 1 /\ screen' \in Seq(Message)
    BY <1>2, <1>4, <2>1
  <2> QED
    BY <1>2, <1>4, <2>1, <2>2
<1>6. Typed'
  BY <1>2, <1>3, <1>5 DEF Typed, NoneOrOne
<1>7. /\ \A id : \A source \in Nat :
            Given(id, source, stored, made) => Given(id, source, stored', made')
      /\ \A id, s1, s2 : SameNumber(id, s1, s2) => SameNumber(id, s1, s2)'
  BY <1>2, <1>3, <1>6, GivenStays
<1>8. IdsAreGiven'
  <2>1. \A i \in DOMAIN screen : screen[i].id # new.id
    <3> SUFFICES ASSUME NEW i \in DOMAIN screen, screen[i].id = new.id PROVE FALSE
      OBVIOUS
    <3>1. screen[i].source = made' /\ screen[i].source <= made
      BY <1>4 DEF IdsAreGiven, Given
    <3> QED
      BY <1>2, <1>3, <3>1
  <2>2. \A i, j \in DOMAIN screen' : screen'[i].id = screen'[j].id => i = j
    BY <1>5, <2>1 DEF IdsAreGiven
  <2>3. Given(new.id, new.source, stored', made')
    BY <1>3, <1>4 DEF Given
  <2>4. \A i \in DOMAIN screen' : Given(screen'[i].id, screen'[i].source, stored', made')
    BY <1>5, <1>7, <2>3, SourcesAreNumbers DEF IdsAreGiven
  <2>5. \A i \in DOMAIN runs' : \A e \in runs'[i].todo : Given(e.id, e.source, stored', made')
    BY <1>2, <1>7, SourcesAreNumbers DEF IdsAreGiven
  <2> QED
    BY <2>2, <2>4, <2>5 DEF IdsAreGiven
<1>9. TranslationIsOfItsSource'
  BY <1>4, <1>5, <1>7 DEF TranslationIsOfItsSource
<1>10. OthersAreCancelled' /\ CalmSessions'
  BY <1>2 DEF OthersAreCancelled, CalmSessions
<1>11. CalmScreen'
  <2> SUFFICES ASSUME calm, NEW i \in Mine'
               PROVE  screen'[i].lang = pair.tgt \/ Due(screen'[i].id)
    BY <1>2 DEF CalmScreen, Due
  <2>1. CASE i \in DOMAIN screen
    BY <1>5, <2>1 DEF CalmScreen, Mine
  <2>2. CASE i = Len(screen) + 1
    <3>1. new.side = "mine"
      BY <1>5, <2>2 DEF Mine
    <3> QED
      BY <1>1, <1>4, <1>5, <2>2, <3>1 DEF CalmSessions
  <2> QED
    BY <1>5, <2>1, <2>2 DEF Mine
<1> QED
  BY <1>6, <1>8, <1>9, <1>10, <1>11

\* A conversation is opened: each row has a place of its own in the answer.
LEMMA LoadKeeps ==
    ASSUME Inv, NEW conv \in Conv, Load(conv)
    PROVE  Inv'
<1> USE DEF Inv
<1>1. /\ pending' = FALSE /\ changes < MaxChanges /\ changes' = changes + 1
      /\ SetPair(PairOf[conv].src, PairOf[conv].tgt)
      /\ UNCHANGED <<session, mark, runs, sending, stored, made, stuck>>
  BY DEF Load, Change
<1>0. PICK last \in 0..made : \E list \in ByNumber({ r \in RowsOf(conv) : r.source <= last }) :
         /\ screen' = [i \in DOMAIN list |-> Restored(list, i)]
         /\ calm' = (/\ calm /\ sending = <<>>
                     /\ \A i \in DOMAIN list :
                           list[i].side = "mine" => list[i].lang = PairOf[conv].tgt)
  BY DEF Load
<1>2. PICK list \in ByNumber({ r \in RowsOf(conv) : r.source <= last }) :
         /\ screen' = [i \in DOMAIN list |-> Restored(list, i)]
         /\ calm' = (/\ calm /\ sending = <<>>
                     /\ \A i \in DOMAIN list :
                           list[i].side = "mine" => list[i].lang = PairOf[conv].tgt)
  BY <1>0
<1> DEFINE R == { r \in RowsOf(conv) : r.source <= last }
<1>3. R \subseteq stored /\ IsFiniteSet(R) /\ Cardinality(R) \in Nat
  <2>1. R \subseteq stored
    BY DEF RowsOf
  <2> QED
    BY <2>1, FS_Subset, FS_CardinalityType DEF Typed
<1>4. /\ list \in [1..Cardinality(R) -> R] /\ DOMAIN list = 1..Cardinality(R)
      /\ \A i \in DOMAIN list : list[i] \in stored /\ list[i].conv = conv
  BY <1>2, <1>3 DEF ByNumber, RowsOf
<1> DEFINE n == Cardinality(R)
<1> HIDE DEF R
<1>5. \A i \in DOMAIN list :
         /\ list[i] \in Row /\ i \in Nat /\ i - 1 \in Nat
         /\ screen'[i] = Restored(list, i)
  BY <1>2, <1>3, <1>4 DEF Typed
<1>6. \A i \in DOMAIN list :
         /\ screen'[i] \in Message
         /\ screen'[i].id.conv = list[i].conv /\ screen'[i].id.number = list[i].number
         /\ screen'[i].id.place = i - 1
         /\ screen'[i].source = list[i].source /\ screen'[i].from = list[i].source
         /\ screen'[i].side = list[i].side /\ screen'[i].lang = list[i].lang
  <2> SUFFICES ASSUME NEW i \in DOMAIN list
               PROVE  LET m == Restored(list, i) IN
                      /\ m \in Message
                      /\ m.id.conv = list[i].conv /\ m.id.number = list[i].number
                      /\ m.id.place = i - 1
                      /\ m.source = list[i].source /\ m.from = list[i].source
                      /\ m.side = list[i].side /\ m.lang = list[i].lang
    BY <1>5
  <2>1. /\ list[i] \in Row /\ i - 1 \in Nat
    BY <1>5
  <2> QED
    BY <2>1, SessionsAssumption DEF Restored, Shown, Message, Id, Row
<1>7. DOMAIN screen' = DOMAIN list /\ screen' \in Seq(Message)
  <2>1. DOMAIN screen' = 1..n /\ n \in Nat
    BY <1>2, <1>3, <1>4
  <2>2. screen' \in [1..n -> Message]
    BY <1>2, <1>4, <1>6, <2>1
  <2> HIDE DEF n
  <2>3. screen' \in Seq(Message)
    BY <2>1, <2>2
  <2> QED
    BY <1>2, <2>3
<1>8. Typed'
  <2>1. PairOf[conv].src \in Lang /\ PairOf[conv].tgt \in Lang
    BY SessionsAssumption, RetranslationAssumption
  <2>2. pair' \in [src : Lang, tgt : Lang] /\ creating' \in BOOLEAN
    BY <1>1, <2>1 DEF Typed, SetPair
  <2>3. changes' \in 0..MaxChanges /\ calm' \in BOOLEAN
    BY <1>1, <1>2, RetranslationAssumption DEF Typed
  <2> QED
    BY <1>1, <1>7, <2>2, <2>3 DEF Typed, NoneOrOne
<1>9. IdsAreGiven'
  <2>1. \A i, j \in DOMAIN screen' : screen'[i].id = screen'[j].id => i = j
    <3> SUFFICES ASSUME NEW i \in DOMAIN list, NEW j \in DOMAIN list,
                        screen'[i].id = screen'[j].id
                 PROVE  i = j
      BY <1>7
    <3>1. screen'[i].id.place = i - 1 /\ screen'[j].id.place = j - 1
      BY <1>6
    <3> QED
      BY <1>5, <3>1
  <2>2. \A i \in DOMAIN screen' : Given(screen'[i].id, screen'[i].source, stored', made')
    <3> SUFFICES ASSUME NEW i \in DOMAIN list
                 PROVE  Given(screen'[i].id, screen'[i].source, stored', made')
      BY <1>7
    <3>1. /\ screen'[i].id.conv = conv /\ screen'[i].id.number = list[i].number
          /\ screen'[i].source = list[i].source /\ list[i] \in stored'
      <4>1. list[i].conv = conv /\ list[i] \in stored'
        BY <1>1, <1>4
      <4> QED
        BY <1>6, <4>1
    <3>2. conv # NoConv
      BY RetranslationAssumption
    <3> QED
      BY <1>4, <3>1, <3>2 DEF Given
  <2>3. \A i \in DOMAIN runs' : \A e \in runs'[i].todo : Given(e.id, e.source, stored', made')
    BY <1>1 DEF IdsAreGiven, Given
  <2> QED
    BY <2>1, <2>2, <2>3 DEF IdsAreGiven
<1>10. TranslationIsOfItsSource'
  BY <1>6, <1>7 DEF TranslationIsOfItsSource
<1>11. OthersAreCancelled'
  BY <1>1 DEF OthersAreCancelled
<1>12. pair'.tgt = PairOf[conv].tgt /\ (~creating' => ~creating /\ pair' = pair)
  BY <1>1 DEF SetPair, Typed
<1>13. CalmSessions'
  BY <1>1, <1>2, <1>12 DEF CalmSessions
<1>14. CalmScreen'
  BY <1>2, <1>6, <1>7, <1>12 DEF CalmScreen, Mine
<1> QED
  BY <1>8, <1>9, <1>10, <1>11, <1>13, <1>14

-----------------------------------------------------------------------------
(* A run begins, translates a message, goes on and ends.                   *)

\* A session is created: what was going on is cancelled and owes nothing, what
\* is scheduled begins over all messages of the operator.
LEMMA SessionCreatedKeeps ==
    ASSUME Inv, SessionCreated
    PROVE  Inv'
<1> USE DEF Inv
<1> DEFINE old == [i \in DOMAIN runs |-> [runs[i] EXCEPT !.cancelled = TRUE]]
<1>1. /\ runs \in Seq(Run)
      /\ old \in Seq(Run) /\ Len(old) = Len(runs) /\ DOMAIN old = DOMAIN runs
      /\ \A i \in DOMAIN runs : old[i].cancelled = TRUE /\ old[i].todo = runs[i].todo
  <2>1. runs \in Seq(Run)
    BY DEF Typed
  <2>2. old \in Seq(Run) /\ Len(old) = Len(runs) /\ DOMAIN old = DOMAIN runs
    BY <2>1, CancelAll
  <2>3. ASSUME NEW i \in DOMAIN runs
        PROVE  old[i].cancelled = TRUE /\ old[i].todo = runs[i].todo
    <3>1. runs[i] \in Run
      BY <2>1
    <3>2. old[i] = [runs[i] EXCEPT !.cancelled = TRUE]
      OBVIOUS
    <3> QED
      BY <3>1, <3>2 DEF Run
  <2> HIDE DEF old
  <2> QED
    BY <2>1, <2>2, <2>3
<1>2. /\ creating /\ creating' = FALSE /\ session' = <<Asked>> /\ pending' = FALSE
      /\ runs' = IF pending THEN Append(old, NewRun) ELSE old
      /\ mark' = IF pending THEN Mine # {} ELSE mark
      /\ stuck' \in BOOLEAN
      /\ UNCHANGED <<pair, screen, sending, stored, made, changes, calm>>
  BY DEF SessionCreated, Typed
<1> HIDE DEF old
<1>3. /\ NewRun.tgt = pair.tgt /\ ~NewRun.answered /\ ~NewRun.cancelled
      /\ NewRun.todo = { [at |-> i, id |-> screen[i].id, source |-> screen[i].source] : i \in Mine }
  BY DEF NewRun
<1>4. \A i \in Mine : i \in DOMAIN screen /\ i \in Nat /\ screen[i] \in Message
  BY DEF Mine, Typed
<1>5. NewRun \in Run
  <2>1. NewRun.todo \subseteq Entry
    BY <1>3, <1>4 DEF Entry, Message
  <2> QED
    BY <2>1 DEF NewRun, Run, Typed
<1>6. /\ runs' \in Seq(Run)
      /\ \A i \in DOMAIN runs' : \/ i \in DOMAIN runs /\ runs'[i] = old[i]
                                 \/ pending /\ i = Len(runs') /\ runs'[i] = NewRun
      /\ pending => Len(runs') \in DOMAIN runs' /\ runs'[Len(runs')] = NewRun
  <2>1. CASE pending
    <3>1. runs' = Append(old, NewRun)
      BY <1>2, <2>1
    <3> QED
      BY <1>1, <1>5, <2>1, <3>1
  <2>2. CASE ~pending
    BY <1>1, <1>2, <2>2
  <2> QED
    BY <2>1, <2>2
<1>7. Asked.tgt = pair.tgt /\ pair.tgt \in Lang
  BY DEF Asked, Session, Typed
<1>8. Typed'
  <2>1. NoneOrOne(session') /\ session' # <<>>
    BY <1>2, <1>7 DEF NoneOrOne
  <2>2. mark' \in BOOLEAN
    BY <1>2 DEF Typed
  <2> QED
    BY <1>2, <1>6, <2>1, <2>2 DEF Typed
<1>9. IdsAreGiven'
  <2>1. \A e \in NewRun.todo : Given(e.id, e.source, stored, made)
    BY <1>3, <1>4 DEF IdsAreGiven
  <2>2. \A i \in DOMAIN runs' : \A e \in runs'[i].todo : Given(e.id, e.source, stored, made)
    BY <1>1, <1>6, <2>1 DEF IdsAreGiven
  <2> QED
    BY <1>2, <2>2 DEF IdsAreGiven
<1>10. TranslationIsOfItsSource'
  BY <1>2 DEF TranslationIsOfItsSource, SameNumber
<1>11. OthersAreCancelled'
  BY <1>1, <1>6 DEF OthersAreCancelled
<1>12. CalmSessions'
  <2>1. session'[1].tgt = pair'.tgt
    BY <1>2, <1>7
  <2> QED
    BY <1>2, <2>1 DEF CalmSessions
<1>13. CalmScreen'
  <2> SUFFICES ASSUME calm, NEW i \in Mine
               PROVE  screen[i].lang = pair.tgt \/ Due(screen[i].id)'
    BY <1>2 DEF CalmScreen, Mine
  <2>1. CASE pending
    <3>1. Owed(NewRun) = NewRun.todo
      BY <1>3 DEF Owed
    <3>2. screen[i].id \in { e.id : e \in Owed(NewRun) }
      <4> DEFINE entry == [at |-> i, id |-> screen[i].id, source |-> screen[i].source]
      <4>1. entry \in Owed(NewRun)
        BY <1>3, <3>1
      <4>2. entry.id = screen[i].id
        OBVIOUS
      <4> HIDE DEF entry
      <4> QED
        BY <4>1, <4>2
    <3>3. \E j \in DOMAIN runs' : /\ ~runs'[j].cancelled /\ runs'[j].tgt = pair.tgt
                                  /\ screen[i].id \in { e.id : e \in Owed(runs'[j]) }
      BY <1>3, <1>6, <2>1, <3>2
    <3> QED
      BY <1>2, <3>3 DEF Due
  <2>2. CASE ~pending
    BY <1>2, <2>2 DEF CalmScreen, Due
  <2> QED
    BY <2>1, <2>2
<1> QED
  BY <1>8, <1>9, <1>10, <1>11, <1>12, <1>13

\* A run's turn is done: the message with its id takes what was captured with it.
LEMMA RunDoneKeeps ==
    ASSUME Inv, NEW i \in DOMAIN runs, RunDone(i)
    PROVE  Inv'
<1> USE DEF Inv
<1> DEFINE e == Current(runs[i])
<1>1. runs \in Seq(Run) /\ screen \in Seq(Message) /\ runs[i] \in Run
  BY DEF Typed
<1>2. e \in runs[i].todo /\ e \in Entry /\ runs[i].tgt \in Lang
  <2>1. Active(runs[i])
    BY DEF RunDone
  <2> QED
    BY <1>1, <2>1, CurrentIsOne DEF Run
<1>3. /\ runs' = [runs EXCEPT ![i].answered = TRUE]
      /\ screen' = [j \in DOMAIN screen |-> IF screen[j].id = e.id
                                              THEN Translated(screen[j], runs[i])
                                              ELSE screen[j]]
      /\ calm' = (calm /\ ~Late(i))
      /\ ~runs[i].answered
      /\ UNCHANGED <<pair, creating, session, pending, mark, sending, stored, made, changes, stuck>>
  BY DEF RunDone
<1>4. /\ runs' \in Seq(Run) /\ Len(runs') = Len(runs) /\ DOMAIN runs' = DOMAIN runs
      /\ runs'[i].todo = runs[i].todo /\ runs'[i].answered = TRUE
      /\ runs'[i].tgt = runs[i].tgt /\ runs'[i].cancelled = runs[i].cancelled
      /\ \A j \in DOMAIN runs : j # i => runs'[j] = runs[j]
  <2> DEFINE todo == runs[i].todo
             t == [runs EXCEPT ![i].todo = todo, ![i].answered = TRUE]
  <2>1. todo \in SUBSET Entry /\ TRUE \in BOOLEAN
    BY <1>1 DEF Run
  <2>2. runs' = t
    BY <1>1, <1>3 DEF Run
  <2> HIDE DEF todo
  <2>3. /\ t \in Seq(Run) /\ Len(t) = Len(runs) /\ DOMAIN t = DOMAIN runs
        /\ t[i].todo = todo /\ t[i].answered = TRUE
        /\ t[i].tgt = runs[i].tgt /\ t[i].cancelled = runs[i].cancelled
        /\ \A j \in DOMAIN runs : j # i => t[j] = runs[j]
    BY <1>1, <2>1, RunChanged
  <2> HIDE DEF t
  <2> QED
    BY <2>2, <2>3 DEF todo
<1> HIDE DEF e
<1>5. \A j \in DOMAIN screen :
         /\ screen'[j] \in Message /\ screen'[j].id = screen[j].id
         /\ screen'[j].source = screen[j].source /\ screen'[j].side = screen[j].side
         /\ screen[j].id = e.id => screen'[j].from = e.source /\ screen'[j].lang = runs[i].tgt
         /\ screen[j].id # e.id => screen'[j] = screen[j]
  <2> SUFFICES ASSUME NEW j \in DOMAIN screen
               PROVE  /\ screen'[j] \in Message /\ screen'[j].id = screen[j].id
                      /\ screen'[j].source = screen[j].source /\ screen'[j].side = screen[j].side
                      /\ screen[j].id = e.id =>
                            screen'[j].from = e.source /\ screen'[j].lang = runs[i].tgt
                      /\ screen[j].id # e.id => screen'[j] = screen[j]
    OBVIOUS
  <2>1. screen[j] \in Message
    BY <1>1
  <2>2. CASE screen[j].id # e.id
    BY <1>3, <2>1, <2>2
  <2>3. CASE screen[j].id = e.id
    <3>1. screen'[j] = [screen[j] EXCEPT !.from = e.source, !.lang = runs[i].tgt]
      BY <1>3, <2>3 DEF Translated, e
    <3>2. e.source \in 1..MaxMsgs
      BY <1>2 DEF Entry
    <3> QED
      BY <1>2, <2>1, <2>3, <3>1, <3>2 DEF Message
  <2> QED
    BY <2>2, <2>3
<1>6. DOMAIN screen' = DOMAIN screen /\ screen' \in Seq(Message)
  <2>1. DOMAIN screen = 1..Len(screen) /\ Len(screen) \in Nat
    BY <1>1
  <2>2. screen' \in [1..Len(screen) -> Message]
    BY <1>3, <1>5, <2>1
  <2> QED
    BY <1>3, <2>1, <2>2
<1>7. Typed'
  <2>1. calm' \in BOOLEAN
    BY <1>3 DEF Typed
  <2> QED
    BY <1>3, <1>4, <1>6, <2>1 DEF Typed
<1>8. IdsAreGiven'
  <2>1. \A j, k \in DOMAIN screen' : screen'[j].id = screen'[k].id => j = k
    BY <1>5, <1>6 DEF IdsAreGiven
  <2>2. \A j \in DOMAIN screen' : Given(screen'[j].id, screen'[j].source, stored, made)
    BY <1>5, <1>6 DEF IdsAreGiven
  <2>3. \A j \in DOMAIN runs' : runs'[j].todo = runs[j].todo
    BY <1>4
  <2> QED
    BY <1>3, <1>4, <2>1, <2>2, <2>3 DEF IdsAreGiven
<1>9. TranslationIsOfItsSource'
  <2> SUFFICES ASSUME NEW j \in DOMAIN screen
               PROVE  \/ screen'[j].from = screen'[j].source
                      \/ SameNumber(screen'[j].id, screen'[j].from, screen'[j].source)
    BY <1>3, <1>6 DEF TranslationIsOfItsSource, SameNumber
  <2>1. CASE screen[j].id # e.id
    BY <1>5, <2>1 DEF TranslationIsOfItsSource
  <2>2. CASE screen[j].id = e.id
    <3>1. /\ Given(e.id, e.source, stored, made)
          /\ Given(e.id, screen[j].source, stored, made)
      BY <1>2, <2>2 DEF IdsAreGiven
    <3>2. CASE e.id.conv = NoConv
      BY <1>5, <2>2, <3>1, <3>2 DEF Given
    <3>3. CASE e.id.conv # NoConv
      <4>1. PICK r \in stored : r.conv = e.id.conv /\ r.number = e.id.number /\ r.source = e.source
        BY <3>1, <3>3 DEF Given
      <4>2. PICK s \in stored : /\ s.conv = e.id.conv /\ s.number = e.id.number
                                /\ s.source = screen[j].source
        BY <3>1, <3>3 DEF Given
      <4>3. SameNumber(e.id, e.source, screen[j].source)
        BY <4>1, <4>2 DEF SameNumber
      <4> QED
        BY <1>5, <2>2, <4>3
    <3> QED
      BY <3>2, <3>3
  <2> QED
    BY <2>1, <2>2
<1>10. OthersAreCancelled' /\ CalmSessions'
  BY <1>3, <1>4 DEF OthersAreCancelled, CalmSessions
<1>11. CalmScreen'
  <2> SUFFICES ASSUME calm, ~Late(i), NEW k \in Mine'
               PROVE  screen'[k].lang = pair.tgt \/ Due(screen[k].id)'
    BY <1>3 DEF CalmScreen
  <2>1. k \in DOMAIN screen /\ k \in Mine
    BY <1>5, <1>6 DEF Mine
  <2>2. \A id : (Due(id) /\ (id = e.id => runs[i].tgt # pair.tgt)) => Due(id)'
    <3> SUFFICES ASSUME NEW id, Due(id), id = e.id => runs[i].tgt # pair.tgt
                 PROVE  Due(id)'
      OBVIOUS
    <3>1. CASE creating
      BY <1>3, <3>1 DEF Due
    <3>2. CASE ~creating
      <4>1. PICK j \in DOMAIN runs : /\ ~runs[j].cancelled /\ runs[j].tgt = pair.tgt
                                     /\ id \in { f.id : f \in Owed(runs[j]) }
        BY <3>2 DEF Due
      <4>2. CASE j # i
        BY <1>3, <1>4, <3>2, <4>1, <4>2 DEF Due
      <4>3. CASE j = i
        <5>1. PICK f \in Owed(runs[i]) : id = f.id
          BY <4>1, <4>3
        <5>2. f \in runs[i].todo /\ f # e
          BY <1>3, <4>1, <4>3, <5>1 DEF Owed
        <5>3. Current(runs'[i]) = e
          BY <1>4 DEF Current, e
        <5>4. f \in Owed(runs'[i])
          BY <1>4, <5>2, <5>3 DEF Owed
        <5> QED
          BY <1>3, <1>4, <3>2, <4>1, <4>3, <5>1, <5>4 DEF Due
      <4> QED
        BY <4>2, <4>3
    <3> QED
      BY <3>1, <3>2
  <2>3. CASE screen[k].id = e.id
    <3>1. runs[i].tgt = pair.tgt \/ Due(e.id)
      BY <2>1, <2>3 DEF Late, e
    <3>2. PICK id : id = e.id
      OBVIOUS
    <3>3. Due(e.id) => Due(id)
      BY <3>2
    <3>4. runs[i].tgt = pair.tgt \/ Due(id)'
      BY <2>2, <3>1, <3>3
    <3> QED
      BY <1>5, <2>1, <2>3, <3>2, <3>4 DEF Due
  <2>4. CASE screen[k].id # e.id
    <3> DEFINE id == screen[k].id
    <3>1. screen[k].lang = pair.tgt \/ Due(id)
      BY <2>1 DEF CalmScreen
    <3> HIDE DEF id
    <3>2. screen[k].lang = pair.tgt \/ (id # e.id /\ Due(id))
      BY <2>4, <3>1 DEF id
    <3> QED
      BY <1>5, <2>1, <2>2, <2>4, <3>2 DEF Due, id
  <2> QED
    BY <2>3, <2>4
<1> QED
  BY <1>7, <1>8, <1>9, <1>10, <1>11

\* A run goes on to its next message, ends or fails.
LEMMA RunEndsKeeps ==
    ASSUME Inv, NEW i \in DOMAIN runs, RunTurnEnds(i) \/ RunFails(i)
    PROVE  Inv'
<1> USE DEF Inv
<1>1. runs \in Seq(Run) /\ runs[i] \in Run
  BY DEF Typed
<1>2. PICK todo \in SUBSET Entry :
         /\ todo \subseteq runs[i].todo
         /\ runs' = [runs EXCEPT ![i].todo = todo, ![i].answered = FALSE]
         /\ (calm' /\ ~runs[i].cancelled) =>
               runs[i].answered /\ todo = runs[i].todo \ {Current(runs[i])}
  <2>1. CASE RunTurnEnds(i)
    <3> DEFINE todo == IF runs[i].cancelled THEN {} ELSE runs[i].todo \ {Current(runs[i])}
    <3>1. runs' = [runs EXCEPT ![i].todo = todo, ![i].answered = FALSE]
      BY <1>1, <2>1 DEF RunTurnEnds, Run
    <3>2. todo \in SUBSET Entry /\ todo \subseteq runs[i].todo
      BY <1>1 DEF Run
    <3>3. (calm' /\ ~runs[i].cancelled) =>
             runs[i].answered /\ todo = runs[i].todo \ {Current(runs[i])}
      BY <2>1 DEF RunTurnEnds
    <3> HIDE DEF todo
    <3> QED
      BY <3>1, <3>2, <3>3
  <2>2. CASE RunFails(i)
    <3> DEFINE todo == {}
    <3>1. runs' = [runs EXCEPT ![i].todo = todo, ![i].answered = FALSE]
      BY <2>2 DEF RunFails
    <3>2. todo \in SUBSET Entry /\ todo \subseteq runs[i].todo
      OBVIOUS
    <3>3. calm' => runs[i].cancelled
      BY <2>2 DEF RunFails
    <3> HIDE DEF todo
    <3> QED
      BY <3>1, <3>2, <3>3
  <2> QED
    BY <2>1, <2>2
<1>3. /\ calm' \in BOOLEAN /\ mark' \in BOOLEAN /\ (calm' => calm)
      /\ UNCHANGED <<pair, creating, session, pending, screen, sending, stored, made, changes, stuck>>
  BY DEF Typed, RunTurnEnds, RunFails
<1>4. /\ runs' \in Seq(Run) /\ Len(runs') = Len(runs) /\ DOMAIN runs' = DOMAIN runs
      /\ runs'[i].todo = todo /\ runs'[i].answered = FALSE
      /\ runs'[i].tgt = runs[i].tgt /\ runs'[i].cancelled = runs[i].cancelled
      /\ \A j \in DOMAIN runs : j # i => runs'[j] = runs[j]
  <2> DEFINE t == [runs EXCEPT ![i].todo = todo, ![i].answered = FALSE]
  <2>1. FALSE \in BOOLEAN
    OBVIOUS
  <2>2. /\ t \in Seq(Run) /\ Len(t) = Len(runs) /\ DOMAIN t = DOMAIN runs
        /\ t[i].todo = todo /\ t[i].answered = FALSE
        /\ t[i].tgt = runs[i].tgt /\ t[i].cancelled = runs[i].cancelled
        /\ \A j \in DOMAIN runs : j # i => t[j] = runs[j]
    BY <1>1, <2>1, RunChanged
  <2>3. runs' = t
    BY <1>2
  <2> HIDE DEF t
  <2> QED
    BY <2>2, <2>3
<1>5. Typed'
  BY <1>3, <1>4 DEF Typed
<1>6. IdsAreGiven'
  <2>1. \A j \in DOMAIN runs : runs'[j].todo \subseteq runs[j].todo
    BY <1>2, <1>4
  <2> QED
    BY <1>3, <1>4, <2>1 DEF IdsAreGiven
<1>7. TranslationIsOfItsSource' /\ OthersAreCancelled' /\ CalmSessions'
  BY <1>3, <1>4 DEF TranslationIsOfItsSource, SameNumber, OthersAreCancelled, CalmSessions
<1>8. CalmScreen'
  <2> SUFFICES ASSUME calm', NEW k \in Mine
               PROVE  screen[k].lang = pair.tgt \/ Due(screen[k].id)'
    BY <1>3 DEF CalmScreen, Mine
  <2>1. ~runs[i].cancelled => Owed(runs'[i]) = Owed(runs[i])
    BY <1>2, <1>4 DEF Owed
  <2>2. \A j \in DOMAIN runs : ~runs[j].cancelled => Owed(runs'[j]) = Owed(runs[j])
    BY <1>4, <2>1
  <2>3. \A j \in DOMAIN runs : runs'[j].cancelled = runs[j].cancelled /\ runs'[j].tgt = runs[j].tgt
    BY <1>4
  <2>4. Due(screen[k].id) => Due(screen[k].id)'
    BY <1>3, <1>4, <2>2, <2>3 DEF Due
  <2> QED
    BY <1>3, <2>4 DEF CalmScreen
<1> QED
  BY <1>5, <1>6, <1>7, <1>8

-----------------------------------------------------------------------------
(* The theorems.                                                           *)

\* Every step keeps the invariant.
LEMMA NextInv == Inv /\ [Next]_vars => Inv'
<1> SUFFICES ASSUME Inv, [Next]_vars PROVE Inv'
  OBVIOUS
<1>1. CASE \/ \E code \in Supported : SetTgt(code)
           \/ Swap \/ NewConversation \/ SessionFails \/ Send \/ SendFails
  BY <1>1, QuietKeeps
<1>2. CASE \E conv \in Conv : Stored(conv) \/ Load(conv)
  BY <1>2, StoredKeeps, LoadKeeps
<1>3. CASE SessionCreated
  BY <1>3, SessionCreatedKeeps
<1>4. CASE SendDone \/ CustomerDone
  BY <1>4, ShowsKeeps
<1>5. CASE \E i \in DOMAIN runs : RunStep(i)
  BY <1>5, RunDoneKeeps, RunEndsKeeps DEF RunStep
<1>6. CASE UNCHANGED vars
  BY <1>6 DEF vars, history, Inv, Typed, NoneOrOne, IdsAreGiven, OthersAreCancelled,
     TranslationIsOfItsSource, SameNumber, CalmSessions, CalmScreen, Mine, Due
<1> QED
  BY <1>1, <1>2, <1>3, <1>4, <1>5, <1>6 DEF Next

\* The invariant holds of every state of the console.
THEOREM SpecInv == Spec => []Inv
<1>1. Inv /\ [Next]_vars => Inv'
  BY NextInv
<1> QED
  BY InitInv, <1>1, PTL DEF Spec

\* Every variable keeps its type; ids on a screen are unique and of the
\* retranslations at most the last is not cancelled.
THEOREM TypeCorrect == Spec => []TypeOK
BY SpecInv, InvImplies, PTL

\* The done event of a retranslation (useChat.ts 160-165) finds its message by
\* id, and the ids of restored messages (useChat.ts 400) are made of a number and
\* a place: whatever was opened, sent, stored or left meanwhile, a message shows
\* the translation of its own source unless its conversation gave the number twice.
THEOREM TranslationFitsSource == Spec => []TranslationIsOfItsSource
BY SpecInv, InvImplies, PTL

\* After calm changes the operator's messages are in the language chosen, also
\* while retranslations that were cancelled go on.
THEOREM CalmScreenFollowsTarget == Spec => []CalmScreenIsInTarget
BY SpecInv, InvImplies, PTL

-----------------------------------------------------------------------------
(* The safety half of RetranslationEnds.                                   *)

\* The mark stands for a run that goes on, unless a session that began none
\* cancelled it.
MarkIsOfARun == mark /\ ~stuck => \E i \in DOMAIN runs : Active(runs[i]) /\ ~runs[i].cancelled

\* Every step keeps it: what ends the last run that goes on clears the mark.
LEMMA MarkStep == Inv /\ MarkIsOfARun /\ [Next]_vars => MarkIsOfARun'
<1> SUFFICES ASSUME Inv, MarkIsOfARun, [Next]_vars, mark', ~stuck'
             PROVE  \E i \in DOMAIN runs' : Active(runs'[i]) /\ ~runs'[i].cancelled
  BY DEF MarkIsOfARun
<1>1. runs \in Seq(Run)
  BY DEF Inv, Typed
<1>2. CASE UNCHANGED <<mark, runs, stuck>>
  BY <1>2 DEF MarkIsOfARun
<1>3. CASE SessionCreated
  <2> DEFINE old == [i \in DOMAIN runs |-> [runs[i] EXCEPT !.cancelled = TRUE]]
  <2>1. CASE pending
    <3>1. Mine # {} /\ runs' = Append(old, NewRun)
      BY <1>3, <2>1 DEF SessionCreated
    <3>2. old \in Seq(Run)
      BY <1>1, CancelAll
    <3>3. NewRun.todo # {} /\ ~NewRun.cancelled
      BY <3>1 DEF NewRun
    <3> HIDE DEF old
    <3>4. Len(old) + 1 \in DOMAIN runs' /\ runs'[Len(old) + 1] = NewRun
      BY <3>1, <3>2
    <3> QED BY <3>3, <3>4 DEF Active
  <2>2. CASE ~pending
    BY <1>3, <2>2 DEF SessionCreated, MarkIsOfARun
  <2> QED BY <2>1, <2>2
<1>4. ASSUME NEW i \in DOMAIN runs, RunDone(i)
      PROVE  \E j \in DOMAIN runs' : Active(runs'[j]) /\ ~runs'[j].cancelled
  <2>1. mark /\ ~stuck /\ runs' = [runs EXCEPT ![i].answered = TRUE]
    BY <1>4 DEF RunDone
  <2>2. PICK j \in DOMAIN runs : Active(runs[j]) /\ ~runs[j].cancelled
    BY <2>1 DEF MarkIsOfARun
  <2>3. j \in DOMAIN runs' /\ runs'[j].todo = runs[j].todo /\ runs'[j].cancelled = runs[j].cancelled
    BY <1>1, <2>1
  <2> QED BY <2>2, <2>3 DEF Active
<1>5. ASSUME NEW i \in DOMAIN runs, RunTurnEnds(i)
      PROVE  \E j \in DOMAIN runs' : Active(runs'[j]) /\ ~runs'[j].cancelled
  <2>1. mark /\ ~stuck /\ (runs[i].cancelled \/ Active(runs'[i]))
    BY <1>5 DEF RunTurnEnds
  <2>2. /\ i \in DOMAIN runs' /\ DOMAIN runs' = DOMAIN runs
        /\ runs'[i].cancelled = runs[i].cancelled
        /\ \A j \in DOMAIN runs : j # i => runs'[j] = runs[j]
    <3> DEFINE todo == IF runs[i].cancelled THEN {} ELSE runs[i].todo \ {Current(runs[i])}
               t == [runs EXCEPT ![i].todo = todo, ![i].answered = FALSE]
    <3>1. runs[i] \in Run
      BY <1>1
    <3>2. todo \in SUBSET Entry /\ FALSE \in BOOLEAN
      BY <3>1 DEF Run
    <3>3. runs' = t
      BY <1>1, <1>5, <3>1 DEF RunTurnEnds, Run
    <3> HIDE DEF todo
    <3>4. /\ t \in Seq(Run) /\ Len(t) = Len(runs) /\ DOMAIN t = DOMAIN runs
          /\ t[i].todo = todo /\ t[i].answered = FALSE
          /\ t[i].tgt = runs[i].tgt /\ t[i].cancelled = runs[i].cancelled
          /\ \A j \in DOMAIN runs : j # i => t[j] = runs[j]
      BY <1>1, <3>2, RunChanged
    <3> HIDE DEF t
    <3> QED BY <3>3, <3>4
  <2>3. PICK k \in DOMAIN runs : Active(runs[k]) /\ ~runs[k].cancelled
    BY <2>1 DEF MarkIsOfARun
  <2>4. CASE runs[i].cancelled
    BY <2>2, <2>3, <2>4
  <2>5. CASE ~runs[i].cancelled
    BY <2>1, <2>2, <2>5
  <2> QED BY <2>4, <2>5
<1>6. ASSUME NEW i \in DOMAIN runs, RunFails(i) PROVE FALSE
  BY <1>6 DEF RunFails
<1> QED
  BY <1>2, <1>3, <1>4, <1>5, <1>6
     DEF Next, SetTgt, Swap, NewConversation, Stored, Load, SessionFails, Send, SendDone,
         SendFails, CustomerDone, RunStep, vars, history

\* A mark that no run will clear is left only by a session that cancelled the
\* run and began none (useChat.ts 134, 178).
THEOREM MarkIsOfARunHolds == Spec => []MarkIsOfARun
<1>1. Init => MarkIsOfARun
  BY DEF Init, MarkIsOfARun
<1> QED BY <1>1, MarkStep, SpecInv, PTL DEF Spec
=============================================================================
