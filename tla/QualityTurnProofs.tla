------------------------- MODULE QualityTurnProofs -------------------------
(***************************************************************************)
(* Proofs about the turns of a session, for any number of overlapping      *)
(* turns, any models, permits, token limits and context sizes.             *)
(***************************************************************************)
EXTENDS QualityTurn, SequenceTheorems, FiniteSetTheorems, WellFoundedInduction, TLAPS

USE DEF SessionRow, Resolves

-----------------------------------------------------------------------------
(* Lemmas on sequences and on the newest rows.                             *)

\* One more element at the end of a sequence.
LEMMA OneMore ==
    ASSUME NEW S, NEW s \in Seq(S), NEW e \in S
    PROVE  /\ Append(s, e) \in Seq(S)
           /\ Len(s) \in Nat /\ DOMAIN s = 1..Len(s)
           /\ Len(Append(s, e)) = Len(s) + 1
           /\ DOMAIN Append(s, e) = 1..(Len(s) + 1)
           /\ \A i \in 1..Len(s) : Append(s, e)[i] = s[i]
           /\ Append(s, e)[Len(s) + 1] = e
           /\ ToSet(Append(s, e)) = ToSet(s) \cup {e}
<1>1. /\ Append(s, e) \in Seq(S)
      /\ Len(s) \in Nat /\ DOMAIN s = 1..Len(s)
      /\ Len(Append(s, e)) = Len(s) + 1
      /\ DOMAIN Append(s, e) = 1..(Len(s) + 1)
      /\ \A i \in 1..Len(s) : Append(s, e)[i] = s[i]
      /\ Append(s, e)[Len(s) + 1] = e
  BY AppendProperties, LenProperties
<1>2. ToSet(Append(s, e)) = ToSet(s) \cup {e}
  BY <1>1 DEF ToSet
<1> QED BY <1>1, <1>2

\* A sequence is a function on 1..Len, and its elements are those of its set.
LEMMA Elements ==
    ASSUME NEW S, NEW s \in Seq(S)
    PROVE  /\ Len(s) \in Nat /\ DOMAIN s = 1..Len(s)
           /\ \A i \in DOMAIN s : s[i] \in S /\ s[i] \in ToSet(s)
           /\ \A e \in ToSet(s) : e \in S /\ \E i \in DOMAIN s : s[i] = e
<1>1. Len(s) \in Nat /\ DOMAIN s = 1..Len(s)
  BY LenProperties
<1>2. \A i \in DOMAIN s : s[i] \in S
  BY ElementOfSeq, <1>1
<1>3. ToSet(s) = { s[i] : i \in DOMAIN s }
  BY DEF ToSet
<1> QED BY <1>1, <1>2, <1>3

\* The rows of the table are rows.
LEMMA RowsTyped ==
    ASSUME rows \in Seq(TurnRow)
    PROVE  /\ Len(rows) \in Nat /\ DOMAIN rows = 1..Len(rows)
           /\ \A i \in DOMAIN rows : /\ rows[i] \in TurnRow /\ rows[i] \in ToSet(rows)
                                     /\ rows[i].id \in Nat /\ rows[i].turn \in Turn
           /\ \A row \in ToSet(rows) : row \in TurnRow /\ row.turn \in Turn
<1>1. \A row \in TurnRow : row.id \in Nat /\ row.turn \in Turn
  BY DEF TurnRow
<1> QED BY <1>1, Elements

\* The rows that are newer than row i.
Newer(i) == { n \in DOMAIN rows : rows[n].id > rows[i].id }

\* The number before the one a turn is given is a natural.
LEMMA LastIsNatural ==
    ASSUME rows \in Seq(TurnRow), NEW last, IsLastId(last)
    PROVE  last \in Nat
<1>1. \A n \in DOMAIN rows : rows[n].id \in Nat
  BY RowsTyped
<1>2. RecentIds \subseteq Nat
  BY <1>1, Zenon DEF RecentIds
<1> QED BY <1>2 DEF IsLastId

\* It is the highest of all rows, also of those that the query left out.
LEMMA LastIsHighest ==
    ASSUME rows \in Seq(TurnRow), ContextTurns \in Nat \ {0},
           NEW last, IsLastId(last), NEW i \in DOMAIN rows
    PROVE  rows[i].id <= last
<1>1. /\ Len(rows) \in Nat /\ DOMAIN rows = 1..Len(rows)
      /\ \A n \in DOMAIN rows : rows[n].id \in Nat
  BY RowsTyped
<1>2. IsFiniteSet(DOMAIN rows)
  BY <1>1, FS_Interval
<1> DEFINE families == { Newer(n) : n \in DOMAIN rows }
<1>3. families \in SUBSET SUBSET DOMAIN rows /\ families # {}
  BY DEF Newer
<1>4. IsWellFoundedOn(StrictSubsetOrdering(DOMAIN rows), SUBSET DOMAIN rows)
  BY <1>2, FS_StrictSubsetOrderingWellFounded, FS_FiniteSubsetsOfFinite
<1>5. PICK least \in families :
        \A other \in families : ~(<<other, least>> \in StrictSubsetOrdering(DOMAIN rows))
  BY <1>3, <1>4, WFMin
<1>6. PICK n \in DOMAIN rows : least = Newer(n)
  BY <1>5
<1>7. Newer(n) = {}
  <2> SUFFICES ASSUME NEW m \in Newer(n) PROVE FALSE
    OBVIOUS
  <2>1. m \in DOMAIN rows /\ rows[m].id > rows[n].id
    BY DEF Newer
  <2>2. Newer(m) \subseteq Newer(n) /\ m \notin Newer(m)
    BY <2>1, <1>1 DEF Newer
  <2>3. <<Newer(m), Newer(n)>> \in StrictSubsetOrdering(DOMAIN rows)
    BY <2>2 DEF StrictSubsetOrdering, Newer
  <2>4. Newer(m) \in families
    BY <2>1
  <2> QED BY <2>3, <2>4, <1>5, <1>6
<1>8. rows[n].id \in RecentIds
  <2>1. Cardinality(Newer(n)) < ContextTurns
    BY <1>7, FS_EmptySet
  <2> QED BY <2>1 DEF RecentIds, Newer
<1>9. rows[i].id <= rows[n].id
  BY <1>1, <1>7 DEF Newer
<1>10. rows[n].id <= last
  BY <1>8 DEF IsLastId
<1> QED BY <1>1, <1>9, <1>10, LastIsNatural

-----------------------------------------------------------------------------
(* The inductive invariant.                                                *)

\* The invariant holds before the first turn.
THEOREM InitEstablishes == Init => IInv
<1> SUFFICES ASSUME Init PROVE IInv
  OBVIOUS
<1>1. Len(rows) = 0 /\ DOMAIN rows = {} /\ ToSet(rows) = {}
  BY DEF Init, ToSet
<1>2. \A t \in Turn : events[t] = <<>> /\ ToSet(events[t]) = {}
  BY DEF Init, ToSet
<1>3. TypeOK
  BY QualityAssumption DEF Init, TypeOK, Pc
<1>4. NumbersSound
  BY <1>1 DEF Init, NumbersSound, Numbered
<1>5. AttemptSound
  BY <1>2 DEF Init, AttemptSound, Attempted, Answering
<1>6. RowsSound /\ AnswerIsOneAttempt /\ AnsweredIsStored
  BY <1>1, <1>2 DEF Init, RowsSound, AnswerIsOneAttempt, AnsweredIsStored
<1> QED BY <1>3, <1>4, <1>5, <1>6 DEF IInv

Waiting == {"queued", "streaming", "sending", "backQueued", "backStreaming"}
Final == {"queued", "streaming", "sending"}

\* A step that only moves one handler on.
LEMMA MovesStep ==
    ASSUME IInv, NEW t \in Turn, NEW from, NEW to \in Pc \ {"idle", "ended", "reply"},
           Moves(t, from, to),
           from \notin {"ended", "gone"},
           from = "reply" => to = "gone",
           to \in Answering => from \in Answering,
           to \in Waiting => from \in Waiting,
           to \in Final => from \in Final
    PROVE  IInv'
<1>1. /\ pc[t] = from /\ pc' = [pc EXCEPT ![t] = to]
      /\ UNCHANGED <<registered, session, rows, turnId, engine, degraded, acc, events,
                     seen, earlier, failedBy>>
  BY DEF Moves, Goto, history
<1>2. pc \in [Turn -> Pc]
  BY DEF IInv, TypeOK
<1>3. /\ pc'[t] = to
      /\ \A u \in Turn \ {t} : pc'[u] = pc[u]
  BY <1>1, <1>2
<1>4. TypeOK'
  BY <1>1, <1>2, <1>3 DEF IInv, TypeOK, Waiting
<1>5. rows \in Seq(TurnRow)
  BY DEF IInv, TypeOK, TurnRow
<1>6. /\ \A row \in ToSet(rows) : row.turn \in Turn
      /\ \A i \in DOMAIN rows : rows[i].turn \in Turn
  BY <1>5, RowsTyped
<1>7. NumbersSound'
  BY <1>1, <1>3, <1>6 DEF IInv, NumbersSound, Numbered
<1>8. AttemptSound'
  BY <1>1, <1>3 DEF IInv, AttemptSound, Attempted, Attempting, Final, Answering
<1>9. RowsSound'
  BY <1>1, <1>3, <1>6 DEF IInv, RowsSound
<1>10. AnswerIsOneAttempt'
  BY <1>1 DEF IInv, AnswerIsOneAttempt
<1>11. AnsweredIsStored'
  BY <1>1, <1>3, <1>6 DEF IInv, AnsweredIsStored
<1> QED BY <1>4, <1>7, <1>8, <1>9, <1>10, <1>11 DEF IInv

\* Nothing of the other handlers changes.
SameOthers(t) ==
    \A u \in Turn \ {t} :
        /\ pc'[u] = pc[u] /\ turnId'[u] = turnId[u] /\ engine'[u] = engine[u]
        /\ degraded'[u] = degraded[u] /\ acc'[u] = acc[u] /\ events'[u] = events[u]
        /\ seen'[u] = seen[u] /\ earlier'[u] = earlier[u]

\* A step of a handler that has stored nothing, and neither stores nor answers,
\* keeps the invariant when it is sound for the handler itself.
LEMMA LocalStep ==
    ASSUME IInv, NEW t \in Turn, UNCHANGED <<rows, session>>, SameOthers(t), TypeOK',
           pc[t] \notin {"reply", "ended", "gone"}, pc'[t] \notin {"idle", "reply"},
           Numbered(t)', Attempted(t)',
           \A e \in ToSet(events'[t]) : e.type # "done"
    PROVE  IInv'
<1>1. rows \in Seq(TurnRow)
  BY DEF IInv, TypeOK, TurnRow
<1>2. /\ \A row \in ToSet(rows) : row.turn \in Turn \ {t}
      /\ \A i \in DOMAIN rows : rows[i].turn \in Turn \ {t}
  BY <1>1, RowsTyped DEF IInv, RowsSound
<1>3. NumbersSound'
  BY <1>2 DEF IInv, NumbersSound, Numbered, SameOthers
<1>4. AttemptSound'
  BY DEF IInv, AttemptSound, Attempted, Attempting, SameOthers
<1>5. RowsSound'
  BY <1>2 DEF IInv, RowsSound, SameOthers
<1>6. AnswerIsOneAttempt'
  BY DEF IInv, AnswerIsOneAttempt, SameOthers
<1>7. AnsweredIsStored'
  BY <1>2 DEF IInv, AnsweredIsStored, SameOthers
<1> QED BY <1>3, <1>4, <1>5, <1>6, <1>7 DEF IInv

\* Taking a request up: the number it is given is above every row.
LEMMA StartStep ==
    ASSUME IInv, NEW t \in Turn, Start(t)
    PROVE  IInv'
<1>1. /\ pc[t] = "idle"
      /\ UNCHANGED <<registered, session, rows, acc, events, earlier, failedBy>>
      /\ seen' = [seen EXCEPT ![t] = Len(rows)]
  BY DEF Start
<1>2. PICK last : IsLastId(last) /\ turnId' = [turnId EXCEPT ![t] = last + 1]
  BY DEF Start
<1>3. /\ pc \in [Turn -> Pc] /\ turnId \in [Turn -> Nat] /\ seen \in [Turn -> Nat]
      /\ engine \in [Turn -> Model \cup {NoEngine}] /\ degraded \in [Turn -> BOOLEAN]
      /\ rows \in Seq(TurnRow) /\ Len(rows) \in Nat /\ DOMAIN rows = 1..Len(rows)
      /\ session.draft \in Model /\ session.quality \in Model
      /\ Attempted(t) /\ ~degraded[t]
  BY <1>1, RowsTyped DEF IInv, TypeOK, TurnRow, AttemptSound, Attempted
<1>4. /\ last \in Nat
      /\ \A i \in DOMAIN rows : rows[i].id \in Nat
      /\ ContextTurns > 0 => \A i \in DOMAIN rows : rows[i].id <= last
  BY <1>2, <1>3, RowsTyped, LastIsNatural, LastIsHighest, QualityAssumption
<1>5. \/ /\ pc' = [pc EXCEPT ![t] = "queued"]
         /\ engine' = [engine EXCEPT ![t] = session.quality]
         /\ session.quality \in registered /\ degraded' = degraded
      \/ /\ pc' = [pc EXCEPT ![t] = "queued"]
         /\ engine' = [engine EXCEPT ![t] = session.draft]
         /\ session.draft \in registered /\ degraded' = [degraded EXCEPT ![t] = TRUE]
      \/ /\ pc' = [pc EXCEPT ![t] = "broken"]
         /\ engine' = engine /\ degraded' = degraded
  BY DEF Start, Queue, Goto
<1>6. SameOthers(t)
  BY <1>1, <1>2, <1>3, <1>5 DEF SameOthers
<1>7. TypeOK'
  <2>1. turnId' \in [Turn -> Nat] /\ seen' \in [Turn -> Nat]
    BY <1>1, <1>2, <1>3, <1>4
  <2>2. pc' \in [Turn -> Pc] /\ degraded' \in [Turn -> BOOLEAN]
    BY <1>3, <1>5 DEF Pc
  <2>3. /\ engine' \in [Turn -> Model \cup {NoEngine}]
        /\ \A u \in Turn : pc'[u] \in Waiting => engine'[u] \in registered
    BY <1>3, <1>5 DEF IInv, TypeOK, Waiting
  <2> QED BY <1>1, <2>1, <2>2, <2>3 DEF IInv, TypeOK, Waiting
<1>8. Numbered(t)'
  <2>1. rows' = rows /\ seen'[t] = Len(rows) /\ turnId'[t] = last + 1
    BY <1>1, <1>2, <1>3
  <2>2. ContextTurns > 0 => \A i \in DOMAIN rows : rows[i].id < last + 1
    BY <1>4
  <2>3. DOMAIN rows = 1..Len(rows) /\ Len(rows) <= Len(rows)
    BY <1>3
  <2> QED BY <2>1, <2>2, <2>3 DEF Numbered
<1>9. Attempted(t)'
  BY <1>1, <1>3, <1>5 DEF Attempted, Attempting, Answering
<1>10. ToSet(events'[t]) = {}
  BY <1>1, <1>3 DEF Attempted, ToSet
<1> QED BY <1>1, <1>3, <1>5, <1>6, <1>7, <1>8, <1>9, <1>10, LocalStep

\* A token: the accumulator and the events grow by the same one.
LEMMA TokenStep ==
    ASSUME IInv, NEW t \in Turn, TokenArrives(t)
    PROVE  IInv'
<1> DEFINE m == engine[t]
<1>1. /\ pc[t] = "streaming" /\ pc' = [pc EXCEPT ![t] = "sending"]
      /\ acc' = [acc EXCEPT ![t] = Append(acc[t], m)]
      /\ events' = [events EXCEPT ![t] = Append(events[t], Token(m))]
      /\ UNCHANGED <<registered, session, rows, turnId, engine, degraded,
                     seen, earlier, failedBy>>
  BY DEF TokenArrives, Goto, history
<1>2. /\ pc \in [Turn -> Pc] /\ acc \in [Turn -> Seq(Model)]
      /\ events \in [Turn -> Seq(Event)] /\ earlier[t] \in Nat
      /\ m \in Model /\ Numbered(t) /\ Attempted(t)
  BY <1>1 DEF IInv, TypeOK, NumbersSound, AttemptSound
<1>3. Token(m) \in Event /\ Token(m).type = "token"
  BY <1>2 DEF Event, Token
<1>4. /\ acc'[t] = Append(acc[t], m) /\ events'[t] = Append(events[t], Token(m))
      /\ acc[t] \in Seq(Model) /\ events[t] \in Seq(Event) /\ pc'[t] = "sending"
  BY <1>1, <1>2
<1>5. /\ acc'[t] \in Seq(Model) /\ Len(acc[t]) \in Nat
      /\ DOMAIN acc[t] = 1..Len(acc[t])
      /\ Len(acc'[t]) = Len(acc[t]) + 1 /\ DOMAIN acc'[t] = 1..(Len(acc[t]) + 1)
      /\ \A i \in 1..Len(acc[t]) : acc'[t][i] = acc[t][i]
      /\ acc'[t][Len(acc[t]) + 1] = m
  BY <1>2, <1>4, OneMore
<1>6. /\ events'[t] \in Seq(Event) /\ Len(events[t]) \in Nat
      /\ Len(events'[t]) = Len(events[t]) + 1
      /\ \A i \in 1..Len(events[t]) : events'[t][i] = events[t][i]
      /\ events'[t][Len(events[t]) + 1] = Token(m)
      /\ ToSet(events'[t]) = ToSet(events[t]) \cup {Token(m)}
  BY <1>3, <1>4, OneMore
<1>7. SameOthers(t)
  BY <1>1, <1>2 DEF SameOthers
<1>8. TypeOK'
  BY <1>1, <1>2, <1>4, <1>5, <1>6 DEF IInv, TypeOK, Pc
<1>9. Numbered(t)'
  BY <1>1, <1>2 DEF Numbered
<1>10. \A e \in ToSet(events'[t]) : e.type = "token"
  BY <1>1, <1>2, <1>3, <1>6 DEF Attempted
<1>11. Len(events[t]) = earlier[t] + Len(acc[t]) /\ m = Attempting(t)
  BY <1>1, <1>2 DEF Attempted, Answering
<1>12. ASSUME NEW i \in 1..(Len(acc[t]) + 1)
       PROVE  /\ events'[t][earlier[t] + i] = Token(acc'[t][i])
              /\ acc'[t][i] = Attempting(t)
  <2>1. CASE i = Len(acc[t]) + 1
    BY <2>1, <1>2, <1>5, <1>6, <1>11
  <2>2. CASE i \in 1..Len(acc[t])
    <3>1. earlier[t] + i \in 1..Len(events[t])
      BY <2>2, <1>2, <1>5, <1>11
    <3>2. events[t][earlier[t] + i] = Token(acc[t][i]) /\ acc[t][i] = Attempting(t)
      BY <2>2, <1>1, <1>2, <1>5 DEF Attempted, Answering
    <3> QED BY <2>2, <3>1, <3>2, <1>5, <1>6
  <2> QED BY <2>1, <2>2, <1>5
<1>13. Attempted(t)'
  <2>1. Attempting(t)' = Attempting(t)
    BY <1>1 DEF Attempting
  <2>2. Len(events'[t]) = earlier'[t] + Len(acc'[t])
    <3>1. earlier'[t] = earlier[t] /\ earlier[t] \in Nat
      BY <1>1, <1>2
    <3> HIDE DEF m
    <3> QED BY <3>1, <1>5, <1>6, <1>11
  <2>3. \A i \in DOMAIN acc'[t] : /\ events'[t][earlier'[t] + i] = Token(acc'[t][i])
                                  /\ acc'[t][i] = Attempting(t)'
    BY <1>1, <1>5, <1>12, <2>1
  <2> QED BY <1>1, <1>4, <1>10, <1>11, <2>1, <2>2, <2>3 DEF Attempted, Token
<1> QED BY <1>1, <1>4, <1>7, <1>8, <1>9, <1>10, <1>13, LocalStep

\* The end of the stream: only the engine waited for changes.
LEMMA StreamEndsStep ==
    ASSUME IInv, NEW t \in Turn, StreamEnds(t)
    PROVE  IInv'
<1>1. /\ pc[t] = "streaming"
      /\ \/ /\ session.draft \in registered
            /\ pc' = [pc EXCEPT ![t] = "backQueued"]
            /\ engine' = [engine EXCEPT ![t] = session.draft]
         \/ pc' = [pc EXCEPT ![t] = "align"] /\ engine' = engine
      /\ UNCHANGED <<registered, session, rows, turnId, degraded, acc, events,
                     seen, earlier, failedBy>>
  BY DEF StreamEnds, Queue, Goto, history
<1>2. /\ pc \in [Turn -> Pc] /\ engine \in [Turn -> Model \cup {NoEngine}]
      /\ session.draft \in Model /\ Numbered(t) /\ Attempted(t)
  BY DEF IInv, TypeOK, NumbersSound, AttemptSound
<1>3. SameOthers(t) /\ pc'[t] \in {"backQueued", "align"}
  BY <1>1, <1>2 DEF SameOthers
<1>4. TypeOK'
  <2>1. pc' \in [Turn -> Pc]
    BY <1>1, <1>2 DEF Pc
  <2>2. /\ engine' \in [Turn -> Model \cup {NoEngine}]
        /\ \A u \in Turn : pc'[u] \in Waiting => engine'[u] \in registered
    BY <1>1, <1>2 DEF IInv, TypeOK, Waiting
  <2> QED BY <1>1, <2>1, <2>2 DEF IInv, TypeOK, Waiting
<1>5. Numbered(t)'
  BY <1>1, <1>2 DEF Numbered
<1>6. Attempted(t)'
  BY <1>1, <1>2, <1>3 DEF Attempted, Attempting, Answering
<1>7. \A e \in ToSet(events'[t]) : e.type # "done"
  BY <1>1, <1>2 DEF Attempted
<1> QED BY <1>1, <1>3, <1>4, <1>5, <1>6, <1>7, LocalStep

\* The failure of the stream: the next attempt begins with nothing accumulated
\* and counts what was sent before it.
LEMMA StreamFailsStep ==
    ASSUME IInv, NEW t \in Turn, StreamFails(t)
    PROVE  IInv'
<1>1. /\ pc[t] = "streaming"
      /\ failedBy' = [failedBy EXCEPT ![t] = failedBy[t] \cup {engine[t]}]
      /\ UNCHANGED <<registered, session, rows, turnId, seen>>
  BY DEF StreamFails
<1>2. /\ pc \in [Turn -> Pc] /\ engine \in [Turn -> Model \cup {NoEngine}]
      /\ degraded \in [Turn -> BOOLEAN] /\ acc \in [Turn -> Seq(Model)]
      /\ events \in [Turn -> Seq(Event)] /\ earlier \in [Turn -> Nat]
      /\ failedBy \in [Turn -> SUBSET Model] /\ engine[t] \in Model
      /\ session.draft \in Model /\ Numbered(t) /\ Attempted(t)
  BY <1>1 DEF IInv, TypeOK, NumbersSound, AttemptSound
<1>3. /\ failedBy' \in [Turn -> SUBSET Model] /\ Numbered(t)'
      /\ \A e \in ToSet(events[t]) : e.type = "token"
  BY <1>1, <1>2 DEF Numbered, Attempted
<1>4. CASE /\ degraded[t]
           /\ events' = [events EXCEPT ![t] = Append(events[t], Error)]
           /\ pc' = [pc EXCEPT ![t] = "ended"]
           /\ UNCHANGED <<engine, degraded, acc, earlier>>
  <2>1. Error \in Event /\ Error.type = "error"
    BY DEF Error, Event
  <2>2. /\ events'[t] = Append(events[t], Error) /\ events[t] \in Seq(Event)
        /\ pc'[t] = "ended"
    BY <1>2, <1>4
  <2>3. /\ events'[t] \in Seq(Event)
        /\ ToSet(events'[t]) = ToSet(events[t]) \cup {Error}
    BY <2>1, <2>2, OneMore
  <2>4. SameOthers(t)
    BY <1>1, <1>2, <1>4 DEF SameOthers
  <2>5. TypeOK'
    BY <1>1, <1>2, <1>3, <1>4, <2>2, <2>3 DEF IInv, TypeOK, Pc
  <2>6. Attempted(t)'
    BY <2>2 DEF Attempted, Answering
  <2>7. \A e \in ToSet(events'[t]) : e.type # "done"
    BY <1>3, <2>1, <2>3
  <2> QED BY <1>1, <1>3, <2>2, <2>4, <2>5, <2>6, <2>7, LocalStep
<1>5. CASE /\ session.draft \in registered
           /\ degraded' = [degraded EXCEPT ![t] = TRUE]
           /\ acc' = [acc EXCEPT ![t] = <<>>]
           /\ earlier' = [earlier EXCEPT ![t] = Len(events[t])]
           /\ pc' = [pc EXCEPT ![t] = "queued"]
           /\ engine' = [engine EXCEPT ![t] = session.draft]
           /\ UNCHANGED events
  <2>1. Len(events[t]) \in Nat
    BY <1>2, LenProperties
  <2>2. SameOthers(t) /\ pc'[t] = "queued"
    BY <1>1, <1>2, <1>5 DEF SameOthers
  <2>3. TypeOK'
    <3>1. /\ pc' \in [Turn -> Pc] /\ degraded' \in [Turn -> BOOLEAN]
          /\ acc' \in [Turn -> Seq(Model)] /\ earlier' \in [Turn -> Nat]
      BY <1>2, <1>5, <2>1 DEF Pc
    <3>2. /\ engine' \in [Turn -> Model \cup {NoEngine}]
          /\ \A u \in Turn : pc'[u] \in Waiting => engine'[u] \in registered
      BY <1>2, <1>5 DEF IInv, TypeOK, Waiting
    <3> QED BY <1>1, <1>3, <1>5, <3>1, <3>2 DEF IInv, TypeOK, Waiting
  <2>4. Attempted(t)'
    <3>1. /\ pc'[t] = "queued" /\ degraded'[t] = TRUE /\ engine'[t] = session.draft
          /\ acc'[t] = <<>> /\ earlier'[t] = Len(events[t]) /\ events'[t] = events[t]
          /\ session' = session
      BY <1>1, <1>2, <1>5
    <3> QED BY <3>1, <2>1, <1>3 DEF Attempted, Attempting
  <2> QED BY <1>1, <1>3, <1>5, <2>2, <2>3, <2>4, LocalStep
<1>6. CASE /\ pc' = [pc EXCEPT ![t] = "broken"]
           /\ UNCHANGED <<engine, degraded, acc, events, earlier>>
  <2>1. SameOthers(t) /\ pc'[t] = "broken"
    BY <1>1, <1>2, <1>6 DEF SameOthers
  <2>2. TypeOK'
    BY <1>1, <1>2, <1>3, <1>6 DEF IInv, TypeOK, Pc
  <2>3. Attempted(t)'
    BY <1>3, <1>6, <2>1 DEF Attempted, Answering
  <2> QED BY <1>1, <1>3, <1>6, <2>1, <2>2, <2>3, LocalStep
<1> QED BY <1>4, <1>5, <1>6 DEF StreamFails, Queue, Goto

\* A turn is stored: its row is the newest, and it bears the turn's number.
LEMMA AppendStep ==
    ASSUME IInv, NEW t \in Turn, AppendTurn(t)
    PROVE  IInv'
<1> DEFINE row == [id |-> turnId[t], turn |-> t, final |-> acc[t]]
<1>1. /\ pc[t] = "append" /\ pc' = [pc EXCEPT ![t] = "reply"]
      /\ rows' = Append(rows, row)
      /\ UNCHANGED <<registered, session, turnId, engine, degraded, acc, events,
                     seen, earlier, failedBy>>
  BY DEF AppendTurn, Goto, history
<1>2. /\ pc \in [Turn -> Pc] /\ row \in TurnRow /\ row.turn = t /\ row.id = turnId[t]
      /\ rows \in Seq(TurnRow) /\ seen \in [Turn -> Nat]
  BY DEF IInv, TypeOK, TurnRow
<1>3. /\ pc'[t] = "reply"
      /\ \A u \in Turn \ {t} : pc'[u] = pc[u]
  BY <1>1, <1>2
<1>4. /\ \A r \in ToSet(rows) : r.turn \in Turn \ {t}
      /\ \A i \in DOMAIN rows : rows[i].turn \in Turn \ {t}
  BY <1>1, <1>2, RowsTyped DEF IInv, RowsSound
<1> HIDE DEF row
<1>5. /\ rows' \in Seq(TurnRow) /\ Len(rows) \in Nat /\ DOMAIN rows = 1..Len(rows)
      /\ Len(rows') = Len(rows) + 1 /\ DOMAIN rows' = 1..(Len(rows) + 1)
      /\ \A i \in 1..Len(rows) : rows'[i] = rows[i]
      /\ rows'[Len(rows) + 1] = row
      /\ ToSet(rows') = ToSet(rows) \cup {row}
  BY <1>1, <1>2, OneMore
<1>6. TypeOK'
  BY <1>1, <1>2, <1>3, <1>5 DEF IInv, TypeOK, Pc, TurnRow
<1>7. NumbersSound'
  <2>1. ASSUME NEW u \in Turn PROVE Numbered(u)'
    <3>1. seen[u] \in Nat /\ seen[u] <= Len(rows)
      BY <1>2 DEF IInv, NumbersSound, Numbered
    <3> QED BY <3>1, <1>1, <1>5 DEF IInv, NumbersSound, Numbered
  <2>2. ASSUME NEW i \in DOMAIN rows'
        PROVE  rows'[i].id = turnId'[rows'[i].turn] /\ pc'[rows'[i].turn] # "idle"
    <3>1. CASE i = Len(rows) + 1
      BY <3>1, <1>1, <1>2, <1>3, <1>5
    <3>2. CASE i \in 1..Len(rows)
      BY <3>2, <1>1, <1>3, <1>4, <1>5 DEF IInv, NumbersSound
    <3> QED BY <3>1, <3>2, <1>5
  <2> QED BY <2>1, <2>2 DEF NumbersSound
<1>8. AttemptSound'
  BY <1>1, <1>3 DEF IInv, AttemptSound, Attempted, Attempting, Answering
<1>9. RowsSound'
  <2>1. [id |-> turnId'[t], turn |-> t, final |-> acc'[t]] \in ToSet(rows')
    BY <1>1, <1>5 DEF row
  <2> QED BY <2>1, <1>1, <1>2, <1>3, <1>4, <1>5 DEF IInv, RowsSound
<1>10. AnswerIsOneAttempt'
  BY <1>1 DEF IInv, AnswerIsOneAttempt
<1>11. AnsweredIsStored'
  BY <1>1, <1>2, <1>3, <1>4, <1>5 DEF IInv, AnsweredIsStored
<1> QED BY <1>6, <1>7, <1>8, <1>9, <1>10, <1>11 DEF IInv

\* A turn is answered: the event says what was accumulated and stored.
LEMMA ReplyStep ==
    ASSUME IInv, NEW t \in Turn, Reply(t)
    PROVE  IInv'
<1> DEFINE done == Done(t)
<1>1. /\ pc[t] = "reply" /\ pc' = [pc EXCEPT ![t] = "ended"]
      /\ events' = [events EXCEPT ![t] = Append(events[t], done)]
      /\ UNCHANGED <<registered, session, rows, turnId, engine, degraded, acc,
                     seen, earlier, failedBy>>
  BY DEF Reply, Goto, history
<1>2. /\ pc \in [Turn -> Pc] /\ events \in [Turn -> Seq(Event)]
      /\ acc[t] \in Seq(Model) /\ earlier[t] \in Nat /\ Attempted(t)
      /\ turnId[t] \in Nat /\ degraded[t] \in BOOLEAN /\ rows \in Seq(TurnRow)
  BY DEF IInv, TypeOK, AttemptSound, TurnRow
<1>3. /\ done \in Event /\ done.type = "done" /\ done.id = turnId[t]
      /\ done.final = acc[t] /\ done.degraded = degraded[t]
  BY <1>2 DEF Done, Event
<1> HIDE DEF done
<1>4. /\ pc'[t] = "ended" /\ events'[t] = Append(events[t], done)
      /\ events[t] \in Seq(Event)
      /\ \A u \in Turn \ {t} : pc'[u] = pc[u] /\ events'[u] = events[u]
  BY <1>1, <1>2
<1>5. /\ events'[t] \in Seq(Event) /\ Len(events[t]) \in Nat
      /\ Len(events'[t]) = Len(events[t]) + 1
      /\ \A i \in 1..Len(events[t]) : events'[t][i] = events[t][i]
      /\ ToSet(events'[t]) = ToSet(events[t]) \cup {done}
  BY <1>3, <1>4, OneMore
<1>6. /\ Len(events[t]) = earlier[t] + Len(acc[t])
      /\ \A i \in DOMAIN acc[t] : /\ events[t][earlier[t] + i] = Token(acc[t][i])
                                  /\ acc[t][i] = Attempting(t)
      /\ \A e \in ToSet(events[t]) : e.type = "token"
      /\ Len(acc[t]) \in Nat /\ DOMAIN acc[t] = 1..Len(acc[t])
  BY <1>1, <1>2, LenProperties DEF Attempted, Answering
<1>7. /\ \A row \in ToSet(rows) : row.turn \in Turn
      /\ \A i \in DOMAIN rows : rows[i].turn \in Turn
  BY <1>2, RowsTyped
<1>8. TypeOK'
  BY <1>1, <1>2, <1>4, <1>5 DEF IInv, TypeOK, Pc
<1>9. NumbersSound'
  BY <1>1, <1>4, <1>7 DEF IInv, NumbersSound, Numbered
<1>10. AttemptSound'
  <2>1. Attempted(t)'
    BY <1>4 DEF Attempted, Answering
  <2>2. ASSUME NEW u \in Turn \ {t} PROVE Attempted(u)'
    <3>1. Attempted(u) /\ pc'[u] = pc[u] /\ events'[u] = events[u]
      BY <1>4 DEF IInv, AttemptSound
    <3> QED BY <3>1, <1>1 DEF Attempted, Attempting
  <2> QED BY <2>1, <2>2 DEF AttemptSound
<1>11. RowsSound'
  BY <1>1, <1>4, <1>7 DEF IInv, RowsSound
<1>12. AnswerIsOneAttempt'
  <2>1. /\ Len(events'[t]) = earlier[t] + Len(done.final) + 1
        /\ \A i \in DOMAIN done.final :
              /\ events'[t][earlier[t] + i] = Token(done.final[i])
              /\ done.final[i] = IF done.degraded THEN session.draft ELSE session.quality
    <3>1. Len(events'[t]) = earlier[t] + Len(done.final) + 1
      BY <1>2, <1>3, <1>5, <1>6
    <3>2. \A i \in DOMAIN acc[t] : earlier[t] + i \in 1..Len(events[t])
      BY <1>2, <1>6
    <3> QED BY <3>1, <3>2, <1>3, <1>5, <1>6 DEF Attempting
  <2>2. \A d \in ToSet(events'[t]) : d.type = "done" => d = done
    BY <1>5, <1>6
  <2> SUFFICES ASSUME NEW u \in Turn, NEW d \in ToSet(events'[u]), d.type = "done"
               PROVE  /\ Len(events'[u]) = earlier'[u] + Len(d.final) + 1
                      /\ \A i \in DOMAIN d.final :
                            /\ events'[u][earlier'[u] + i] = Token(d.final[i])
                            /\ d.final[i] = IF d.degraded THEN session'.draft
                                                         ELSE session'.quality
    BY DEF AnswerIsOneAttempt, Token
  <2>3. CASE u = t
    BY <2>1, <2>2, <2>3, <1>1
  <2>4. CASE u # t
    <3>1. events'[u] = events[u]
      BY <2>4, <1>4
    <3> QED BY <3>1, <1>1 DEF IInv, AnswerIsOneAttempt
  <2> QED BY <2>3, <2>4
<1>13. AnsweredIsStored'
  <2>1. [id |-> done.id, turn |-> t, final |-> done.final] \in ToSet(rows)
    BY <1>1, <1>3 DEF IInv, RowsSound
  <2>2. \A d \in ToSet(events'[t]) : d.type = "done" => d = done
    BY <1>5, <1>6
  <2> QED BY <2>1, <2>2, <1>1, <1>3, <1>4, <1>5, <1>7 DEF IInv, AnsweredIsStored
<1> QED BY <1>8, <1>9, <1>10, <1>11, <1>12, <1>13 DEF IInv

\* Every step of every handler, engine and client keeps it.
THEOREM StepKeeps == IInv /\ [Next]_vars => IInv'
<1> SUFFICES ASSUME IInv, [Next]_vars PROVE IInv'
  OBVIOUS
<1> USE DEF Pc, Waiting, Final, Answering
<1>1. CASE UNCHANGED vars
  BY <1>1 DEF IInv, vars, handler, history, TypeOK, NumbersSound, Numbered, AttemptSound,
              Attempted, Attempting, RowsSound, AnswerIsOneAttempt, AnsweredIsStored
<1>2. ASSUME NEW t \in Turn, Start(t) PROVE IInv'
  BY <1>2, StartStep
<1>3. ASSUME NEW t \in Turn, HandlerStep(t) PROVE IInv'
  <2>1. CASE Acquire(t)
    <3>1. CASE Moves(t, "queued", "streaming")
      BY <3>1, MovesStep
    <3>2. CASE Moves(t, "backQueued", "backStreaming")
      BY <3>2, MovesStep
    <3> QED BY <2>1, <3>1, <3>2 DEF Acquire
  <2>2. CASE TokenArrives(t)
    BY <2>2, TokenStep
  <2>3. CASE StreamEnds(t)
    BY <2>3, StreamEndsStep
  <2>4. CASE StreamFails(t)
    BY <2>4, StreamFailsStep
  <2>5. CASE RoundTripReturns(t)
    BY <2>5, MovesStep DEF RoundTripReturns
  <2>6. CASE AlignReturns(t)
    BY <2>6, MovesStep DEF AlignReturns
  <2>7. CASE AppendTurn(t)
    BY <2>7, AppendStep
  <2>8. CASE Reply(t)
    BY <2>8, ReplyStep
  <2>9. CASE StreamClosed(t)
    BY <2>9, MovesStep DEF StreamClosed
  <2> QED BY <1>3, <2>1, <2>2, <2>3, <2>4, <2>5, <2>6, <2>7, <2>8, <2>9 DEF HandlerStep
<1>4. ASSUME NEW t \in Turn, TokenTaken(t) PROVE IInv'
  BY <1>4, MovesStep DEF TokenTaken
<1>5. ASSUME NEW t \in Turn, Breaks(t) PROVE IInv'
  <2>1. PICK from \in {"idle", "streaming", "backStreaming", "append"} :
          Moves(t, from, "broken")
    BY <1>5 DEF Breaks
  <2> QED BY <2>1, MovesStep
<1>6. ASSUME NEW t \in Turn, Disconnect(t) PROVE IInv'
  <2>1. CASE pc[t] \in HoldsPermit \ {"closing"} /\ Moves(t, pc[t], "closing")
    BY <2>1, MovesStep DEF HoldsPermit
  <2>2. CASE /\ pc[t] \in {"queued", "backQueued", "align", "append", "reply"}
             /\ Moves(t, pc[t], "gone")
    BY <2>2, MovesStep
  <2> QED BY <1>6, <2>1, <2>2 DEF Disconnect
<1> QED BY <1>1, <1>2, <1>3, <1>4, <1>5, <1>6 DEF Next

\* The conjunction holds in every state of every behaviour.
THEOREM Invariance == Spec => []IInv
<1> QED BY InitEstablishes, StepKeeps, PTL DEF Spec

-----------------------------------------------------------------------------
(* The properties.                                                         *)

\* Every variable of the turns of a session has its type, and a handler waits
\* only for engines of the registry (translate_turn).
THEOREM TypeCorrect == Spec => []TypeOK
<1>1. IInv => TypeOK
  BY DEF IInv
<1> QED BY <1>1, Invariance, PTL

\* A turn begun after another was stored is numbered above it, whatever number
\* of turns overlap, if recent_turns is asked for one row at least.
THEOREM LaterTurnsCountOnHolds ==
    ASSUME ContextTurns > 0
    PROVE  Spec => []LaterTurnsCountOn
<1>1. IInv => LaterTurnsCountOn
  <2> SUFFICES ASSUME IInv, NEW i \in DOMAIN rows, NEW j \in DOMAIN rows,
                      i <= seen[rows[j].turn]
               PROVE  rows[i].id < rows[j].id
    BY DEF LaterTurnsCountOn
  <2>1. /\ Len(rows) \in Nat /\ DOMAIN rows = 1..Len(rows) /\ rows[j].turn \in Turn
        /\ seen \in [Turn -> Nat]
    BY RowsTyped DEF IInv, TypeOK, TurnRow
  <2>2. rows[i].id < turnId[rows[j].turn]
    BY <2>1 DEF IInv, NumbersSound, Numbered
  <2> QED BY <2>2 DEF IInv, NumbersSound
<1> QED BY <1>1, Invariance, PTL

\* The answer of a turn is what one engine streamed in one attempt, also when
\* the quality engine failed in the middle of the stream.
THEOREM AnswerIsOneAttemptHolds == Spec => []AnswerIsOneAttempt
<1>1. IInv => AnswerIsOneAttempt
  BY DEF IInv
<1> QED BY <1>1, Invariance, PTL

\* What a client was told is stored, and what is stored it is told, unless it
\* went away between the two.
THEOREM AnsweredIsStoredHolds == Spec => []AnsweredIsStored
<1>1. IInv => AnsweredIsStored
  BY DEF IInv
<1> QED BY <1>1, Invariance, PTL
=============================================================================
