------------------------ MODULE ConsoleHistoryProofs ------------------------
(***************************************************************************)
(* Proofs about the console and its store, for any number of sides,        *)
(* messages, conversations and changes: the composition implements the     *)
(* store alone, so what is proved of the store holds of it; its types; and *)
(* that a calm screen shows what the open conversation holds.              *)
(***************************************************************************)
EXTENDS ConsoleHistory, FiniteSetTheorems, SequenceTheorems, TLAPS

-----------------------------------------------------------------------------
(* The store alone.                                                        *)

Saves(k) == call[k].at \in {"append", "found", "counted"}
Knows(k) == call[k].at \in {"found", "counted"}

RowsFinite == \A c \in Conv : IsFiniteSet(rows[c])

\* What was ever read from the store was sent.
SeenIsSent ==
    /\ \A c \in Conv : \A r \in rows[c] : r.msg \in sent /\ r.after \subseteq sent
    /\ \A k \in Caller : call[k].after \subseteq sent

\* Only a save has read messages, and only an answer brings them.
ReadByNeed ==
    \A k \in Caller :
        /\ ~Knows(k) => call[k].after = {}
        /\ call[k].at \notin Answered => call[k].restored = <<>>

\* A message under way is in no row and was read by nobody, and no other
\* request saves it.
SavedOnce ==
    \A k \in Caller : Saves(k) =>
        /\ call[k].msg \in sent
        /\ \A c \in Conv : \A r \in rows[c] :
              r.msg # call[k].msg /\ call[k].msg \notin r.after
        /\ \A j \in Caller : call[k].msg \notin call[j].after
        /\ \A j \in Caller : (Saves(j) /\ call[j].msg = call[k].msg) => j = k

\* A row has a higher number than every row its save found.
RowsOrdered ==
    \A c \in Conv : \A r1, r2 \in rows[c] : r2.msg \in r1.after => r2.seq < r1.seq

\* Numbers of a conversation stay below its count until it is deleted, and the
\* number a save took is above those of the rows it found.
NumbersBelowCount ==
    /\ \A c \in Conv : conversation[c] = "live" =>
          \A r \in rows[c] : r.seq < Cardinality(rows[c])
    /\ \A k \in Caller : (call[k].at = "counted" /\ conversation[call[k].conv] = "live") =>
          call[k].seq <= Cardinality(rows[call[k].conv])
    /\ \A k \in Caller : call[k].at = "counted" =>
          \A r \in rows[call[k].conv] : r.msg \in call[k].after => r.seq < call[k].seq

\* A save and a delete work on a conversation that was live; what a save found
\* is gone when the conversation is.
FoundWasLive ==
    /\ \A k \in Caller : Knows(k) =>
          /\ conversation[call[k].conv] # "none"
          /\ conversation[call[k].conv] = "deleted" =>
                /\ call[k].msg \in underway[call[k].conv]
                /\ \A r \in rows[call[k].conv] : r.msg \notin call[k].after
    /\ \A k \in Caller : call[k].at = "deleting" => conversation[call[k].conv] # "none"
    /\ \A c \in Conv : conversation[c] = "none" => rows[c] = {}

\* A live conversation has a title once a row of it has words, and the others
\* have none; a save that found no title found nothing but blanks.
TitleIsSet ==
    /\ \A c \in Conv : (conversation[c] = "live" /\ title[c] = NoMsg) =>
          \A r \in rows[c] : r.msg \in Blank
    /\ \A c \in Conv : conversation[c] # "live" => title[c] = NoMsg
    /\ \A k \in Caller : Knows(k) =>
          /\ call[k].untitled => call[k].after \subseteq Blank
          /\ (~call[k].untitled /\ conversation[call[k].conv] = "live") =>
                title[call[k].conv] # NoMsg

IInv ==
    /\ TypeOK /\ RowsFinite
    /\ SeenIsSent /\ ReadByNeed /\ SavedOnce
    /\ RowsOrdered /\ NumbersBelowCount
    /\ FoundWasLive /\ TitleIsSet
    /\ RestoredInOrder /\ TitleOfFirstMessage /\ OrphansOverlapDelete

-----------------------------------------------------------------------------
(* Types.                                                                  *)

\* A request is a record of its kind.
LEMMA RequestTyped ==
    ASSUME NEW at \in At, NEW c \in Conv \cup {NoConv}, NEW m \in Msg \cup {NoMsg},
           NEW list \in Seq(Row)
    PROVE  Request(at, c, m, list) \in Call
BY DEF Request, Call

\* No rows are a list of rows.
LEMMA EmptyTyped == <<>> \in Seq(Row)
BY EmptySeq

\* An answer leaves nothing of its request.
LEMMA AnswerTyped ==
    ASSUME TypeOK, NEW k \in Caller, NEW status \in Answered,
           NEW c \in Conv \cup {NoConv}, NEW list \in Seq(Row), Answers(k, status, c, list)
    PROVE  /\ call' \in [Caller -> Call]
           /\ call'[k].at = status /\ call'[k].after = {} /\ call'[k].restored = list
           /\ \A j \in Caller \ {k} : call'[j] = call[j]
<1>1. call \in [Caller -> Call]
  BY DEF TypeOK
<1>2. Request(status, c, NoMsg, list) \in Call
  BY RequestTyped DEF At
<1>3. call' = [call EXCEPT ![k] = Request(status, c, NoMsg, list)]
  BY DEF Answers
<1> QED BY <1>1, <1>2, <1>3 DEF Request

\* What a client asks is what its request says, and the others stay.
LEMMA AskTyped ==
    ASSUME TypeOK, NEW k \in Caller, NEW what \in {"create", "append", "delete", "get"},
           NEW c \in Conv \cup {NoConv}, NEW m \in Msg \cup {NoMsg}, Asks(k, what, c, m)
    PROVE  /\ call' \in [Caller -> Call]
           /\ call'[k].at = what /\ call'[k].after = {} /\ call'[k].restored = <<>>
           /\ call'[k].conv = c /\ call'[k].msg = m
           /\ \A j \in Caller \ {k} : call'[j] = call[j]
<1>1. call \in [Caller -> Call]
  BY DEF TypeOK
<1>2. Request(what, c, m, <<>>) \in Call
  BY RequestTyped, EmptyTyped DEF At
<1>3. call' = [call EXCEPT ![k] = Request(what, c, m, <<>>)]
  BY DEF Asks
<1> QED BY <1>1, <1>2, <1>3 DEF Request

\* A request that goes on changes in where it is.
LEMMA GoesTyped ==
    ASSUME TypeOK, NEW k \in Caller, NEW to \in At, Goes(k, to)
    PROVE  /\ call' \in [Caller -> Call]
           /\ call'[k] = [call[k] EXCEPT !.at = to]
           /\ \A j \in Caller \ {k} : call'[j] = call[j]
BY DEF TypeOK, Goes, Call

\* A save that found its conversation knows what it held and whether it had a title.
LEMMA FoundTyped ==
    ASSUME TypeOK, NEW k \in Caller, NEW untitled \in BOOLEAN, NEW after \in SUBSET Msg,
           call' = [call EXCEPT ![k] = [@ EXCEPT !.at = "found", !.untitled = untitled,
                                                 !.after = after]]
    PROVE  /\ call' \in [Caller -> Call]
           /\ call'[k].at = "found" /\ call'[k].untitled = untitled /\ call'[k].after = after
           /\ call'[k].conv = call[k].conv /\ call'[k].msg = call[k].msg
           /\ call'[k].restored = call[k].restored
           /\ \A j \in Caller \ {k} : call'[j] = call[j]
BY DEF TypeOK, Call, At

\* A save that counted knows its number.
LEMMA CountedTyped ==
    ASSUME TypeOK, NEW k \in Caller, NEW seq \in Nat,
           call' = [call EXCEPT ![k] = [@ EXCEPT !.at = "counted", !.seq = seq]]
    PROVE  /\ call' \in [Caller -> Call]
           /\ call'[k].at = "counted" /\ call'[k].seq = seq
           /\ call'[k].untitled = call[k].untitled /\ call'[k].after = call[k].after
           /\ call'[k].conv = call[k].conv /\ call'[k].msg = call[k].msg
           /\ call'[k].restored = call[k].restored
           /\ \A j \in Caller \ {k} : call'[j] = call[j]
BY DEF TypeOK, Call, At

-----------------------------------------------------------------------------
(* The invariant holds at the start and after every step.                  *)

\* The invariant holds of an empty store.
THEOREM InitEstablishes == Init => IInv
<1> SUFFICES ASSUME Init PROVE IInv
  OBVIOUS
<1>1. /\ NoCall \in Call /\ NoCall.at = "idle" /\ NoCall.after = {}
      /\ NoCall.restored = <<>>
  <2>1. Request("idle", NoConv, NoMsg, <<>>) \in Call
    BY RequestTyped, EmptyTyped DEF At
  <2> QED BY <2>1 DEF NoCall, Request
<1>2. \A k \in Caller : call[k] = NoCall
  BY DEF Init
<1>3. TypeOK
  BY <1>1, <1>2 DEF Init, TypeOK, Answered, At
<1>4. RowsFinite
  BY FS_EmptySet DEF Init, RowsFinite
<1>5. SeenIsSent /\ ReadByNeed /\ SavedOnce /\ RowsOrdered
  BY <1>1, <1>2 DEF Init, SeenIsSent, ReadByNeed, SavedOnce, RowsOrdered, Saves
<1>6. NumbersBelowCount /\ FoundWasLive /\ TitleIsSet
  BY <1>1, <1>2 DEF Init, NumbersBelowCount, FoundWasLive, TitleIsSet, Knows
<1>7. RestoredInOrder /\ TitleOfFirstMessage /\ OrphansOverlapDelete
  BY <1>1, <1>2 DEF Init, RestoredInOrder, TitleOfFirstMessage, OrphansOverlapDelete
<1> QED BY <1>3, <1>4, <1>5, <1>6, <1>7 DEF IInv

\* The steps that neither begin a save, nor go on with one, nor write a row.
LEMMA QuietKeeps ==
    ASSUME IInv, NEW k \in Caller,
           call' \in [Caller -> Call], \A j \in Caller \ {k} : call'[j] = call[j],
           call'[k].at \notin {"append", "found", "counted"}, call'[k].after = {},
           call'[k].at \in {"delete", "deleting", "get", "reading"} => call'[k].conv \in Conv,
           call'[k].at = "deleting" => conversation[call'[k].conv] = "live",
           call'[k].at \notin Answered => call'[k].restored = <<>>,
           \A i, j \in DOMAIN call'[k].restored :
              i < j => call'[k].restored[j].msg \notin call'[k].restored[i].after,
           conversation' \in [Conv -> {"none", "live", "deleted"}],
           \A c \in Conv : \/ conversation'[c] = conversation[c]
                           \/ conversation[c] = "none" /\ conversation'[c] = "live",
           UNCHANGED <<title, rows, sent, underway>>
    PROVE  IInv'
<1> USE DEF IInv
<1>1. TypeOK'
  BY DEF TypeOK, At
<1>2. RowsFinite'
  BY DEF RowsFinite
<1>3. SeenIsSent' /\ ReadByNeed'
  BY DEF SeenIsSent, ReadByNeed, Knows
<1>4. SavedOnce'
  BY DEF SavedOnce, Saves
<1>5. RowsOrdered'
  BY DEF RowsOrdered
<1>6. \A j \in Caller : call'[j].at \in {"append", "found", "counted"} =>
            /\ j # k /\ call'[j] = call[j]
            /\ call[j].conv \in Conv
  BY DEF TypeOK, Answered, At
<1>7. \A j \in Caller : Knows(j)' =>
            /\ Knows(j) /\ call'[j] = call[j]
            /\ call[j].conv \in Conv
            /\ conversation'[call[j].conv] = conversation[call[j].conv]
  BY <1>6 DEF FoundWasLive, Knows
<1>8. NumbersBelowCount'
  <2>1. \A c \in Conv : (conversation'[c] = "live" /\ conversation[c] # "live") => rows[c] = {}
    BY DEF FoundWasLive
  <2> QED BY <1>7, <2>1 DEF NumbersBelowCount, Knows
<1>9. FoundWasLive'
  <2>1. \A j \in Caller : call'[j].at = "deleting" => conversation'[call'[j].conv] # "none"
    <3> SUFFICES ASSUME NEW j \in Caller, call'[j].at = "deleting"
                 PROVE  conversation'[call'[j].conv] # "none"
      OBVIOUS
    <3>1. CASE j = k
      BY <3>1
    <3>2. CASE j # k
      <4>1. call'[j] = call[j] /\ call[j].conv \in Conv
        BY <3>2 DEF TypeOK, Answered, At
      <4> QED BY <4>1 DEF FoundWasLive
    <3> QED BY <3>1, <3>2
  <2> QED BY <1>7, <2>1 DEF FoundWasLive
<1>10. TitleIsSet'
  BY <1>7 DEF TitleIsSet, FoundWasLive
<1>11. RestoredInOrder'
  BY DEF RestoredInOrder
<1>12. TitleOfFirstMessage'
  <2>1. \A c \in Conv : title'[c] # NoMsg =>
           \E r \in rows'[c] : r.msg = title'[c] /\ r.msg \notin Blank /\ r.after \subseteq Blank
    BY DEF TitleOfFirstMessage
  <2>2. \A c \in Conv : (title'[c] = NoMsg /\ conversation'[c] = "live") =>
           \A r \in rows'[c] : r.msg \in Blank
    BY <1>10 DEF TitleIsSet
  <2> QED BY <2>1, <2>2 DEF TitleOfFirstMessage, Messages
<1>13. OrphansOverlapDelete'
  BY DEF OrphansOverlapDelete, Messages, TypeOK
<1> QED BY <1>1, <1>2, <1>3, <1>4, <1>5, <1>8, <1>9, <1>10, <1>11, <1>12, <1>13

\* A request is sent: only a save brings a message, and it is new.
LEMMA AskKeeps ==
    ASSUME IInv, NEW k \in Caller, Ask(k)
    PROVE  IInv'
<1>1. CASE AskCreate(k)
  <2>1. Asks(k, "create", NoConv, NoMsg)
    BY <1>1 DEF AskCreate
  <2>2. /\ call' \in [Caller -> Call] /\ \A j \in Caller \ {k} : call'[j] = call[j]
        /\ call'[k].at = "create" /\ call'[k].after = {} /\ call'[k].restored = <<>>
    BY <2>1, AskTyped DEF IInv
  <2> QED BY <1>1, <2>2, QuietKeeps DEF AskCreate, IInv, TypeOK
<1>2. ASSUME NEW c \in Conv, AskDelete(k, c)
      PROVE  IInv'
  <2>1. Asks(k, "delete", c, NoMsg)
    BY <1>2 DEF AskDelete
  <2>2. /\ call' \in [Caller -> Call] /\ \A j \in Caller \ {k} : call'[j] = call[j]
        /\ call'[k].at = "delete" /\ call'[k].after = {} /\ call'[k].restored = <<>>
        /\ call'[k].conv = c
    BY <2>1, AskTyped DEF IInv
  <2> QED BY <1>2, <2>2, QuietKeeps DEF AskDelete, IInv, TypeOK
<1>3. ASSUME NEW c \in Conv, AskGet(k, c)
      PROVE  IInv'
  <2>1. Asks(k, "get", c, NoMsg)
    BY <1>3 DEF AskGet
  <2>2. /\ call' \in [Caller -> Call] /\ \A j \in Caller \ {k} : call'[j] = call[j]
        /\ call'[k].at = "get" /\ call'[k].after = {} /\ call'[k].restored = <<>>
        /\ call'[k].conv = c
    BY <2>1, AskTyped DEF IInv
  <2> QED BY <1>3, <2>2, QuietKeeps DEF AskGet, IInv, TypeOK
<1>4. ASSUME NEW c \in Conv, NEW m \in Msg, AskAppend(k, c, m)
      PROVE  IInv'
  <2> USE DEF IInv
  <2>1. /\ m \notin sent /\ sent' = sent \cup {m}
        /\ UNCHANGED <<conversation, title, rows, underway>>
        /\ Asks(k, "append", c, m)
    BY <1>4 DEF AskAppend
  <2>2. /\ call' \in [Caller -> Call] /\ \A j \in Caller \ {k} : call'[j] = call[j]
        /\ call'[k].at = "append" /\ call'[k].after = {} /\ call'[k].restored = <<>>
        /\ call'[k].conv = c /\ call'[k].msg = m
    BY <2>1, AskTyped
  <2>3. TypeOK'
    BY <2>1, <2>2 DEF TypeOK, At
  <2>4. RowsFinite' /\ SeenIsSent' /\ ReadByNeed' /\ RowsOrdered'
    BY <2>1, <2>2 DEF RowsFinite, SeenIsSent, ReadByNeed, RowsOrdered, Knows
  <2>5. SavedOnce'
    <3>1. /\ \A d \in Conv : \A r \in rows[d] : r.msg # m /\ m \notin r.after
          /\ \A j \in Caller : m \notin call'[j].after
      BY <2>1, <2>2 DEF SeenIsSent
    <3>2. \A j \in Caller \ {k} : Saves(j)' => Saves(j) /\ call'[j].msg # m
      BY <2>1, <2>2 DEF SavedOnce, Saves
    <3> QED BY <2>1, <2>2, <3>1, <3>2 DEF SavedOnce, Saves
  <2>6. NumbersBelowCount'
    BY <2>1, <2>2 DEF NumbersBelowCount
  <2>7. FoundWasLive' /\ TitleIsSet'
    BY <2>1, <2>2 DEF FoundWasLive, TitleIsSet, Knows
  <2>8. RestoredInOrder'
    <3>1. \A i, j \in DOMAIN call'[k].restored :
             i < j => call'[k].restored[j].msg \notin call'[k].restored[i].after
      BY <2>2
    <3> QED BY <2>2, <3>1 DEF RestoredInOrder
  <2>9. TitleOfFirstMessage' /\ OrphansOverlapDelete'
    BY <2>1 DEF TitleOfFirstMessage, OrphansOverlapDelete, Messages
  <2> QED BY <2>3, <2>4, <2>5, <2>6, <2>7, <2>8, <2>9
<1> QED BY <1>1, <1>2, <1>3, <1>4 DEF Ask, Known

\* A request is answered and nothing is written.
LEMMA QuietAnswerKeeps ==
    ASSUME IInv, NEW k \in Caller, NEW status \in Answered, NEW c \in Conv \cup {NoConv},
           Answers(k, status, c, <<>>),
           UNCHANGED <<conversation, title, rows, sent, underway>>
    PROVE  IInv'
<1>1. /\ call' \in [Caller -> Call] /\ \A j \in Caller \ {k} : call'[j] = call[j]
      /\ call'[k].at = status /\ call'[k].after = {} /\ call'[k].restored = <<>>
  BY AnswerTyped, EmptyTyped DEF IInv
<1> QED BY <1>1, QuietKeeps DEF Answered, IInv, TypeOK

\* A new conversation keeps the invariant (create).
LEMMA CreateKeeps ==
    ASSUME IInv, NEW k \in Caller, Create(k)
    PROVE  IInv'
<1>1. PICK c \in Conv :
         /\ conversation[c] = "none"
         /\ conversation' = [conversation EXCEPT ![c] = "live"]
         /\ Answers(k, "ok", c, <<>>)
  BY DEF Create
<1>2. /\ call' \in [Caller -> Call] /\ \A j \in Caller \ {k} : call'[j] = call[j]
      /\ call'[k].at = "ok" /\ call'[k].after = {} /\ call'[k].restored = <<>>
  BY <1>1, AnswerTyped, EmptyTyped DEF IInv, Answered
<1>3. /\ conversation' \in [Conv -> {"none", "live", "deleted"}]
      /\ \A d \in Conv : \/ conversation'[d] = conversation[d]
                         \/ conversation[d] = "none" /\ conversation'[d] = "live"
  BY <1>1 DEF IInv, TypeOK
<1>4. UNCHANGED <<title, rows, sent, underway>>
  BY DEF Create
<1> QED BY <1>2, <1>3, <1>4, QuietKeeps

\* The reads of a request that goes on.
LEMMA GoesOnKeeps ==
    ASSUME IInv, NEW k \in Caller, NEW to \in {"deleting", "reading"},
           call[k].at \in {"delete", "get"}, conversation[call[k].conv] = "live", Goes(k, to),
           UNCHANGED <<conversation, title, rows, sent, underway>>
    PROVE  IInv'
<1> USE DEF IInv
<1>1. /\ call' \in [Caller -> Call] /\ call'[k] = [call[k] EXCEPT !.at = to]
      /\ \A j \in Caller \ {k} : call'[j] = call[j]
  BY GoesTyped DEF At
<1>2. /\ call[k] \in Call /\ call[k].conv \in Conv
      /\ call[k].after = {} /\ call[k].restored = <<>>
  BY DEF TypeOK, ReadByNeed, Knows, At, Answered
<1>3. /\ call'[k].at = to /\ call'[k].conv = call[k].conv
      /\ call'[k].after = {} /\ call'[k].restored = <<>>
  BY <1>1, <1>2 DEF Call
<1>4. \A i, j \in DOMAIN call'[k].restored :
         i < j => call'[k].restored[j].msg \notin call'[k].restored[i].after
  BY <1>3
<1>5. /\ conversation' = conversation
      /\ conversation \in [Conv -> {"none", "live", "deleted"}]
  BY DEF TypeOK
<1>6. /\ call'[k].at \notin {"append", "found", "counted"}
      /\ conversation[call'[k].conv] = "live" /\ call'[k].conv \in Conv
  BY <1>2, <1>3
<1> HIDE DEF IInv
<1> QED BY <1>1, <1>3, <1>4, <1>5, <1>6, QuietKeeps

\* So does the read before a delete.
LEMMA DeleteFindsKeeps ==
    ASSUME IInv, NEW k \in Caller, DeleteFinds(k)
    PROVE  IInv'
<1>1. CASE conversation[call[k].conv] = "live"
  BY <1>1, GoesOnKeeps DEF DeleteFinds
<1>2. CASE conversation[call[k].conv] # "live"
  BY <1>2, QuietAnswerKeeps DEF DeleteFinds, Answered
<1> QED BY <1>1, <1>2

\* And the read before the messages.
LEMMA GetFindsKeeps ==
    ASSUME IInv, NEW k \in Caller, GetFinds(k)
    PROVE  IInv'
<1>1. CASE conversation[call[k].conv] = "live"
  BY <1>1, GoesOnKeeps DEF GetFinds
<1>2. CASE conversation[call[k].conv] # "live"
  BY <1>2, QuietAnswerKeeps DEF GetFinds, Answered
<1> QED BY <1>1, <1>2

\* What comes back by number is in order, because a row has a higher number
\* than the rows its save found.
LEMMA GetReadsKeeps ==
    ASSUME IInv, NEW k \in Caller, GetReads(k)
    PROVE  IInv'
<1> USE DEF IInv
<1> DEFINE c == call[k].conv
<1>1. c \in Conv /\ call[k].at = "reading"
  BY DEF GetReads, TypeOK, Answered, At
<1>2. PICK list \in BySeq(rows[c]) : Answers(k, "ok", c, list)
  BY DEF GetReads
<1>3. /\ Cardinality(rows[c]) \in Nat
      /\ rows[c] \subseteq Row
  BY <1>1, FS_CardinalityType DEF RowsFinite, TypeOK
<1>4. list \in [1..Cardinality(rows[c]) -> rows[c]]
  BY <1>2 DEF BySeq
<1>5. list \in Seq(Row)
  BY <1>3, <1>4, SeqDef
<1>6. \A i, j \in DOMAIN list : i < j => list[j].msg \notin list[i].after
  <2> SUFFICES ASSUME NEW i \in DOMAIN list, NEW j \in DOMAIN list, i < j,
                      list[j].msg \in list[i].after
               PROVE  FALSE
    OBVIOUS
  <2>1. list[i].seq <= list[j].seq
    BY <1>2 DEF BySeq
  <2>2. list[i] \in rows[c] /\ list[j] \in rows[c]
    BY <1>4
  <2>3. list[j].seq < list[i].seq
    BY <1>1, <2>2 DEF RowsOrdered
  <2>4. list[i].seq \in Nat /\ list[j].seq \in Nat
    BY <1>3, <2>2 DEF Row
  <2> QED BY <2>1, <2>3, <2>4
<1>7. /\ call' \in [Caller -> Call] /\ \A j \in Caller \ {k} : call'[j] = call[j]
      /\ call'[k].at = "ok" /\ call'[k].after = {} /\ call'[k].restored = list
  BY <1>1, <1>2, <1>5, AnswerTyped DEF Answered
<1>8. UNCHANGED <<conversation, title, rows, sent, underway>>
  BY DEF GetReads
<1> QED BY <1>6, <1>7, <1>8, QuietKeeps DEF Answered, TypeOK

\* A failing database commits nothing.
LEMMA CallFailsKeeps ==
    ASSUME IInv, NEW k \in Caller, CallFails(k)
    PROVE  IInv'
BY QuietAnswerKeeps DEF CallFails, Answered

\* An answer that was used is forgotten.
LEMMA ReturnsKeeps ==
    ASSUME IInv, NEW k \in Caller, Returns(k)
    PROVE  IInv'
<1>1. NoCall \in Call
  <2>1. Request("idle", NoConv, NoMsg, <<>>) \in Call
    BY RequestTyped, EmptyTyped DEF At
  <2> QED BY <2>1 DEF NoCall
<1>2. /\ NoCall.at = "idle" /\ NoCall.after = {} /\ NoCall.restored = <<>>
  BY DEF NoCall, Request
<1>3. /\ call' \in [Caller -> Call] /\ call'[k] = NoCall
      /\ \A j \in Caller \ {k} : call'[j] = call[j]
  BY <1>1 DEF Returns, IInv, TypeOK
<1> QED BY <1>2, <1>3, QuietKeeps DEF Returns, IInv, TypeOK

-----------------------------------------------------------------------------
(* A save: what it reads, the number it takes, and the row it writes.      *)

\* The first read of a save: what it finds was sent, and is stored.
LEMMA AppendFindsKeeps ==
    ASSUME IInv, NEW k \in Caller, AppendFinds(k)
    PROVE  IInv'
<1> USE DEF IInv
<1> DEFINE c == call[k].conv
<1>1. c \in Conv /\ call[k].at = "append" /\ call[k].restored = <<>>
  BY DEF AppendFinds, TypeOK, ReadByNeed, Answered, At
<1>2. UNCHANGED <<conversation, title, rows, sent, underway>>
  BY DEF AppendFinds
<1>3. CASE conversation[c] # "live"
  BY <1>2, <1>3, QuietAnswerKeeps DEF AppendFinds, Answered
<1>4. CASE conversation[c] = "live"
  <2>1. Messages(c) \subseteq sent /\ Messages(c) \in SUBSET Msg
    BY <1>1 DEF Messages, SeenIsSent, TypeOK
  <2>2. call' = [call EXCEPT ![k] = [@ EXCEPT !.at = "found", !.untitled = (title[c] = NoMsg),
                                              !.after = Messages(c)]]
    BY <1>4 DEF AppendFinds
  <2>3. /\ call' \in [Caller -> Call]
        /\ call'[k].at = "found" /\ call'[k].untitled = (title[c] = NoMsg)
        /\ call'[k].after = Messages(c)
        /\ call'[k].conv = c /\ call'[k].msg = call[k].msg
        /\ call'[k].restored = call[k].restored
        /\ \A j \in Caller \ {k} : call'[j] = call[j]
    <3> DEFINE untitled == (title[c] = NoMsg)
               found == Messages(c)
    <3>1. /\ TypeOK /\ untitled \in BOOLEAN /\ found \in SUBSET Msg
          /\ call' = [call EXCEPT ![k] = [@ EXCEPT !.at = "found", !.untitled = untitled,
                                                   !.after = found]]
      BY <2>1, <2>2
    <3> HIDE DEF IInv, untitled, found, c
    <3>2. /\ call' \in [Caller -> Call]
          /\ call'[k].at = "found" /\ call'[k].untitled = untitled /\ call'[k].after = found
          /\ call'[k].conv = call[k].conv /\ call'[k].msg = call[k].msg
          /\ call'[k].restored = call[k].restored
          /\ \A j \in Caller \ {k} : call'[j] = call[j]
      BY <3>1, FoundTyped
    <3> QED BY <3>2 DEF untitled, found, c
  <2>4. TypeOK'
    <3>1. \A j \in Caller :
             /\ call'[j].at \in At \ ({"idle", "create"} \cup Answered) => call'[j].conv \in Conv
             /\ call'[j].at \in {"append", "found", "counted"} => call'[j].msg \in sent
      BY <1>1, <2>3 DEF TypeOK
    <3> QED BY <1>2, <2>3, <3>1 DEF TypeOK
  <2>5. RowsFinite' /\ RowsOrdered'
    BY <1>2 DEF RowsFinite, RowsOrdered
  <2>6. SeenIsSent' /\ ReadByNeed'
    BY <1>1, <1>2, <2>1, <2>3 DEF SeenIsSent, ReadByNeed, Knows
  <2>7. SavedOnce'
    <3>1. \A j \in Caller : Saves(j)' => Saves(j) /\ call'[j].msg = call[j].msg
      BY <1>1, <2>3 DEF Saves
    <3>2. \A j \in Caller : Saves(j) => call[j].msg \notin Messages(c)
      BY <1>1 DEF SavedOnce, Messages
    <3> QED BY <1>2, <2>3, <3>1, <3>2 DEF SavedOnce
  <2>8. NumbersBelowCount'
    BY <1>2, <2>3 DEF NumbersBelowCount
  <2>9. FoundWasLive'
    BY <1>1, <1>2, <1>4, <2>3 DEF FoundWasLive, Knows
  <2>10. TitleIsSet'
    <3>1. title[c] = NoMsg => Messages(c) \subseteq Blank
      BY <1>1, <1>4 DEF TitleIsSet, Messages
    <3>2. ASSUME NEW j \in Caller, Knows(j)'
          PROVE  /\ call'[j].untitled => call'[j].after \subseteq Blank
                 /\ (~call'[j].untitled /\ conversation[call'[j].conv] = "live") =>
                       title[call'[j].conv] # NoMsg
      <4>1. CASE j = k
        BY <2>3, <3>1, <4>1
      <4>2. CASE j # k
        <5>1. call'[j] = call[j] /\ Knows(j)
          BY <2>3, <3>2, <4>2 DEF Knows
        <5> QED BY <5>1 DEF TitleIsSet
      <4> QED BY <4>1, <4>2
    <3> QED BY <1>2, <3>2 DEF TitleIsSet
  <2>11. RestoredInOrder'
    <3>1. \A j \in Caller : call'[j].restored = call[j].restored
      BY <2>3
    <3> QED BY <3>1 DEF RestoredInOrder
  <2>12. TitleOfFirstMessage' /\ OrphansOverlapDelete'
    BY <1>2 DEF TitleOfFirstMessage, OrphansOverlapDelete, Messages
  <2> QED BY <2>4, <2>5, <2>6, <2>7, <2>8, <2>9, <2>10, <2>11, <2>12
<1> QED BY <1>3, <1>4

\* Its second read: the count is above the numbers of all it found, also when
\* rows were added in between.
LEMMA AppendCountsKeeps ==
    ASSUME IInv, NEW k \in Caller, AppendCounts(k)
    PROVE  IInv'
<1> USE DEF IInv
<1> DEFINE c == call[k].conv
           n == Cardinality(rows[c])
<1>1. c \in Conv /\ call[k].at = "found" /\ call[k].restored = <<>>
  BY DEF AppendCounts, TypeOK, ReadByNeed, Answered, At
<1>2. UNCHANGED <<conversation, title, rows, sent, underway>>
  BY DEF AppendCounts
<1>3. n \in Nat
  BY <1>1, FS_CardinalityType DEF RowsFinite
<1>4. /\ call' \in [Caller -> Call]
      /\ call'[k].at = "counted" /\ call'[k].seq = n
      /\ call'[k].untitled = call[k].untitled /\ call'[k].after = call[k].after
      /\ call'[k].conv = c /\ call'[k].msg = call[k].msg
      /\ call'[k].restored = call[k].restored
      /\ \A j \in Caller \ {k} : call'[j] = call[j]
  <2>1. call' = [call EXCEPT ![k] = [@ EXCEPT !.at = "counted", !.seq = n]]
    BY DEF AppendCounts
  <2> HIDE DEF n
  <2> QED BY <1>3, <2>1, CountedTyped
<1> HIDE DEF n
<1>5. TypeOK'
  <2>1. \A j \in Caller :
           /\ call'[j].at \in At \ ({"idle", "create"} \cup Answered) => call'[j].conv \in Conv
           /\ call'[j].at \in {"append", "found", "counted"} => call'[j].msg \in sent
    BY <1>1, <1>4 DEF TypeOK
  <2> QED BY <1>2, <1>4, <2>1 DEF TypeOK
<1>6. RowsFinite' /\ RowsOrdered'
  BY <1>2 DEF RowsFinite, RowsOrdered
<1>7. SeenIsSent' /\ ReadByNeed'
  BY <1>1, <1>2, <1>4 DEF SeenIsSent, ReadByNeed, Knows
<1>8. SavedOnce'
  <2>1. \A j \in Caller : Saves(j)' => Saves(j) /\ call'[j].msg = call[j].msg
    BY <1>1, <1>4 DEF Saves
  <2>2. \A j \in Caller : call'[j].after = call[j].after
    BY <1>4
  <2> QED BY <1>2, <2>1, <2>2 DEF SavedOnce
<1>9. NumbersBelowCount'
  <2>1. \A r \in rows[c] : r.msg \in call[k].after => r.seq < n
    <3>1. CASE conversation[c] = "live"
      BY <1>1, <3>1 DEF NumbersBelowCount, n
    <3>2. CASE conversation[c] = "deleted"
      BY <1>1, <3>2 DEF FoundWasLive, Knows
    <3> QED BY <1>1, <3>1, <3>2 DEF FoundWasLive, Knows, TypeOK
  <2>2. n <= Cardinality(rows[c])
    BY <1>3 DEF n
  <2> QED BY <1>2, <1>4, <2>1, <2>2 DEF NumbersBelowCount
<1>10. FoundWasLive' /\ TitleIsSet'
  BY <1>1, <1>2, <1>4 DEF FoundWasLive, TitleIsSet, Knows
<1>11. RestoredInOrder'
  <2>1. \A j \in Caller : call'[j].restored = call[j].restored
    BY <1>4
  <2> QED BY <2>1 DEF RestoredInOrder
<1>12. TitleOfFirstMessage' /\ OrphansOverlapDelete'
  BY <1>2 DEF TitleOfFirstMessage, OrphansOverlapDelete, Messages
<1> QED BY <1>5, <1>6, <1>7, <1>8, <1>9, <1>10, <1>11, <1>12

\* The row a save writes: its message is in no row and was read by nobody, so
\* whatever order the other saves took, the new row disturbs none of them.
LEMMA RowWrittenKeeps ==
    ASSUME IInv, NEW k \in Caller, call[k].at = "counted",
           Titles(k) => conversation[call[k].conv] = "live",
           title' = [title EXCEPT ![call[k].conv] =
                        IF Titles(k) THEN call[k].msg ELSE @],
           rows' = [rows EXCEPT ![call[k].conv] = @ \cup {NewRow(k)}],
           Answers(k, "ok", call[k].conv, <<>>),
           UNCHANGED <<conversation, sent, underway>>
    PROVE  IInv'
<1> USE DEF IInv
<1> DEFINE c == call[k].conv
           new == NewRow(k)
<1>1. c \in Conv /\ call[k] \in Call /\ call[k].msg \in sent
      /\ Saves(k) /\ Knows(k)
  BY DEF TypeOK, Answered, At, Saves, Knows
<1>2. /\ call' \in [Caller -> Call] /\ \A j \in Caller \ {k} : call'[j] = call[j]
      /\ call'[k].at = "ok" /\ call'[k].after = {} /\ call'[k].restored = <<>>
  BY <1>1, AnswerTyped, EmptyTyped DEF Answered
<1>3. new \in Row /\ new.msg = call[k].msg /\ new.seq = call[k].seq /\ new.after = call[k].after
  BY <1>1 DEF NewRow, Row, Call, TypeOK
<1>4. /\ rows'[c] = rows[c] \cup {new}
      /\ \A d \in Conv \ {c} : rows'[d] = rows[d]
      /\ rows' \in [Conv -> SUBSET Row]
  BY <1>1, <1>3 DEF TypeOK
<1>5. /\ title'[c] = IF Titles(k) THEN call[k].msg ELSE title[c]
      /\ \A d \in Conv \ {c} : title'[d] = title[d]
      /\ title' \in [Conv -> Msg \cup {NoMsg}]
  BY <1>1 DEF TypeOK
<1>6. /\ \A d \in Conv : \A r \in rows[d] : r.msg # new.msg /\ new.msg \notin r.after
      /\ \A j \in Caller : new.msg \notin call[j].after
  BY <1>1, <1>3 DEF SavedOnce
<1>7. /\ Cardinality(rows[c]) \in Nat
      /\ Cardinality(rows'[c]) = Cardinality(rows[c]) + 1
      /\ IsFiniteSet(rows'[c])
  <2>1. IsFiniteSet(rows[c]) /\ new \notin rows[c]
    BY <1>1, <1>6 DEF RowsFinite
  <2> HIDE DEF new
  <2> QED BY <1>4, <2>1, FS_CardinalityType, FS_AddElement
<1>8. \A j \in Caller : (Saves(j)' \/ Knows(j)') => j # k /\ call'[j] = call[j]
  BY <1>2 DEF Saves, Knows
<1> HIDE DEF new
<1>9. TypeOK'
  <2>1. \A j \in Caller :
           /\ call'[j].at \in At \ ({"idle", "create"} \cup Answered) => call'[j].conv \in Conv
           /\ call'[j].at \in {"append", "found", "counted"} => call'[j].msg \in sent
    BY <1>2 DEF TypeOK, Answered
  <2> QED BY <1>2, <1>4, <1>5, <2>1 DEF TypeOK
<1>10. RowsFinite'
  BY <1>4, <1>7 DEF RowsFinite
<1>11. SeenIsSent' /\ ReadByNeed'
  <2>1. new.msg \in sent /\ new.after \subseteq sent
    BY <1>1, <1>3 DEF SeenIsSent
  <2>2. \A d \in Conv : \A r \in rows'[d] : r.msg \in sent /\ r.after \subseteq sent
    BY <1>4, <2>1 DEF SeenIsSent
  <2>3. \A j \in Caller : call'[j].after \subseteq sent
    BY <1>2 DEF SeenIsSent
  <2>4. ReadByNeed'
    BY <1>2 DEF ReadByNeed, Knows
  <2> QED BY <2>2, <2>3, <2>4 DEF SeenIsSent
<1>12. SavedOnce'
  <2> SUFFICES ASSUME NEW j \in Caller, Saves(j)'
               PROVE  /\ call'[j].msg \in sent
                      /\ \A d \in Conv : \A r \in rows'[d] :
                            r.msg # call'[j].msg /\ call'[j].msg \notin r.after
                      /\ \A i \in Caller : call'[j].msg \notin call'[i].after
                      /\ \A i \in Caller : (Saves(i)' /\ call'[i].msg = call'[j].msg) => i = j
    BY DEF SavedOnce
  <2>1. j # k /\ call'[j] = call[j] /\ Saves(j)
    BY <1>8 DEF Saves
  <2>2. new.msg # call[j].msg /\ call[j].msg \notin new.after
    BY <1>1, <1>3, <2>1 DEF SavedOnce
  <2>3. \A d \in Conv : \A r \in rows'[d] : r.msg # call[j].msg /\ call[j].msg \notin r.after
    BY <1>4, <2>1, <2>2 DEF SavedOnce
  <2>4. \A i \in Caller : call[j].msg \notin call'[i].after
    BY <1>2, <2>1 DEF SavedOnce
  <2>5. \A i \in Caller : (Saves(i)' /\ call'[i].msg = call[j].msg) => i = j
    BY <1>8, <2>1 DEF SavedOnce, Saves
  <2> QED BY <2>1, <2>3, <2>4, <2>5 DEF SavedOnce
<1>13. RowsOrdered'
  <2> SUFFICES ASSUME NEW d \in Conv, NEW r1 \in rows'[d], NEW r2 \in rows'[d],
                      r2.msg \in r1.after
               PROVE  r2.seq < r1.seq
    BY DEF RowsOrdered
  <2>1. r2 # new \/ d # c
    BY <1>3, <1>4, <1>6
  <2>2. r2 \in rows[d]
    BY <1>4, <2>1
  <2>3. CASE r1 \in rows[d]
    BY <2>2, <2>3 DEF RowsOrdered
  <2>4. CASE r1 = new /\ d = c
    BY <1>3, <2>2, <2>4 DEF NumbersBelowCount
  <2> QED BY <1>4, <2>3, <2>4
<1>14. NumbersBelowCount'
  <2>1. new.seq \in Nat
    BY <1>3 DEF Row
  <2>2. ASSUME NEW d \in Conv, conversation[d] = "live", NEW r \in rows'[d]
        PROVE  r.seq < Cardinality(rows'[d])
    <3>1. CASE d # c
      BY <1>4, <2>2, <3>1 DEF NumbersBelowCount
    <3>2. CASE d = c /\ r \in rows[c]
      <4>1. r.seq < Cardinality(rows[c]) /\ r.seq \in Nat
        BY <1>1, <2>2, <3>2 DEF NumbersBelowCount, TypeOK, Row
      <4> QED BY <1>7, <3>2, <4>1
    <3>3. CASE d = c /\ r = new
      <4>1. new.seq <= Cardinality(rows[c])
        BY <1>3, <2>2, <3>3 DEF NumbersBelowCount
      <4> QED BY <1>7, <2>1, <3>3, <4>1
    <3> QED BY <1>4, <3>1, <3>2, <3>3
  <2>3. ASSUME NEW j \in Caller, call'[j].at = "counted"
        PROVE  /\ conversation[call'[j].conv] = "live" =>
                     call'[j].seq <= Cardinality(rows'[call'[j].conv])
               /\ \A r \in rows'[call'[j].conv] : r.msg \in call'[j].after => r.seq < call'[j].seq
    <3>1. call'[j] = call[j] /\ call[j].conv \in Conv /\ call[j].at = "counted"
          /\ call[j].seq \in Nat
      BY <1>2, <2>3 DEF TypeOK, Answered, At, Call
    <3>2. conversation[call[j].conv] = "live" => call[j].seq <= Cardinality(rows[call[j].conv])
      BY <3>1 DEF NumbersBelowCount
    <3>3. conversation[call[j].conv] = "live" => call[j].seq <= Cardinality(rows'[call[j].conv])
      <4>1. CASE call[j].conv # c
        BY <1>4, <3>1, <3>2, <4>1
      <4>2. CASE call[j].conv = c
        BY <1>7, <3>1, <3>2, <4>2
      <4> QED BY <4>1, <4>2
    <3>4. \A r \in rows'[call[j].conv] : r.msg \in call[j].after => r.seq < call[j].seq
      BY <1>4, <1>6, <3>1 DEF NumbersBelowCount
    <3> QED BY <3>1, <3>3, <3>4
  <2> QED BY <2>2, <2>3 DEF NumbersBelowCount
<1>15. FoundWasLive'
  <2>1. ASSUME NEW j \in Caller, Knows(j)'
        PROVE  /\ conversation[call'[j].conv] # "none"
               /\ conversation[call'[j].conv] = "deleted" =>
                     /\ call'[j].msg \in underway[call'[j].conv]
                     /\ \A r \in rows'[call'[j].conv] : r.msg \notin call'[j].after
    <3>1. call'[j] = call[j] /\ Knows(j) /\ call[j].conv \in Conv
      BY <1>8, <2>1 DEF Knows, TypeOK, Answered, At
    <3> QED BY <1>4, <1>6, <3>1 DEF FoundWasLive
  <2>2. \A j \in Caller : call'[j].at = "deleting" => conversation[call'[j].conv] # "none"
    BY <1>2 DEF FoundWasLive
  <2>3. \A d \in Conv : conversation[d] = "none" => rows'[d] = {}
    BY <1>1, <1>4 DEF FoundWasLive
  <2> QED BY <2>1, <2>2, <2>3 DEF FoundWasLive
<1>16. TitleIsSet'
  <2>1. call[k].msg # NoMsg
    BY <1>1, StoreAssumption DEF TypeOK
  <2>2. ASSUME NEW d \in Conv, conversation[d] = "live", title'[d] = NoMsg, NEW r \in rows'[d]
        PROVE  r.msg \in Blank
    <3>1. title[d] = NoMsg /\ (d = c => ~Titles(k))
      BY <1>5, <2>1, <2>2
    <3>2. CASE r \in rows[d]
      BY <2>2, <3>1, <3>2 DEF TitleIsSet
    <3>3. CASE d = c /\ r = new
      BY <1>1, <1>3, <2>2, <3>1, <3>3 DEF TitleIsSet, Titles
    <3> QED BY <1>4, <2>2, <3>2, <3>3
  <2>3. \A d \in Conv : conversation[d] # "live" => title'[d] = NoMsg
    BY <1>5 DEF TitleIsSet
  <2>4. ASSUME NEW j \in Caller, Knows(j)'
        PROVE  /\ call'[j].untitled => call'[j].after \subseteq Blank
               /\ (~call'[j].untitled /\ conversation[call'[j].conv] = "live") =>
                     title'[call'[j].conv] # NoMsg
    <3>1. call'[j] = call[j] /\ Knows(j) /\ call[j].conv \in Conv
      BY <1>8, <2>4 DEF Knows, TypeOK, Answered, At
    <3> QED BY <1>5, <2>1, <3>1 DEF TitleIsSet
  <2> QED BY <2>2, <2>3, <2>4 DEF TitleIsSet
<1>17. RestoredInOrder'
  <2>1. \A i, j \in DOMAIN call'[k].restored :
           i < j => call'[k].restored[j].msg \notin call'[k].restored[i].after
    BY <1>2
  <2> QED BY <1>2, <2>1 DEF RestoredInOrder
<1>18. TitleOfFirstMessage'
  <2> SUFFICES ASSUME NEW d \in Conv, title'[d] # NoMsg
               PROVE  \E r \in rows'[d] : /\ r.msg = title'[d] /\ r.msg \notin Blank
                                          /\ r.after \subseteq Blank
    BY <1>16 DEF TitleOfFirstMessage, TitleIsSet, Messages
  <2>1. CASE title'[d] = title[d]
    BY <1>4, <2>1 DEF TitleOfFirstMessage
  <2>2. CASE title'[d] # title[d]
    <3>1. d = c /\ Titles(k) /\ title'[d] = new.msg
      BY <1>3, <1>5, <2>2
    <3>2. new.after \subseteq Blank /\ new.msg \notin Blank
      BY <1>1, <1>3, <3>1 DEF TitleIsSet, Titles
    <3> QED BY <1>4, <3>1, <3>2
  <2> QED BY <2>1, <2>2
<1>19. OrphansOverlapDelete'
  <2>1. conversation[c] = "deleted" => new.msg \in underway[c]
    BY <1>1, <1>3 DEF FoundWasLive
  <2> QED BY <1>4, <2>1 DEF OrphansOverlapDelete, Messages
<1> QED BY <1>9, <1>10, <1>11, <1>12, <1>13, <1>14, <1>15, <1>16, <1>17, <1>18, <1>19

\* Its commit adds the row, with the title if it found none (append_message).
LEMMA AppendWritesKeeps ==
    ASSUME IInv, NEW k \in Caller, AppendWrites(k)
    PROVE  IInv'
<1>1. call[k].at = "counted" /\ UNCHANGED <<conversation, sent, underway>>
  BY DEF AppendWrites
<1>2. CASE Answers(k, "failed", NoConv, <<>>) /\ UNCHANGED <<title, rows>>
  BY <1>1, <1>2, QuietAnswerKeeps DEF Answered
<1>3. CASE /\ Titles(k) => conversation[call[k].conv] = "live"
           /\ title' = [title EXCEPT ![call[k].conv] = IF Titles(k) THEN call[k].msg ELSE @]
           /\ rows' = [rows EXCEPT ![call[k].conv] = @ \cup {NewRow(k)}]
           /\ Answers(k, "ok", call[k].conv, <<>>)
  BY <1>1, <1>3, RowWrittenKeeps
<1> QED BY <1>2, <1>3 DEF AppendWrites

-----------------------------------------------------------------------------
(* A delete: the saves under way are the messages that may still appear.   *)

\* The commit of a delete: rows and title go, and who was saving is noted.
LEMMA DeleteWritesKeeps ==
    ASSUME IInv, NEW k \in Caller, DeleteWrites(k)
    PROVE  IInv'
<1> USE DEF IInv
<1> DEFINE c == call[k].conv
<1>1. c \in Conv /\ call[k].at = "deleting" /\ conversation[c] # "none"
  BY DEF DeleteWrites, TypeOK, FoundWasLive, Answered, At
<1>2. /\ call' \in [Caller -> Call] /\ \A j \in Caller \ {k} : call'[j] = call[j]
      /\ call'[k].at = "ok" /\ call'[k].after = {} /\ call'[k].restored = <<>>
  BY <1>1, AnswerTyped, EmptyTyped DEF DeleteWrites, Answered
<1>3. /\ rows' = [rows EXCEPT ![c] = {}]
      /\ title' = [title EXCEPT ![c] = NoMsg]
      /\ conversation' = [conversation EXCEPT ![c] = "deleted"]
      /\ underway' = [underway EXCEPT ![c] = IF conversation[c] = "live" THEN Saving(c) ELSE @]
      /\ sent' = sent
  BY DEF DeleteWrites
<1>4. /\ rows'[c] = {} /\ title'[c] = NoMsg /\ conversation'[c] = "deleted"
      /\ underway'[c] = IF conversation[c] = "live" THEN Saving(c) ELSE underway[c]
      /\ \A d \in Conv \ {c} : /\ rows'[d] = rows[d] /\ title'[d] = title[d]
                               /\ conversation'[d] = conversation[d]
                               /\ underway'[d] = underway[d]
  BY <1>1, <1>3 DEF TypeOK
<1>5. \A j \in Caller : (Saves(j)' \/ Knows(j)') =>
         j # k /\ call'[j] = call[j] /\ call[j].conv \in Conv
  BY <1>2 DEF Saves, Knows, TypeOK, Answered, At
<1>6. TypeOK'
  <2>1. Saving(c) \subseteq Msg
    BY DEF Saving, TypeOK
  <2>2. /\ rows' \in [Conv -> SUBSET Row] /\ title' \in [Conv -> Msg \cup {NoMsg}]
        /\ conversation' \in [Conv -> {"none", "live", "deleted"}]
        /\ underway' \in [Conv -> SUBSET Msg]
    BY <1>1, <1>3, <2>1 DEF TypeOK
  <2>3. \A j \in Caller :
           /\ call'[j].at \in At \ ({"idle", "create"} \cup Answered) => call'[j].conv \in Conv
           /\ call'[j].at \in {"append", "found", "counted"} => call'[j].msg \in sent
    BY <1>2 DEF TypeOK, Answered
  <2> QED BY <1>2, <1>3, <2>2, <2>3 DEF TypeOK
<1>7. RowsFinite'
  BY <1>4, FS_EmptySet DEF RowsFinite
<1>8. \A d \in Conv : rows'[d] \subseteq rows[d]
  BY <1>4
<1>9. SeenIsSent' /\ ReadByNeed' /\ RowsOrdered'
  BY <1>2, <1>3, <1>8 DEF SeenIsSent, ReadByNeed, RowsOrdered, Knows
<1>10. SavedOnce'
  <2>1. \A j \in Caller : Saves(j)' => Saves(j) /\ call'[j].msg = call[j].msg
    BY <1>2 DEF Saves
  <2>2. \A j \in Caller : call'[j].after \subseteq call[j].after
    BY <1>2
  <2> QED BY <1>3, <1>8, <2>1, <2>2 DEF SavedOnce
<1>11. NumbersBelowCount'
  <2>1. \A d \in Conv : conversation'[d] = "live" =>
           conversation[d] = "live" /\ rows'[d] = rows[d]
    BY <1>4
  <2>2. \A j \in Caller : call'[j].at = "counted" => call'[j] = call[j] /\ call[j].conv \in Conv
    BY <1>5 DEF Knows
  <2> QED BY <1>8, <2>1, <2>2 DEF NumbersBelowCount
<1>12. FoundWasLive'
  <2>1. ASSUME NEW j \in Caller, Knows(j)'
        PROVE  /\ conversation'[call'[j].conv] # "none"
               /\ conversation'[call'[j].conv] = "deleted" =>
                     /\ call'[j].msg \in underway'[call'[j].conv]
                     /\ \A r \in rows'[call'[j].conv] : r.msg \notin call'[j].after
    <3>1. call'[j] = call[j] /\ call[j].conv \in Conv /\ Knows(j)
      BY <1>5, <2>1 DEF Knows
    <3>2. CASE call[j].conv # c
      BY <1>4, <3>1, <3>2 DEF FoundWasLive
    <3>3. CASE call[j].conv = c /\ conversation[c] = "live"
      <4>1. call[j].msg \in Saving(c)
        BY <3>1, <3>3 DEF Saving, Knows
      <4> QED BY <1>4, <3>1, <3>3, <4>1
    <3>4. CASE call[j].conv = c /\ conversation[c] = "deleted"
      BY <1>4, <3>1, <3>4 DEF FoundWasLive
    <3> QED BY <1>1, <3>2, <3>3, <3>4 DEF TypeOK
  <2>2. \A j \in Caller : call'[j].at = "deleting" => conversation'[call'[j].conv] # "none"
    <3> SUFFICES ASSUME NEW j \in Caller, call'[j].at = "deleting"
                 PROVE  conversation'[call'[j].conv] # "none"
      OBVIOUS
    <3>1. j # k /\ call'[j] = call[j] /\ call[j].conv \in Conv
      BY <1>2 DEF TypeOK, Answered, At
    <3> QED BY <1>4, <3>1 DEF FoundWasLive
  <2>3. \A d \in Conv : conversation'[d] = "none" => rows'[d] = {}
    BY <1>4 DEF FoundWasLive
  <2> QED BY <2>1, <2>2, <2>3 DEF FoundWasLive
<1>13. TitleIsSet'
  <2>1. \A d \in Conv : (conversation'[d] = "live" /\ title'[d] = NoMsg) =>
           \A r \in rows'[d] : r.msg \in Blank
    BY <1>4 DEF TitleIsSet
  <2>2. \A d \in Conv : conversation'[d] # "live" => title'[d] = NoMsg
    BY <1>4 DEF TitleIsSet
  <2>3. \A j \in Caller : Knows(j)' =>
           /\ call'[j].untitled => call'[j].after \subseteq Blank
           /\ (~call'[j].untitled /\ conversation'[call'[j].conv] = "live") =>
                 title'[call'[j].conv] # NoMsg
    BY <1>4, <1>5 DEF TitleIsSet, Knows
  <2> QED BY <2>1, <2>2, <2>3 DEF TitleIsSet
<1>14. RestoredInOrder'
  <2>1. \A i, j \in DOMAIN call'[k].restored :
           i < j => call'[k].restored[j].msg \notin call'[k].restored[i].after
    BY <1>2
  <2> QED BY <1>2, <2>1 DEF RestoredInOrder
<1>15. TitleOfFirstMessage'
  <2>1. \A d \in Conv : title'[d] # NoMsg => title'[d] = title[d] /\ rows'[d] = rows[d]
    BY <1>4
  <2>2. \A d \in Conv : (title'[d] = NoMsg /\ conversation'[d] = "live") =>
           \A r \in rows'[d] : r.msg \in Blank
    BY <1>13 DEF TitleIsSet
  <2> QED BY <2>1, <2>2 DEF TitleOfFirstMessage, Messages
<1>16. OrphansOverlapDelete'
  <2> SUFFICES ASSUME NEW d \in Conv, conversation'[d] = "deleted"
               PROVE  { r.msg : r \in rows'[d] } \subseteq underway'[d]
    BY DEF OrphansOverlapDelete, Messages
  <2>1. CASE d = c
    BY <1>4, <2>1
  <2>2. CASE d # c
    BY <1>4, <2>2 DEF OrphansOverlapDelete, Messages
  <2> QED BY <2>1, <2>2
<1> QED BY <1>6, <1>7, <1>9, <1>10, <1>11, <1>12, <1>13, <1>14, <1>15, <1>16

-----------------------------------------------------------------------------

\* Every request, every step between two awaits, every failure keeps it.
THEOREM StepKeeps == IInv /\ [Next]_store => IInv'
<1> SUFFICES ASSUME IInv, [Next]_store PROVE IInv'
  OBVIOUS
<1>1. ASSUME NEW k \in Caller, Ask(k)
      PROVE  IInv'
  BY <1>1, AskKeeps
<1>2. ASSUME NEW k \in Caller, HandlerStep(k)
      PROVE  IInv'
  BY <1>2, CreateKeeps, AppendFindsKeeps, AppendCountsKeeps, AppendWritesKeeps,
     DeleteFindsKeeps, DeleteWritesKeeps, GetFindsKeeps, GetReadsKeeps DEF HandlerStep
<1>3. ASSUME NEW k \in Caller, CallFails(k) \/ Returns(k)
      PROVE  IInv'
  BY <1>3, CallFailsKeeps, ReturnsKeeps
<1>4. CASE UNCHANGED store
  <2>1. UNCHANGED <<conversation, title, rows, call, sent, underway>>
    BY <1>4 DEF store
  <2>2. (TypeOK /\ RowsFinite /\ SeenIsSent /\ ReadByNeed /\ SavedOnce)'
    BY <2>1 DEF IInv, TypeOK, RowsFinite, SeenIsSent, ReadByNeed, SavedOnce, Saves, Knows
  <2>3. (RowsOrdered /\ NumbersBelowCount /\ FoundWasLive /\ TitleIsSet)'
    BY <2>1 DEF IInv, RowsOrdered, NumbersBelowCount, FoundWasLive, TitleIsSet, Knows
  <2>4. (RestoredInOrder /\ TitleOfFirstMessage /\ OrphansOverlapDelete)'
    BY <2>1 DEF IInv, RestoredInOrder, TitleOfFirstMessage, OrphansOverlapDelete, Messages
  <2> QED BY <2>2, <2>3, <2>4 DEF IInv
<1> QED BY <1>1, <1>2, <1>3, <1>4 DEF Next

\* Every reachable state of the store satisfies the inductive invariant.
THEOREM Inductive == Spec => []IInv
BY InitEstablishes, StepKeeps, PTL DEF Spec

\* The store's variables keep their types (TypeOK) for any number of clients,
\* conversations and messages.
THEOREM StoreTypeCorrect == Spec => []TypeOK
<1>1. IInv => TypeOK
  BY DEF IInv
<1> QED BY <1>1, Inductive, PTL

\* get_detail never puts a message before one that was stored when its save
\* began, although append_message numbers by count and numbers repeat.
THEOREM RestoredInOrderHolds == Spec => []RestoredInOrder
<1>1. IInv => RestoredInOrder
  BY DEF IInv
<1> QED BY <1>1, Inductive, PTL

\* A title is the text of a message whose save found the conversation empty.
THEOREM TitleOfFirstMessageHolds == Spec => []TitleOfFirstMessage
<1>1. IInv => TitleOfFirstMessage
  BY DEF IInv
<1> QED BY <1>1, Inductive, PTL

\* Rows left under a deleted conversation were being saved when it was deleted.
THEOREM OrphansOverlapDeleteHolds == Spec => []OrphansOverlapDelete
<1>1. IInv => OrphansOverlapDelete
  BY DEF IInv
<1> QED BY <1>1, Inductive, PTL

-----------------------------------------------------------------------------
(* The console and the store.                                              *)

\* What each client of the store may ask of it.
Kinds ==
    /\ \A s \in Side :
          /\ sender[s] \in {"idle", "translating", "shown"} => call[s].at = "idle"
          /\ sender[s] = "creating" => call[s].at \in {"create"} \cup Answered
          /\ sender[s] = "saving" => call[s].at \in {"append", "found", "counted"} \cup Answered
    /\ call[Opener].at \in {"idle", "get", "reading"} \cup Answered
    /\ call[Remover].at \in {"idle", "delete", "deleting"} \cup Answered

\* The console and the store speak of conversations that were created.
KnownCalls ==
    /\ convId \in Known \cup {NoConv}
    /\ \A k \in Caller :
          /\ call[k].conv \in Known \cup {NoConv}
          /\ call[k].at = "ok" => call[k].conv \in Known

\* A message that is being sent is this console's, another on each side, and
\* not sent to the store before it is saved.
OwnMessages ==
    /\ \A s \in Side : sender[s] # "idle" =>
          /\ saying[s] \in own
          /\ sender[s] # "saving" => saying[s] \notin sent
          /\ Saves(s) => call[s].msg = saying[s]
          /\ \A t \in Side : (sender[t] # "idle" /\ saying[t] = saying[s]) => t = s
    /\ Saves(Other) => call[Other].msg \notin own

Holds(c, m) == \E r \in rows[c] : r.msg = m
Stored(m) == \E c \in Conv : Holds(c, m)
Restored(m) == \E i \in DOMAIN call[Opener].restored : call[Opener].restored[i].msg = m

\* A message is stored in one conversation.
StoredOnce == \A m \in Msg : \A c, d \in Conv : (Holds(c, m) /\ Holds(d, m)) => c = d

\* While steps are calm a message being saved is on the screen, and goes to the
\* open conversation or to the one that is being created for it.
CalmSends ==
    calm => \A s \in Side :
        /\ sender[s] \in {"shown", "creating", "saving"} => saying[s] \in screen
        /\ sender[s] = "creating" =>
              /\ convId = NoConv
              /\ \A t \in Side : sender[t] = "creating" => t = s
              /\ call[s].at = "ok" => \A m \in own : ~Holds(call[s].conv, m)
        /\ sender[s] = "saving" => convId # NoConv
        /\ Saves(s) => call[s].conv = convId

\* And nothing is sent while a conversation is opened, so what was read of this
\* console's messages is what is stored.
CalmOpens ==
    (calm /\ call[Opener].at # "idle") =>
        /\ Quiet
        /\ call[Opener].at = "ok" =>
              \A m \in own : (Restored(m) /\ Stored(m)) <=> Holds(call[Opener].conv, m)

\* CalmScreenIsConversation, message by message.
CalmScreen ==
    calm => \A m \in own :
        (m \in screen /\ Stored(m)) <=> (convId # NoConv /\ Holds(convId, m))

HInv ==
    /\ HistoryTypeOK
    /\ Kinds /\ KnownCalls /\ OwnMessages /\ StoredOnce
    /\ CalmSends /\ CalmOpens /\ CalmScreen

-----------------------------------------------------------------------------
(* What the steps of the store do to its requests and rows.                *)

\* The requests of the sides, and of opening, removing and the other console, are
\* different ones.
LEMMA Names ==
    /\ \A s \in Side : s \in Caller /\ s # Opener /\ s # Remover /\ s # Other
    /\ {Opener, Remover, Other} \subseteq Caller
    /\ Opener # Remover /\ Opener # Other /\ Remover # Other
BY HistoryAssumption

\* A request goes through its own steps only, and keeps what it is about.
Moves(k) ==
    /\ \A j \in Caller \ {k} : call'[j] = call[j]
    /\ ~Free(k) /\ call'[k].at # "idle"
    /\ call[k].at = "create" => call'[k].at \in Answered
    /\ Saves(k) => call'[k].at \in {"append", "found", "counted"} \cup Answered
    /\ call[k].at \in {"delete", "deleting"} => call'[k].at \in {"deleting"} \cup Answered
    /\ call[k].at \in {"get", "reading"} => call'[k].at \in {"reading"} \cup Answered
    /\ call'[k].at \in {"append", "found", "counted"} =>
          Saves(k) /\ call'[k].conv = call[k].conv /\ call'[k].msg = call[k].msg

\* Conversations stay known, and an answer names one of them or none.
StaysKnown(k) ==
    /\ Known \subseteq Known'
    /\ call'[k].conv \in Known' \cup {NoConv}
    /\ call'[k].at = "ok" => call'[k].conv \in Known'

\* The rows stay, or a save ends with one more, or a delete with none.
RowsStay == rows' = rows

RowWritten(k) ==
    /\ Saves(k) /\ call'[k].at \in Answered /\ call[k].conv \in Conv
    /\ \A d \in Conv, m \in Msg :
          Holds(d, m)' <=> (Holds(d, m) \/ (d = call[k].conv /\ m = call[k].msg))

RowsDeleted(k) ==
    /\ call[k].at = "deleting"
    /\ \A d \in Conv, m \in Msg : Holds(d, m)' <=> (Holds(d, m) /\ d # call[k].conv)

\* A conversation that is created is empty, and what is restored is what it holds.
CreatedEmpty(k) ==
    (call[k].at = "create" /\ call'[k].at = "ok") => rows'[call'[k].conv] = {}

ReadsAll(k) ==
    (call[k].at \in {"get", "reading"} /\ call'[k].at = "ok") =>
        \A m \in Msg :
            (\E i \in DOMAIN call'[k].restored : call'[k].restored[i].msg = m)
            <=> \E r \in rows'[call'[k].conv] : r.msg = m

Effect(k) ==
    /\ Moves(k) /\ StaysKnown(k) /\ sent' = sent
    /\ RowsStay \/ RowWritten(k) \/ RowsDeleted(k)
    /\ CreatedEmpty(k) /\ ReadsAll(k)

\* An answer with nothing to read.
LEMMA AnswerEffect ==
    ASSUME IInv, NEW k \in Caller, ~Free(k), NEW status \in {"missing", "failed"},
           Answers(k, status, NoConv, <<>>), UNCHANGED <<conversation, title, rows, sent, underway>>
    PROVE  Effect(k)
<1>1. call' = [call EXCEPT ![k] = Request(status, NoConv, NoMsg, <<>>)]
  BY DEF Answers
<1>2. /\ call'[k].at = status /\ call'[k].conv = NoConv
      /\ \A j \in Caller \ {k} : call'[j] = call[j]
  BY <1>1 DEF IInv, TypeOK, Request
<1>3. Moves(k)
  BY <1>2 DEF Moves, Answered
<1>4. StaysKnown(k)
  BY <1>2 DEF StaysKnown, Known
<1>5. RowsStay /\ CreatedEmpty(k) /\ ReadsAll(k)
  BY <1>2 DEF RowsStay, CreatedEmpty, ReadsAll
<1> QED BY <1>3, <1>4, <1>5 DEF Effect

\* Creating gives out a conversation that holds nothing.
LEMMA CreateEffect == ASSUME IInv, NEW k \in Caller, Create(k) PROVE Effect(k)
<1>1. PICK c \in Conv :
         /\ conversation[c] = "none"
         /\ conversation' = [conversation EXCEPT ![c] = "live"]
         /\ call' = [call EXCEPT ![k] = Request("ok", c, NoMsg, <<>>)]
  BY DEF Create, Answers
<1>2. call[k].at = "create" /\ UNCHANGED <<rows, sent>>
  BY DEF Create
<1>3. /\ call'[k].at = "ok" /\ call'[k].conv = c
      /\ \A j \in Caller \ {k} : call'[j] = call[j]
  BY <1>1 DEF IInv, TypeOK, Request
<1>4. Moves(k)
  BY <1>2, <1>3 DEF Moves, Answered, Free, Saves
<1>5. StaysKnown(k)
  BY <1>1, <1>3 DEF StaysKnown, Known, IInv, TypeOK
<1>6. RowsStay /\ CreatedEmpty(k) /\ ReadsAll(k)
  BY <1>1, <1>2, <1>3 DEF RowsStay, CreatedEmpty, ReadsAll, IInv, FoundWasLive
<1> QED BY <1>2, <1>4, <1>5, <1>6 DEF Effect

\* A save that goes on with what it read.
LEMMA SaveGoesOnEffect ==
    ASSUME IInv, NEW k \in Caller, Saves(k), call[k].conv \in Known \cup {NoConv},
           \A j \in Caller \ {k} : call'[j] = call[j],
           call'[k].at \in {"found", "counted"},
           call'[k].conv = call[k].conv, call'[k].msg = call[k].msg,
           UNCHANGED <<conversation, rows, sent>>
    PROVE  Effect(k)
<1>1. Moves(k)
  BY DEF Moves, Saves, Free, Answered
<1>2. StaysKnown(k)
  BY DEF StaysKnown, Known
<1>3. RowsStay /\ CreatedEmpty(k) /\ ReadsAll(k)
  BY DEF RowsStay, CreatedEmpty, ReadsAll
<1> QED BY <1>1, <1>2, <1>3 DEF Effect

\* A save that reads its conversation goes on or is told there is none.
LEMMA AppendFindsEffect ==
    ASSUME IInv, NEW k \in Caller, call[k].conv \in Known \cup {NoConv}, AppendFinds(k)
    PROVE  Effect(k)
<1> DEFINE c == call[k].conv
<1>1. call[k].at = "append" /\ UNCHANGED <<conversation, title, rows, sent, underway>>
  BY DEF AppendFinds
<1>2. CASE conversation[c] # "live"
  BY <1>1, <1>2, AnswerEffect DEF AppendFinds, Free, Answered
<1>3. CASE conversation[c] = "live"
  <2>1. call' = [call EXCEPT ![k] = [@ EXCEPT !.at = "found", !.untitled = (title[c] = NoMsg),
                                              !.after = Messages(c)]]
    BY <1>3 DEF AppendFinds
  <2>2. Messages(c) \in SUBSET Msg
    BY <1>1 DEF IInv, Messages, SeenIsSent, TypeOK, At, Answered
  <2>3. /\ call'[k].at = "found" /\ call'[k].conv = c /\ call'[k].msg = call[k].msg
        /\ \A j \in Caller \ {k} : call'[j] = call[j]
    <3> DEFINE untitled == (title[c] = NoMsg)
               found == Messages(c)
    <3>1. /\ TypeOK /\ untitled \in BOOLEAN /\ found \in SUBSET Msg
          /\ call' = [call EXCEPT ![k] = [@ EXCEPT !.at = "found", !.untitled = untitled,
                                                   !.after = found]]
      BY <2>1, <2>2 DEF IInv
    <3> HIDE DEF untitled, found, c
    <3>2. /\ call'[k].at = "found" /\ call'[k].conv = call[k].conv /\ call'[k].msg = call[k].msg
          /\ \A j \in Caller \ {k} : call'[j] = call[j]
      BY <3>1, FoundTyped
    <3> QED BY <3>2 DEF c
  <2> QED BY <1>1, <2>3, SaveGoesOnEffect DEF Saves
<1> QED BY <1>2, <1>3

\* A save that counts goes on.
LEMMA AppendCountsEffect ==
    ASSUME IInv, NEW k \in Caller, call[k].conv \in Known \cup {NoConv}, AppendCounts(k)
    PROVE  Effect(k)
<1> DEFINE n == Cardinality(rows[call[k].conv])
<1>1. /\ call[k].at = "found" /\ UNCHANGED <<conversation, rows, sent>>
      /\ call' = [call EXCEPT ![k] = [@ EXCEPT !.at = "counted", !.seq = n]]
  BY DEF AppendCounts
<1>2. n \in Nat
  BY <1>1, FS_CardinalityType DEF IInv, RowsFinite, TypeOK, At, Answered
<1>3. /\ call'[k].at = "counted" /\ call'[k].conv = call[k].conv /\ call'[k].msg = call[k].msg
      /\ \A j \in Caller \ {k} : call'[j] = call[j]
  <2> HIDE DEF n
  <2> QED BY <1>1, <1>2, CountedTyped DEF IInv
<1> QED BY <1>1, <1>3, SaveGoesOnEffect DEF Saves

\* An answer that names the conversation of the request.
LEMMA OkEffect ==
    ASSUME IInv, NEW k \in Caller, NEW list, call[k].conv \in Known,
           Answers(k, "ok", call[k].conv, list)
    PROVE  /\ call'[k].at = "ok" /\ call'[k].conv = call[k].conv /\ call'[k].restored = list
           /\ \A j \in Caller \ {k} : call'[j] = call[j]
           /\ Known' = Known => StaysKnown(k)
<1>1. call' = [call EXCEPT ![k] = Request("ok", call[k].conv, NoMsg, list)]
  BY DEF Answers
<1>2. /\ call'[k].at = "ok" /\ call'[k].conv = call[k].conv /\ call'[k].restored = list
      /\ \A j \in Caller \ {k} : call'[j] = call[j]
  BY <1>1 DEF IInv, TypeOK, Request
<1> QED BY <1>2 DEF StaysKnown

\* A save that commits adds its one row or fails.
LEMMA AppendWritesEffect ==
    ASSUME IInv, NEW k \in Caller, AppendWrites(k)
    PROVE  Effect(k)
<1> DEFINE c == call[k].conv
<1>1. /\ call[k].at = "counted" /\ UNCHANGED <<conversation, sent, underway>>
      /\ c \in Conv /\ c \in Known /\ call[k].msg \in Msg
  BY DEF AppendWrites, IInv, TypeOK, FoundWasLive, Knows, Known, At, Answered
<1>2. CASE Answers(k, "failed", NoConv, <<>>) /\ UNCHANGED <<title, rows>>
  BY <1>1, <1>2, AnswerEffect DEF Free, Answered
<1>3. CASE /\ rows' = [rows EXCEPT ![c] = @ \cup {NewRow(k)}]
           /\ Answers(k, "ok", c, <<>>)
  <2>1. /\ call'[k].at = "ok" /\ call'[k].conv = c
        /\ \A j \in Caller \ {k} : call'[j] = call[j]
        /\ StaysKnown(k)
    <3>1. Known' = Known
      BY <1>1 DEF Known
    <3> QED BY <1>1, <1>3, <3>1, OkEffect
  <2>2. Moves(k)
    BY <1>1, <2>1 DEF Moves, Saves, Free, Answered
  <2>3. RowWritten(k)
    <3>1. NewRow(k).msg = call[k].msg
      BY DEF NewRow
    <3>2. rows'[c] = rows[c] \cup {NewRow(k)} /\ \A d \in Conv \ {c} : rows'[d] = rows[d]
      BY <1>1, <1>3 DEF IInv, TypeOK
    <3> HIDE DEF c
    <3>3. \A d \in Conv, m \in Msg :
             Holds(d, m)' <=> (Holds(d, m) \/ (d = c /\ m = call[k].msg))
      BY <3>1, <3>2 DEF Holds
    <3> QED BY <1>1, <2>1, <3>3 DEF RowWritten, Saves, Answered, c
  <2>4. CreatedEmpty(k) /\ ReadsAll(k)
    BY <1>1 DEF CreatedEmpty, ReadsAll
  <2> QED BY <1>1, <2>1, <2>2, <2>3, <2>4 DEF Effect
<1> QED BY <1>2, <1>3 DEF AppendWrites

\* A delete that commits empties its conversation.
LEMMA DeleteWritesEffect ==
    ASSUME IInv, NEW k \in Caller, DeleteWrites(k)
    PROVE  Effect(k)
<1> DEFINE c == call[k].conv
<1>1. /\ call[k].at = "deleting" /\ sent' = sent
      /\ c \in Conv /\ c \in Known
      /\ rows' = [rows EXCEPT ![c] = {}]
      /\ conversation' = [conversation EXCEPT ![c] = "deleted"]
      /\ Answers(k, "ok", c, <<>>)
  BY DEF DeleteWrites, IInv, TypeOK, FoundWasLive, Known, At, Answered
<1>2. Known' = Known
  BY <1>1 DEF Known, IInv, TypeOK
<1>3. /\ call'[k].at = "ok" /\ call'[k].conv = c
      /\ \A j \in Caller \ {k} : call'[j] = call[j]
      /\ StaysKnown(k)
  BY <1>1, <1>2, OkEffect
<1>4. Moves(k)
  BY <1>1, <1>3 DEF Moves, Saves, Free, Answered
<1>5. RowsDeleted(k)
  <2>1. rows'[c] = {} /\ \A d \in Conv \ {c} : rows'[d] = rows[d]
    BY <1>1 DEF IInv, TypeOK
  <2> QED BY <1>1, <2>1 DEF RowsDeleted, Holds
<1>6. CreatedEmpty(k) /\ ReadsAll(k)
  BY <1>1 DEF CreatedEmpty, ReadsAll
<1> QED BY <1>1, <1>3, <1>4, <1>5, <1>6 DEF Effect

\* The first read of a delete or of a restore.
LEMMA FindsEffect ==
    ASSUME IInv, NEW k \in Caller, call[k].conv \in Known \cup {NoConv},
           DeleteFinds(k) \/ GetFinds(k)
    PROVE  Effect(k)
<1>1. /\ call[k].at \in {"delete", "get"}
      /\ UNCHANGED <<conversation, title, rows, sent, underway>>
  BY DEF DeleteFinds, GetFinds
<1>2. CASE conversation[call[k].conv] # "live"
  <2>1. Answers(k, "missing", NoConv, <<>>)
    BY <1>2 DEF DeleteFinds, GetFinds
  <2> QED BY <1>1, <2>1, AnswerEffect DEF Free, Answered
<1>3. CASE conversation[call[k].conv] = "live"
  <2>1. PICK to \in {"deleting", "reading"} :
           Goes(k, to) /\ (call[k].at = "delete" <=> to = "deleting")
    BY <1>3 DEF DeleteFinds, GetFinds
  <2>2. call'[k] = [call[k] EXCEPT !.at = to] /\ \A j \in Caller \ {k} : call'[j] = call[j]
    BY <2>1, GoesTyped DEF IInv, At
  <2>3. call'[k].at = to /\ call'[k].conv = call[k].conv
    <3>1. call[k] \in Call
      BY DEF IInv, TypeOK
    <3> QED BY <2>2, <3>1 DEF Call
  <2>4. Moves(k)
    BY <1>1, <2>1, <2>2, <2>3 DEF Moves, Saves, Free, Answered
  <2>5. StaysKnown(k) /\ RowsStay /\ CreatedEmpty(k) /\ ReadsAll(k)
    BY <1>1, <2>1, <2>3 DEF StaysKnown, Known, RowsStay, CreatedEmpty, ReadsAll
  <2> QED BY <1>1, <2>4, <2>5 DEF Effect
<1> QED BY <1>2, <1>3

\* A list without repetition as long as the set it is from holds all of it.
LEMMA ListsAll ==
    ASSUME NEW R, IsFiniteSet(R), NEW list \in BySeq(R)
    PROVE  \A r \in R : \E i \in DOMAIN list : list[i] = r
<1> DEFINE n == Cardinality(R)
           image == { list[i] : i \in 1..n }
<1>1. n \in Nat
  BY FS_CardinalityType
<1>2. list \in [1..n -> R] /\ \A i, j \in DOMAIN list : list[i] = list[j] => i = j
  BY DEF BySeq, Injective
<1>3. DOMAIN list = 1..n /\ image \subseteq R
  BY <1>2
<1>4. IsFiniteSet(image) /\ Cardinality(image) <= n
  BY <1>3, FS_Subset
<1>5. Cardinality(image) = n
  <2>1. IsFiniteSet(1..n) /\ Cardinality(1..n) = n
    BY <1>1, FS_Interval
  <2>2. list \in Injection(1..n, image)
    BY <1>2, <1>3 DEF Injection, IsInjective
  <2>3. Cardinality(1..n) <= Cardinality(image)
    BY <1>4, <2>1, <2>2, FS_Injection
  <2> QED BY <1>1, <1>4, <2>1, <2>3, FS_CardinalityType
<1>6. image = R
  BY <1>3, <1>5, FS_Subset
<1> QED BY <1>3, <1>6

\* A restore is answered with all rows of its conversation.
LEMMA GetReadsEffect ==
    ASSUME IInv, NEW k \in Caller, call[k].conv \in Known \cup {NoConv}, GetReads(k)
    PROVE  Effect(k)
<1> DEFINE c == call[k].conv
<1>1. /\ call[k].at = "reading" /\ UNCHANGED <<conversation, title, rows, sent, underway>>
      /\ c \in Conv /\ c \in Known
  BY StoreAssumption DEF GetReads, IInv, TypeOK, Known, At, Answered
<1>2. PICK list \in BySeq(rows[c]) : Answers(k, "ok", c, list)
  BY DEF GetReads
<1>3. Known' = Known
  BY <1>1 DEF Known
<1>4. /\ call'[k].at = "ok" /\ call'[k].conv = c /\ call'[k].restored = list
      /\ \A j \in Caller \ {k} : call'[j] = call[j]
      /\ StaysKnown(k)
  BY <1>1, <1>2, <1>3, OkEffect
<1>5. Moves(k)
  BY <1>1, <1>4 DEF Moves, Saves, Free, Answered
<1>6. ReadsAll(k)
  <2>1. \A r \in rows[c] : \E i \in DOMAIN list : list[i] = r
    BY <1>1, ListsAll DEF IInv, RowsFinite
  <2>2. \A i \in DOMAIN list : list[i] \in rows[c]
    BY DEF BySeq
  <2> QED BY <1>1, <1>4, <2>1, <2>2 DEF ReadsAll
<1>7. RowsStay /\ CreatedEmpty(k)
  BY <1>1 DEF RowsStay, CreatedEmpty
<1> QED BY <1>1, <1>4, <1>5, <1>6, <1>7 DEF Effect

\* Every step of the store moves one request, and adds a row, empties a
\* conversation, or leaves the rows alone.
LEMMA HandlerEffect ==
    ASSUME IInv, KnownCalls, NEW k \in Caller, HandlerStep(k) \/ CallFails(k)
    PROVE  Effect(k)
<1>1. call[k].conv \in Known \cup {NoConv}
  BY DEF KnownCalls
<1>2. CASE CallFails(k)
  BY <1>2, AnswerEffect DEF CallFails
<1>3. CASE HandlerStep(k)
  BY <1>1, <1>3, CreateEffect, AppendFindsEffect, AppendCountsEffect, AppendWritesEffect,
     FindsEffect, DeleteWritesEffect, GetReadsEffect DEF HandlerStep
<1> QED BY <1>2, <1>3

-----------------------------------------------------------------------------
(* The store works while the console waits.                                *)

\* A step of the store keeps the console's invariant.
LEMMA StoreStepKeeps ==
    ASSUME IInv, HInv, NEW k \in Caller, StoreStep(k), TypeOK'
    PROVE  HInv'
<1> USE DEF HInv
<1>1. Effect(k) /\ UNCHANGED console
  BY HandlerEffect DEF StoreStep
<1>2. UNCHANGED <<convId, screen, sender, saying, own, calm, opens, changes>>
  BY <1>1 DEF console
<1>3. /\ Moves(k) /\ StaysKnown(k) /\ sent' = sent
      /\ RowsStay \/ RowWritten(k) \/ RowsDeleted(k)
      /\ CreatedEmpty(k) /\ ReadsAll(k)
  BY <1>1 DEF Effect
<1>4. own \subseteq Msg
  BY DEF HistoryTypeOK
<1>5. \A s \in Side : call'[s].at = "idle" <=> call[s].at = "idle"
  BY <1>3, Names DEF Moves, Free
<1>6. HistoryTypeOK'
  BY <1>2, <1>5 DEF HistoryTypeOK
<1>7. Kinds'
  BY <1>2, <1>3, Names DEF Kinds, Moves, Saves, Free, Answered
<1>8. KnownCalls'
  BY <1>2, <1>3 DEF KnownCalls, StaysKnown, Moves
<1>9. \A j \in Caller : Saves(j)' =>
         Saves(j) /\ call'[j].conv = call[j].conv /\ call'[j].msg = call[j].msg
  BY <1>3 DEF Moves, Saves
<1>10. OwnMessages'
  <2>1. Saves(Other)' => call'[Other].msg \notin own
    BY <1>9, Names DEF OwnMessages
  <2>2. ASSUME NEW s \in Side, sender[s] # "idle"
        PROVE  /\ saying[s] \in own
               /\ sender[s] # "saving" => saying[s] \notin sent
               /\ Saves(s)' => call'[s].msg = saying[s]
               /\ \A t \in Side : (sender[t] # "idle" /\ saying[t] = saying[s]) => t = s
    BY <1>9, <2>2, Names DEF OwnMessages
  <2> QED BY <1>2, <1>3, <2>1, <2>2 DEF OwnMessages
\* What the step does to the messages of this console, when it is calm.
<1>11. ASSUME RowWritten(k)
       PROVE  \/ k = Other /\ call[k].msg \notin own
              \/ /\ k \in Side /\ sender[k] = "saving" /\ call[k].msg = saying[k]
                 /\ calm => call[k].conv = convId /\ saying[k] \in screen
  <2>1. Saves(k)
    BY <1>11 DEF RowWritten
  <2>2. k \in Side \cup {Other}
    BY <2>1, HistoryAssumption DEF Kinds, Saves, Answered
  <2>3. CASE k = Other
    BY <2>1, <2>3 DEF OwnMessages
  <2>4. CASE k \in Side
    <3>1. sender[k] = "saving"
      BY <2>1, <2>4 DEF Kinds, Saves, Answered, HistoryTypeOK
    <3> QED BY <2>1, <2>4, <3>1 DEF OwnMessages, CalmSends
  <2> QED BY <2>2, <2>3, <2>4
<1>12. ASSUME RowWritten(k)
       PROVE  call[k].msg \in Msg /\ \A d \in Conv : ~Holds(d, call[k].msg)
  <2>1. Saves(k)
    BY <1>12 DEF RowWritten
  <2> QED BY <2>1 DEF IInv, SavedOnce, TypeOK, Holds, Saves
<1>13. StoredOnce'
  <2>1. CASE RowsStay
    BY <2>1 DEF StoredOnce, Holds, RowsStay
  <2>2. CASE RowWritten(k)
    BY <1>12, <2>2 DEF StoredOnce, RowWritten
  <2>3. CASE RowsDeleted(k)
    BY <2>3 DEF StoredOnce, RowsDeleted
  <2> QED BY <1>3, <2>1, <2>2, <2>3
\* Under calm steps of others the messages of this console stay as they are
\* stored, or go with their conversation.
<1>14. ASSUME calm, \A s \in Side : sender[s] # "saving"
       PROVE  \/ \A d \in Conv, m \in own : Holds(d, m)' <=> Holds(d, m)
              \/ RowsDeleted(k)
  <2>1. CASE RowsStay
    BY <2>1 DEF RowsStay, Holds
  <2>2. CASE RowWritten(k)
    <3>1. call[k].msg \notin own
      BY <1>11, <1>14, <2>2
    <3> QED BY <1>4, <2>2, <3>1 DEF RowWritten
  <2> QED BY <1>3, <2>1, <2>2
<1>15. CalmSends'
  <2> SUFFICES ASSUME calm, NEW s \in Side
               PROVE  /\ sender[s] \in {"shown", "creating", "saving"} => saying[s] \in screen
                      /\ sender[s] = "creating" =>
                            /\ convId = NoConv
                            /\ \A t \in Side : sender[t] = "creating" => t = s
                            /\ call'[s].at = "ok" =>
                                  \A m \in own : ~(\E r \in rows'[call'[s].conv] : r.msg = m)
                      /\ sender[s] = "saving" => convId # NoConv
                      /\ Saves(s)' => call'[s].conv = convId
    BY <1>2 DEF CalmSends, Holds
  <2>1. /\ sender[s] \in {"shown", "creating", "saving"} => saying[s] \in screen
        /\ sender[s] = "creating" =>
              /\ convId = NoConv
              /\ \A t \in Side : sender[t] = "creating" => t = s
        /\ sender[s] = "saving" => convId # NoConv
        /\ Saves(s)' => call'[s].conv = convId
    BY <1>9, Names DEF CalmSends
  <2>2. ASSUME sender[s] = "creating", call'[s].at = "ok", NEW m \in own
        PROVE  ~(\E r \in rows'[call'[s].conv] : r.msg = m)
    <3>1. CASE s = k
      <4>1. call[k].at = "create"
        BY <1>3, <2>2, <3>1 DEF Kinds, Moves, Free
      <4> QED BY <1>3, <2>2, <3>1, <4>1 DEF CreatedEmpty
    <3>2. CASE s # k
      <4>1. call'[s] = call[s]
        BY <1>3, <3>2, Names DEF Moves
      <4>2. PICK c \in Conv : c = call[s].conv
        BY <2>2, <4>1, Names DEF KnownCalls, Known
      <4>3. ~Holds(c, m)
        BY <2>2, <4>1, <4>2 DEF CalmSends
      <4>4. \A t \in Side : sender[t] # "saving"
        BY <2>2 DEF CalmSends
      <4>5. ~Holds(c, m)'
        BY <1>4, <1>14, <4>3, <4>4 DEF RowsDeleted
      <4> QED BY <4>1, <4>2, <4>5 DEF Holds
    <3> QED BY <3>1, <3>2
  <2> QED BY <2>1, <2>2
<1>16. ASSUME NEW m \in own, NEW c \in Conv, RowsDeleted(k), NEW P \in BOOLEAN,
              (P /\ Stored(m)) <=> Holds(c, m)
       PROVE  (P /\ Stored(m)') <=> Holds(c, m)'
  <2>1. Stored(m)' <=> \E d \in Conv : Holds(d, m)'
    BY DEF Stored
  <2>2. Stored(m) <=> \E d \in Conv : Holds(d, m)
    BY DEF Stored
  <2>3. \A d \in Conv : Holds(d, m)' <=> (Holds(d, m) /\ d # call[k].conv)
    BY <1>4, <1>16 DEF RowsDeleted
  <2>4. \A d \in Conv : (Holds(c, m) /\ Holds(d, m)) => c = d
    BY <1>4 DEF StoredOnce
  <2> QED BY <1>16, <2>1, <2>2, <2>3, <2>4
<1>17. ASSUME NEW m \in own, \A d \in Conv : Holds(d, m)' <=> Holds(d, m)
       PROVE  Stored(m)' <=> Stored(m)
  BY <1>17 DEF Stored
<1>18. CalmOpens'
  <2> SUFFICES ASSUME calm, call'[Opener].at # "idle"
               PROVE  /\ Quiet
                      /\ call'[Opener].at = "ok" =>
                            \A m \in own : (Restored(m)' /\ Stored(m)')
                                <=> \E r \in rows'[call'[Opener].conv] : r.msg = m
    BY <1>2 DEF CalmOpens, Quiet, Holds
  <2>1. call[Opener].at # "idle"
    BY <1>3, Names DEF Moves, Free
  <2>2. Quiet /\ \A s \in Side : sender[s] # "saving"
    BY <2>1 DEF CalmOpens, Quiet
  <2>3. ASSUME call'[Opener].at = "ok", NEW m \in own
        PROVE  (Restored(m)' /\ Stored(m)') <=> \E r \in rows'[call'[Opener].conv] : r.msg = m
    <3>1. PICK c \in Conv : c = call'[Opener].conv
      BY <1>3, <1>8, <2>3, Names DEF KnownCalls, Known
    <3>2. Holds(c, m)' <=> \E r \in rows'[call'[Opener].conv] : r.msg = m
      BY <3>1 DEF Holds
    <3>3. CASE k = Opener
      <4>1. call[Opener].at \in {"get", "reading"}
        BY <1>3, <2>1, <3>3 DEF Moves, Kinds, Free
      <4>2. Restored(m)' <=> Holds(c, m)'
        BY <1>3, <1>4, <2>3, <3>2, <3>3, <4>1 DEF ReadsAll, Restored
      <4>3. Holds(c, m)' => Stored(m)'
        BY DEF Stored
      <4> QED BY <3>2, <4>2, <4>3
    <3>4. CASE k # Opener
      <4>1. call'[Opener] = call[Opener]
        BY <1>3, <3>4, Names DEF Moves
      <4>2. (Restored(m) /\ Stored(m)) <=> Holds(c, m)
        BY <2>3, <3>1, <4>1, <2>1 DEF CalmOpens
      <4>3. Restored(m)' <=> Restored(m)
        BY <4>1 DEF Restored
      <4>4. CASE \A d \in Conv, x \in own : Holds(d, x)' <=> Holds(d, x)
        BY <1>17, <3>2, <4>2, <4>3, <4>4
      <4>5. CASE RowsDeleted(k)
        <5>1. Restored(m) \in BOOLEAN
          BY DEF Restored
        <5>2. (Restored(m) /\ Stored(m)') <=> Holds(c, m)'
          BY <1>16, <4>2, <4>5, <5>1
        <5> QED BY <3>2, <4>3, <5>2
      <4> QED BY <1>14, <2>2, <4>4, <4>5
    <3> QED BY <3>3, <3>4
  <2> QED BY <2>2, <2>3
<1>19. CalmScreen'
  <2> SUFFICES ASSUME calm, NEW m \in own
               PROVE  (m \in screen /\ Stored(m)')
                          <=> (convId # NoConv /\ \E r \in rows'[convId] : r.msg = m)
    BY <1>2 DEF CalmScreen, Holds
  <2>1. (m \in screen /\ Stored(m)) <=> (convId # NoConv /\ Holds(convId, m))
    BY DEF CalmScreen
  <2>2. CASE convId = NoConv
    <3>1. Stored(m)' => Stored(m) \/ (m = call[k].msg /\ RowWritten(k))
      BY <1>3, <1>4 DEF Stored, RowsStay, RowWritten, RowsDeleted, Holds
    <3>2. ~(m = call[k].msg /\ RowWritten(k))
      BY <1>11, <2>2 DEF CalmSends
    <3> QED BY <2>1, <2>2, <3>1, <3>2
  <2>3. CASE convId # NoConv
    <3>1. PICK c \in Conv : c = convId
      BY <2>3 DEF HistoryTypeOK
    <3>2. (m \in screen /\ Stored(m)) <=> Holds(c, m)
      BY <2>1, <2>3, <3>1
    <3>3. (m \in screen /\ Stored(m)') <=> Holds(c, m)'
      <4>1. CASE RowsStay
        <5>1. \A d \in Conv : Holds(d, m)' <=> Holds(d, m)
          BY <4>1 DEF RowsStay, Holds
        <5> QED BY <1>17, <3>2, <5>1
      <4>2. CASE RowsDeleted(k)
        <5>1. (m \in screen) \in BOOLEAN
          OBVIOUS
        <5> QED BY <1>16, <3>2, <4>2, <5>1
      <4>3. CASE RowWritten(k) /\ m # call[k].msg
        <5>1. \A d \in Conv : Holds(d, m)' <=> Holds(d, m)
          BY <1>4, <4>3 DEF RowWritten
        <5> QED BY <1>17, <3>2, <5>1
      <4>4. CASE RowWritten(k) /\ m = call[k].msg
        <5>1. call[k].conv = c /\ m \in screen
          BY <1>11, <3>1, <4>4
        <5>2. Holds(c, m)'
          BY <1>4, <4>4, <5>1 DEF RowWritten
        <5> QED BY <5>1, <5>2 DEF Stored
      <4> QED BY <1>3, <4>1, <4>2, <4>3, <4>4
    <3>4. Holds(c, m)' <=> \E r \in rows'[convId] : r.msg = m
      BY <1>2, <3>1 DEF Holds
    <3> QED BY <2>3, <3>3, <3>4
  <2> QED BY <2>2, <2>3
<1> QED BY <1>6, <1>7, <1>8, <1>10, <1>13, <1>15, <1>18, <1>19

-----------------------------------------------------------------------------
(* The console's own steps: the stored messages stay.                      *)

\* A request of client k is sent, or its answer has been used.
Requests(k) ==
    /\ \A j \in Caller \ {k} : call'[j] = call[j]
    /\ UNCHANGED <<conversation, rows>>

\* A request replaces the answer of the one before.
LEMMA AskEffect ==
    ASSUME IInv, NEW k \in Caller, NEW what \in {"create", "append", "delete", "get"},
           NEW c \in Conv \cup {NoConv}, NEW m \in Msg \cup {NoMsg}, Asks(k, what, c, m)
    PROVE  /\ \A j \in Caller \ {k} : call'[j] = call[j]
           /\ call'[k].at = what /\ call'[k].conv = c /\ call'[k].msg = m
BY AskTyped DEF IInv

\* A client that is done with its answer has no request.
LEMMA ReturnsEffect ==
    ASSUME IInv, NEW k \in Caller, Returns(k)
    PROVE  /\ Requests(k) /\ sent' = sent
           /\ call'[k].at = "idle" /\ call'[k].conv = NoConv
<1>1. call' = [call EXCEPT ![k] = Request("idle", NoConv, NoMsg, <<>>)]
  BY DEF Returns, NoCall
<1>2. call'[k].at = "idle" /\ call'[k].conv = NoConv /\ \A j \in Caller \ {k} : call'[j] = call[j]
  BY <1>1 DEF IInv, TypeOK, Request
<1> QED BY <1>2 DEF Requests, Returns

\* Where no row changes, what is stored is what was.
LEMMA SameRows ==
    ASSUME UNCHANGED <<conversation, rows>>
    PROVE  /\ Known' = Known
           /\ \A c, m : Holds(c, m)' <=> Holds(c, m)
           /\ \A m : Stored(m)' <=> Stored(m)
<1>1. Known' = Known
  BY DEF Known
<1>2. ASSUME NEW c, NEW m PROVE Holds(c, m)' <=> Holds(c, m)
  BY DEF Holds
<1>3. ASSUME NEW m PROVE Stored(m)' <=> Stored(m)
  BY DEF Stored, Holds
<1> QED BY <1>1, <1>2, <1>3

\* A message is sent to the gateway: nobody has heard of it.
LEMMA SendKeeps ==
    ASSUME IInv, HInv, NEW s \in Side, Send(s), TypeOK'
    PROVE  HInv'
<1> USE DEF HInv
<1>1. PICK m \in Msg \ (sent \cup own) :
         saying' = [saying EXCEPT ![s] = m] /\ own' = own \cup {m}
  BY DEF Send
<1>2. /\ sender[s] = "idle" /\ sender' = [sender EXCEPT ![s] = "translating"]
      /\ calm' = (calm /\ call[Opener].at = "idle")
      /\ UNCHANGED <<conversation, title, rows, call, sent, underway, convId, screen, opens, changes>>
  BY DEF Send, Becomes, store
<1>3. /\ sender'[s] = "translating" /\ \A t \in Side \ {s} : sender'[t] = sender[t]
      /\ saying'[s] = m /\ \A t \in Side \ {s} : saying'[t] = saying[t]
  BY <1>1, <1>2 DEF HistoryTypeOK
<1>4. call[s].at = "idle"
  BY <1>2 DEF Kinds
<1>5. HistoryTypeOK'
  BY <1>1, <1>2, <1>3, <1>4 DEF HistoryTypeOK
<1>6. Kinds' /\ KnownCalls' /\ StoredOnce'
  BY <1>2, <1>3, <1>4 DEF Kinds, KnownCalls, Known, StoredOnce, Holds
<1>7. OwnMessages'
  <2>1. \A t \in Side \ {s} : sender[t] # "idle" => saying[t] # m
    BY DEF OwnMessages
  <2>2. ~Saves(s)'
    BY <1>2, <1>4 DEF Saves
  <2>3. \A t \in Side : sender'[t] # "idle" =>
           /\ saying'[t] \in own'
           /\ sender'[t] # "saving" => saying'[t] \notin sent'
           /\ Saves(t)' => call'[t].msg = saying'[t]
           /\ \A u \in Side : (sender'[u] # "idle" /\ saying'[u] = saying'[t]) => u = t
    BY <1>1, <1>2, <1>3, <2>1, <2>2 DEF OwnMessages, Saves
  <2>4. Saves(Other)' => call'[Other].msg \notin own'
    BY <1>1, <1>2, Names DEF OwnMessages, Saves, IInv, TypeOK
  <2> QED BY <2>3, <2>4 DEF OwnMessages
<1>8. \A c \in Conv : ~Holds(c, m)
  BY DEF Holds, IInv, SeenIsSent
<1>9. CalmSends'
  <2>1. \A t \in Side : sender'[t] \in {"shown", "creating", "saving"} =>
           t # s /\ sender[t] = sender'[t] /\ saying[t] = saying'[t]
    BY <1>3
  <2>2. ASSUME NEW t \in Side, calm, sender[t] = "creating", call[t].at = "ok", NEW x \in own'
        PROVE  ~(\E r \in rows[call[t].conv] : r.msg = x)
    <3>1. call[t].conv \in Conv
      BY <2>2, Names DEF KnownCalls, Known
    <3>2. \A y \in own : ~Holds(call[t].conv, y)
      BY <2>2 DEF CalmSends
    <3> QED BY <1>1, <1>8, <3>1, <3>2 DEF Holds
  <2>3. ~Saves(s)'
    BY <1>2, <1>4 DEF Saves
  <2> SUFFICES ASSUME calm, NEW t \in Side
               PROVE  /\ sender'[t] \in {"shown", "creating", "saving"} => saying'[t] \in screen
                      /\ sender'[t] = "creating" =>
                            /\ convId = NoConv
                            /\ \A u \in Side : sender'[u] = "creating" => u = t
                            /\ call[t].at = "ok" =>
                                  \A x \in own' : ~(\E r \in rows[call[t].conv] : r.msg = x)
                      /\ sender'[t] = "saving" => convId # NoConv
                      /\ Saves(t)' => call[t].conv = convId
    BY <1>2 DEF CalmSends, Holds
  <2>4. sender'[t] \in {"shown", "creating", "saving"} => saying'[t] \in screen
    BY <2>1 DEF CalmSends
  <2>5. sender'[t] = "saving" => convId # NoConv
    BY <2>1 DEF CalmSends
  <2>6. Saves(t)' => call[t].conv = convId
    BY <1>2, <2>3 DEF CalmSends, Saves
  <2>7. sender'[t] = "creating" =>
           convId = NoConv /\ \A u \in Side : sender'[u] = "creating" => u = t
    BY <2>1 DEF CalmSends
  <2>8. (sender'[t] = "creating" /\ call[t].at = "ok") =>
           \A x \in own' : ~(\E r \in rows[call[t].conv] : r.msg = x)
    BY <2>1, <2>2
  <2> QED BY <2>4, <2>5, <2>6, <2>7, <2>8
<1>10. CalmOpens'
  BY <1>2 DEF CalmOpens
<1>11. CalmScreen'
  <2>1. CASE calm
    <3>1. ~Stored(m)
      BY <1>8 DEF Stored
    <3>2. convId # NoConv => ~Holds(convId, m)
      BY <1>8 DEF HistoryTypeOK
    <3> QED BY <1>1, <1>2, <2>1, <3>1, <3>2 DEF CalmScreen, Stored, Holds
  <2>2. CASE ~calm
    BY <1>2, <2>2 DEF CalmScreen
  <2> QED BY <2>1, <2>2
<1> QED BY <1>5, <1>6, <1>7, <1>9, <1>10, <1>11

\* The translation is shown, or fails: nothing was saved yet.
LEMMA TurnKeeps ==
    ASSUME IInv, HInv, NEW s \in Side, TurnDone(s) \/ TurnFails(s), TypeOK'
    PROVE  HInv'
<1> USE DEF HInv
<1>1. /\ sender[s] \in {"translating", "shown"} /\ call[s].at = "idle"
      /\ UNCHANGED <<conversation, title, rows, call, sent, underway, convId, own, calm, opens,
                     changes>>
  BY DEF TurnDone, TurnFails, store, Kinds
<1>2. /\ sender'[s] \in {"idle", "shown"}
      /\ sender'[s] = "shown" => saying'[s] \in screen'
      /\ \A t \in Side \ {s} : sender'[t] = sender[t] /\ saying'[t] = saying[t]
      /\ sender'[s] # "idle" => saying'[s] = saying[s]
      /\ sender' \in [Side -> {"idle", "translating", "shown", "creating", "saving"}]
      /\ saying' \in [Side -> Msg \cup {NoMsg}]
  BY DEF TurnDone, TurnFails, Becomes, Ends, HistoryTypeOK
<1>3. /\ screen \subseteq screen' /\ screen' \subseteq screen \cup {saying[s]}
      /\ saying[s] \in own /\ saying[s] \notin sent
  BY <1>1 DEF TurnDone, TurnFails, OwnMessages
<1>4. HistoryTypeOK'
  BY <1>1, <1>2, <1>3 DEF HistoryTypeOK
<1>5. Kinds' /\ KnownCalls' /\ StoredOnce'
  BY <1>1, <1>2 DEF Kinds, KnownCalls, Known, StoredOnce, Holds
<1>6. OwnMessages'
  BY <1>1, <1>2 DEF OwnMessages, Saves
<1>7. CalmSends'
  <2>1. \A t \in Side : sender'[t] \in {"creating", "saving"} => t # s /\ sender[t] = sender'[t]
    BY <1>2
  <2>2. \A t \in Side : sender'[t] = "shown" /\ t # s => sender[t] = "shown" /\ saying'[t] = saying[t]
    BY <1>2
  <2> QED BY <1>1, <1>2, <1>3, <2>1, <2>2 DEF CalmSends, Saves, Holds
<1>8. CalmOpens'
  <2>1. ~Quiet
    BY <1>1 DEF Quiet
  <2> QED BY <1>1, <2>1 DEF CalmOpens
<1>9. CalmScreen'
  <2>1. \A c \in Conv : ~Holds(c, saying[s])
    BY <1>3 DEF Holds, IInv, SeenIsSent
  <2>2. ~Stored(saying[s])
    BY <2>1 DEF Stored
  <2> QED BY <1>1, <1>3, <2>2 DEF CalmScreen, Stored, Holds
<1> QED BY <1>4, <1>5, <1>6, <1>7, <1>8, <1>9

\* A first message: the request that creates its conversation.
LEMMA PersistFirstKeeps ==
    ASSUME IInv, HInv, NEW s \in Side, PersistFirst(s), TypeOK'
    PROVE  HInv'
<1> USE DEF HInv
<1>1. /\ sender[s] = "shown" /\ convId = NoConv
      /\ sender' = [sender EXCEPT ![s] = "creating"]
      /\ calm' = (calm /\ \A t \in Side : sender[t] # "creating")
      /\ UNCHANGED <<conversation, title, rows, sent, underway, convId, screen, saying, own, opens,
                     changes>>
      /\ Asks(s, "create", NoConv, NoMsg)
  BY DEF PersistFirst, Becomes, AskCreate
<1>2. /\ \A j \in Caller \ {s} : call'[j] = call[j]
      /\ call'[s].at = "create" /\ call'[s].conv = NoConv
  BY <1>1, AskEffect, Names
<1>3. /\ sender'[s] = "creating" /\ \A t \in Side \ {s} : sender'[t] = sender[t]
      /\ call'[Opener] = call[Opener] /\ call'[Remover] = call[Remover] /\ call'[Other] = call[Other]
      /\ \A t \in Side \ {s} : call'[t] = call[t]
  BY <1>1, <1>2, Names DEF HistoryTypeOK
<1>4. HistoryTypeOK'
  BY <1>1, <1>2, <1>3 DEF HistoryTypeOK
<1>5. Kinds' /\ KnownCalls' /\ StoredOnce'
  BY <1>1, <1>2, <1>3 DEF Kinds, KnownCalls, Known, StoredOnce, Holds
<1>6. OwnMessages'
  BY <1>1, <1>2, <1>3 DEF OwnMessages, Saves
<1>7. CalmSends'
  <2>1. CASE ~calm'
    BY <2>1 DEF CalmSends
  <2>2. CASE calm'
    <3>1. calm /\ \A t \in Side : sender[t] # "creating"
      BY <1>1, <2>2
    <3>2. \A t \in Side : sender'[t] = "creating" => t = s
      BY <1>3, <3>1
    <3>3. \A t \in Side : sender'[t] \in {"shown", "creating", "saving"} => saying[t] \in screen
      BY <1>1, <1>3, <3>1 DEF CalmSends
    <3>4. \A t \in Side : sender'[t] = "saving" => convId # NoConv
      BY <1>3, <3>1 DEF CalmSends
    <3>5. \A t \in Side : Saves(t)' => call'[t].conv = convId
      BY <1>2, <1>3, <3>1 DEF CalmSends, Saves
    <3> QED BY <1>1, <1>2, <3>2, <3>3, <3>4, <3>5 DEF CalmSends
  <2> QED BY <2>1, <2>2
<1>8. CalmOpens' /\ CalmScreen'
  <2>1. ~Quiet
    BY <1>1 DEF Quiet
  <2> QED BY <1>1, <1>3, <2>1 DEF CalmOpens, CalmScreen, Stored, Holds
<1> QED BY <1>4, <1>5, <1>6, <1>7, <1>8

\* A message is sent to the open conversation, which is the one just created
\* for it when it is the first.
LEMMA SaveBeginsKeeps ==
    ASSUME IInv, HInv, NEW s \in Side, PersistNext(s) \/ Created(s), TypeOK'
    PROVE  HInv'
<1> USE DEF HInv
<1>1. /\ sender[s] \in {"shown", "creating"}
      /\ sender' = [sender EXCEPT ![s] = "saving"]
      /\ UNCHANGED <<conversation, title, rows, underway, screen, saying, own, calm, opens, changes>>
      /\ sent' = sent \cup {saying[s]}
  BY DEF PersistNext, Created, Becomes, AskAppend
<1>2. /\ convId' \in Known /\ Asks(s, "append", convId', saying[s])
      /\ \/ sender[s] = "shown" /\ convId' = convId
         \/ sender[s] = "creating" /\ call[s].at = "ok" /\ convId' = call[s].conv
  <2>1. CASE PersistNext(s)
    BY <2>1 DEF PersistNext, AskAppend, KnownCalls
  <2>2. CASE Created(s)
    BY <2>2, Names DEF Created, AskAppend, KnownCalls
  <2> QED BY <2>1, <2>2
<1>3. PICK c \in Conv : c = convId' /\ c # NoConv
  BY <1>2, StoreAssumption DEF Known
<1>4. /\ \A j \in Caller \ {s} : call'[j] = call[j]
      /\ call'[s].at = "append" /\ call'[s].conv = c /\ call'[s].msg = saying[s]
  <2>1. saying[s] \in Msg \cup {NoMsg} /\ c \in Conv \cup {NoConv} /\ s \in Caller
    BY Names DEF HistoryTypeOK
  <2> QED BY <1>2, <1>3, <2>1, AskEffect
<1>5. /\ sender'[s] = "saving" /\ \A t \in Side \ {s} : sender'[t] = sender[t]
      /\ call'[Opener] = call[Opener] /\ call'[Remover] = call[Remover] /\ call'[Other] = call[Other]
      /\ \A t \in Side \ {s} : call'[t] = call[t]
  BY <1>1, <1>4, Names DEF HistoryTypeOK
<1>6. HistoryTypeOK'
  BY <1>1, <1>3, <1>4, <1>5 DEF HistoryTypeOK
<1>7. Kinds' /\ KnownCalls' /\ StoredOnce'
  BY <1>1, <1>2, <1>3, <1>4, <1>5 DEF Kinds, KnownCalls, Known, StoredOnce, Holds
<1>8. OwnMessages'
  <2>1. \A t \in Side \ {s} : sender[t] # "idle" => saying[t] # saying[s]
    BY <1>1 DEF OwnMessages
  <2> QED BY <1>1, <1>4, <1>5, <2>1 DEF OwnMessages, Saves
<1>9. CASE sender[s] = "shown"
  <2>1. convId' = convId
    BY <1>2, <1>9
  <2>2. CalmSends'
    BY <1>1, <1>3, <1>4, <1>5, <1>9, <2>1 DEF CalmSends, Saves, Holds
  <2>3. CalmOpens' /\ CalmScreen'
    <3>1. ~Quiet
      BY <1>1 DEF Quiet
    <3> QED BY <1>1, <1>5, <2>1, <3>1 DEF CalmOpens, CalmScreen, Stored, Holds
  <2> QED BY <1>6, <1>7, <1>8, <2>2, <2>3
<1>10. CASE sender[s] = "creating"
  <2>1. call[s].at = "ok" /\ convId' = call[s].conv
    BY <1>2, <1>10
  <2>2. calm => /\ convId = NoConv
                /\ \A t \in Side : sender[t] = "creating" => t = s
                /\ \A t \in Side : sender[t] # "saving"
                /\ \A m \in own : ~Holds(c, m)
    BY <1>3, <1>10, <2>1 DEF CalmSends
  <2>3. \A t \in Side : Saves(t) => sender[t] = "saving"
    BY DEF Kinds, Saves, Answered, HistoryTypeOK
  <2>4. CalmSends'
    <3>1. \A t \in Side : Saves(t)' => t = s \/ Saves(t)
      BY <1>5 DEF Saves
    <3> QED BY <1>1, <1>3, <1>4, <1>5, <1>10, <2>2, <2>3, <3>1 DEF CalmSends
  <2>5. CalmOpens'
    <3>1. ~Quiet
      BY <1>1 DEF Quiet
    <3> QED BY <1>1, <1>5, <3>1 DEF CalmOpens
  <2>6. CalmScreen'
    <3> SUFFICES ASSUME calm, NEW m \in own
                 PROVE  (m \in screen /\ Stored(m)) <=> (convId' # NoConv /\ Holds(c, m))
      BY <1>1, <1>3 DEF CalmScreen, Stored, Holds
    <3> QED BY <2>2 DEF CalmScreen
  <2> QED BY <1>6, <1>7, <1>8, <2>4, <2>5, <2>6
<1> QED BY <1>1, <1>9, <1>10

\* A send is over.
LEMMA SaveEndsKeeps ==
    ASSUME IInv, HInv, NEW s \in Side, SaveEnds(s), TypeOK'
    PROVE  HInv'
<1> USE DEF HInv
<1>1. /\ sender[s] \in {"creating", "saving"}
      /\ UNCHANGED <<conversation, rows, sent, convId, screen, own, calm, opens, changes>>
      /\ Returns(s)
      /\ sender' = [sender EXCEPT ![s] = "idle"] /\ saying' = [saying EXCEPT ![s] = NoMsg]
  BY DEF SaveEnds, Returns, Ends, Becomes
<1>2. /\ \A j \in Caller \ {s} : call'[j] = call[j]
      /\ call'[s].at = "idle" /\ call'[s].conv = NoConv
  BY <1>1, ReturnsEffect, Names DEF Requests
<1>3. /\ sender'[s] = "idle" /\ \A t \in Side \ {s} : sender'[t] = sender[t]
      /\ \A t \in Side \ {s} : saying'[t] = saying[t]
      /\ call'[Opener] = call[Opener] /\ call'[Remover] = call[Remover] /\ call'[Other] = call[Other]
      /\ \A t \in Side \ {s} : call'[t] = call[t]
  BY <1>1, <1>2, Names DEF HistoryTypeOK
<1>4. HistoryTypeOK'
  BY <1>1, <1>2, <1>3 DEF HistoryTypeOK
<1>5. Kinds' /\ KnownCalls' /\ StoredOnce'
  BY <1>1, <1>2, <1>3 DEF Kinds, KnownCalls, Known, StoredOnce, Holds
<1>6. OwnMessages'
  BY <1>1, <1>2, <1>3 DEF OwnMessages, Saves
<1>7. CalmSends'
  BY <1>1, <1>2, <1>3 DEF CalmSends, Saves, Holds
<1>8. CalmOpens' /\ CalmScreen'
  <2>1. ~Quiet
    BY <1>1 DEF Quiet
  <2> QED BY <1>1, <1>3, <2>1 DEF CalmOpens, CalmScreen, Stored, Holds
<1> QED BY <1>4, <1>5, <1>6, <1>7, <1>8

-----------------------------------------------------------------------------
(* Conversations are opened, left and deleted.                             *)

\* A conversation is asked for, or to be deleted, or the other console sends a
\* request: this console's sends and screen stay.
LEMMA OthersKeep ==
    ASSUME IInv, HInv, TypeOK', NEW k \in {Opener, Remover, Other}, Requests(k),
           UNCHANGED <<convId, screen, sender, saying, own>>,
           k = Opener => /\ call'[k].at \in {"idle", "get"}
                         /\ call'[k].at = "get" => (calm' => Quiet),
           k # Opener => calm' = calm,
           calm' \in BOOLEAN, calm' => calm,
           opens' \in 0..MaxOpens, changes' \in 0..MaxChanges,
           call'[k].conv \in Known \cup {NoConv}, call'[k].at # "ok",
           k = Remover => call'[k].at \in {"idle", "delete"},
           Saves(Other)' => call'[Other].msg \notin own,
           \A s \in Side : (sender[s] # "idle" /\ sender[s] # "saving") => saying[s] \notin sent'
    PROVE  HInv'
<1> USE DEF HInv
<1>1. /\ UNCHANGED <<conversation, rows>>
      /\ \A j \in Caller \ {k} : call'[j] = call[j]
      /\ \A s \in Side : call'[s] = call[s]
  BY Names DEF Requests
<1>2. HistoryTypeOK'
  BY <1>1 DEF HistoryTypeOK
<1>3. Kinds'
  BY <1>1, Names DEF Kinds
<1>4. KnownCalls' /\ StoredOnce'
  BY <1>1 DEF KnownCalls, Known, StoredOnce, Holds
<1>5. OwnMessages'
  BY <1>1 DEF OwnMessages, Saves
<1>6. CalmSends'
  BY <1>1 DEF CalmSends, Saves, Holds
<1>7. CalmOpens'
  <2>1. CASE k = Opener
    BY <2>1 DEF CalmOpens, Quiet
  <2>2. CASE k # Opener
    <3>1. call'[Opener] = call[Opener]
      BY <1>1, <2>2, Names
    <3> QED BY <1>1, <2>2, <3>1 DEF CalmOpens, Quiet, Restored, Stored, Holds
  <2> QED BY <2>1, <2>2
<1>8. CalmScreen'
  BY <1>1 DEF CalmScreen, Stored, Holds
<1> QED BY <1>2, <1>3, <1>4, <1>5, <1>6, <1>7, <1>8

\* Asking for a conversation keeps the invariant (loadConversation, before its
\* await).
LEMMA OpenKeeps ==
    ASSUME IInv, HInv, Open, TypeOK'
    PROVE  HInv'
<1>1. PICK c \in Known : AskGet(Opener, c)
  BY DEF Open
<1>2. Asks(Opener, "get", c, NoMsg) /\ UNCHANGED <<conversation, rows, sent>> /\ c \in Conv
  BY <1>1 DEF AskGet, Known
<1>3. /\ \A j \in Caller \ {Opener} : call'[j] = call[j]
      /\ call'[Opener].at = "get" /\ call'[Opener].conv = c
  BY <1>2, AskEffect, Names
<1>4. Requests(Opener)
  BY <1>2, <1>3 DEF Requests
<1>5. /\ calm' = (calm /\ Quiet) /\ calm \in BOOLEAN
      /\ opens' = opens + 1 /\ opens < MaxOpens /\ opens \in 0..MaxOpens
      /\ changes' = changes /\ changes \in 0..MaxChanges
      /\ UNCHANGED <<convId, screen, sender, saying, own>>
  BY DEF Open, HInv, HistoryTypeOK
<1>6. opens' \in 0..MaxOpens
  BY <1>5, HistoryAssumption
<1>7. Saves(Other)' => call'[Other].msg \notin own
  BY <1>3, Names DEF HInv, OwnMessages, Saves
<1>8. \A s \in Side : (sender[s] # "idle" /\ sender[s] # "saving") => saying[s] \notin sent'
  BY <1>2 DEF HInv, OwnMessages
<1> QED BY <1>3, <1>4, <1>5, <1>6, <1>7, <1>8, OthersKeep, Names

\* The answer to an open replaces conversation and screen together.
LEMMA OpenedKeeps ==
    ASSUME IInv, HInv, Opened, TypeOK'
    PROVE  HInv'
<1>1. Returns(Opener) /\ UNCHANGED <<sender, saying, own, calm, opens, changes>>
      /\ call[Opener].at \in Answered
  BY DEF Opened
<1>2. /\ Requests(Opener) /\ sent' = sent
      /\ call'[Opener].at = "idle" /\ call'[Opener].conv = NoConv
  BY <1>1, ReturnsEffect, Names
<1>3. /\ Saves(Other)' => call'[Other].msg \notin own
      /\ \A s \in Side : (sender[s] # "idle" /\ sender[s] # "saving") => saying[s] \notin sent'
      /\ calm \in BOOLEAN /\ opens \in 0..MaxOpens /\ changes \in 0..MaxChanges
  BY <1>2, Names DEF HInv, OwnMessages, Saves, Requests, HistoryTypeOK
<1>4. CASE call[Opener].at # "ok"
  <2>1. UNCHANGED <<convId, screen>>
    BY <1>4 DEF Opened
  <2> QED BY <1>1, <1>2, <1>3, <2>1, OthersKeep, Names
<1>5. CASE call[Opener].at = "ok"
  <2> USE DEF HInv
  <2> DEFINE list == call[Opener].restored
  <2>1. convId' = call[Opener].conv /\ screen' = { list[i].msg : i \in DOMAIN list }
    BY <1>5 DEF Opened
  <2>2. PICK c \in Conv : c = convId' /\ c \in Known /\ c # NoConv
    BY <1>5, <2>1, Names, StoreAssumption DEF KnownCalls, Known
  <2>3. /\ UNCHANGED <<conversation, rows>>
        /\ \A j \in Caller \ {Opener} : call'[j] = call[j]
        /\ \A s \in Side : call'[s] = call[s]
    BY <1>2, Names DEF Requests
  <2>4. screen' \subseteq Msg
    <3>1. list \in Seq(Row)
      BY Names DEF IInv, TypeOK, Call
    <3>2. \A i \in DOMAIN list : list[i] \in Row
      BY <3>1, ElementOfSeq, LenProperties
    <3> QED BY <2>1, <3>2 DEF Row
  <2>5. HistoryTypeOK'
    BY <1>1, <2>2, <2>3, <2>4 DEF HistoryTypeOK
  <2>6. Kinds' /\ KnownCalls' /\ StoredOnce'
    BY <1>1, <1>2, <2>2, <2>3, Names DEF Kinds, KnownCalls, Known, StoredOnce, Holds
  <2>7. OwnMessages'
    BY <1>1, <1>2, <1>3, <2>3 DEF OwnMessages, Saves
  <2>8. calm => Quiet
    BY <1>5 DEF CalmOpens
  <2>9. \A s \in Side : sender[s] = "idle" => ~Saves(s)
    BY DEF Kinds, Saves
  <2>10. CalmSends'
    BY <1>1, <2>3, <2>8, <2>9 DEF CalmSends, Quiet, Saves
  <2>11. CalmOpens'
    BY <1>2 DEF CalmOpens
  <2>12. CalmScreen'
    <3> SUFFICES ASSUME calm, NEW m \in own
                 PROVE  (m \in screen' /\ Stored(m)) <=> Holds(c, m)
      BY <1>1, <2>2, <2>3 DEF CalmScreen, Stored, Holds
    <3>1. (Restored(m) /\ Stored(m)) <=> Holds(c, m)
      BY <1>5, <2>1, <2>2 DEF CalmOpens
    <3>2. Restored(m) <=> m \in screen'
      BY <2>1 DEF Restored
    <3> QED BY <3>1, <3>2
  <2> QED BY <2>5, <2>6, <2>7, <2>10, <2>11, <2>12
<1> QED BY <1>4, <1>5

\* Nothing is open and nothing on the screen; what was being sent is not calm.
LEMMA ResetKeeps ==
    ASSUME IInv, HInv, TypeOK', convId' = NoConv, screen' = {},
           UNCHANGED <<conversation, rows, sent, sender, saying, own>>,
           \A j \in Caller \ {Remover} : call'[j] = call[j],
           call'[Remover].at \in {"idle", "delete", "deleting"} \cup Answered,
           call'[Remover].conv \in Known \cup {NoConv},
           call'[Remover].at = "ok" => call'[Remover].conv \in Known,
           calm' \in BOOLEAN, calm' => Quiet, calm' => calm \/ call[Opener].at = "idle",
           opens' \in 0..MaxOpens, changes' \in 0..MaxChanges
    PROVE  HInv'
<1> USE DEF HInv
<1>1. /\ \A s \in Side : call'[s] = call[s]
      /\ call'[Opener] = call[Opener] /\ call'[Other] = call[Other]
  BY Names
<1>2. HistoryTypeOK'
  BY <1>1 DEF HistoryTypeOK
<1>3. Kinds' /\ KnownCalls' /\ StoredOnce'
  BY <1>1 DEF Kinds, KnownCalls, Known, StoredOnce, Holds
<1>4. OwnMessages'
  BY <1>1 DEF OwnMessages, Saves
<1>5. \A s \in Side : sender[s] = "idle" => ~Saves(s)
  BY DEF Kinds, Saves
<1>6. CalmSends'
  BY <1>1, <1>5 DEF CalmSends, Quiet, Saves
<1>7. CalmOpens'
  BY <1>1 DEF CalmOpens, Quiet, Restored, Stored, Holds
<1>8. CalmScreen'
  BY DEF CalmScreen
<1> QED BY <1>2, <1>3, <1>4, <1>6, <1>7, <1>8

\* Leaving the conversation keeps it (newConversation, swap).
LEMMA NewConversationKeeps ==
    ASSUME IInv, HInv, NewConversation, TypeOK'
    PROVE  HInv'
<1>1. /\ convId' = NoConv /\ screen' = {} /\ changes < MaxChanges /\ changes' = changes + 1
      /\ calm' = ((calm \/ call[Opener].at = "idle") /\ Quiet)
      /\ UNCHANGED <<conversation, title, rows, call, sent, underway, sender, saying, own, opens>>
  BY DEF NewConversation, Reset, store
<1>2. opens' \in 0..MaxOpens /\ changes' \in 0..MaxChanges
  BY <1>1, HistoryAssumption DEF HInv, HistoryTypeOK
<1>3. calm' \in BOOLEAN
  BY <1>1
<1>4. /\ call'[Remover].at \in {"idle", "delete", "deleting"} \cup Answered
      /\ call'[Remover].conv \in Known \cup {NoConv}
      /\ call'[Remover].at = "ok" => call'[Remover].conv \in Known
  BY <1>1, Names DEF HInv, Kinds, KnownCalls
<1> QED BY <1>1, <1>2, <1>3, <1>4, ResetKeeps

\* Deleting keeps it, before the await and after (removeConversation).
LEMMA RemoveKeeps ==
    ASSUME IInv, HInv, Remove \/ Removed, TypeOK'
    PROVE  HInv'
<1>1. /\ calm \in BOOLEAN /\ opens \in 0..MaxOpens /\ changes \in 0..MaxChanges
  BY DEF HInv, HistoryTypeOK
<1>2. CASE Remove
  <2>1. PICK c \in Known : AskDelete(Remover, c)
    BY <1>2 DEF Remove
  <2>2. Asks(Remover, "delete", c, NoMsg) /\ UNCHANGED <<conversation, rows, sent>> /\ c \in Conv
    BY <2>1 DEF AskDelete, Known
  <2>3. /\ \A j \in Caller \ {Remover} : call'[j] = call[j]
        /\ call'[Remover].at = "delete" /\ call'[Remover].conv = c
    BY <2>2, AskEffect, Names
  <2>4. Requests(Remover)
    BY <2>2, <2>3 DEF Requests
  <2>5. /\ UNCHANGED <<convId, screen, sender, saying, own, calm, opens>>
        /\ changes' \in 0..MaxChanges
    BY <1>1, <1>2, HistoryAssumption DEF Remove
  <2>6. /\ Saves(Other)' => call'[Other].msg \notin own
        /\ \A s \in Side : (sender[s] # "idle" /\ sender[s] # "saving") => saying[s] \notin sent'
    BY <2>2, <2>3, Names DEF HInv, OwnMessages, Saves
  <2> QED BY <1>1, <2>3, <2>4, <2>5, <2>6, OthersKeep, Names
<1>3. CASE Removed
  <2>1. Returns(Remover) /\ UNCHANGED <<sender, saying, own, opens, changes>>
    BY <1>3 DEF Removed
  <2>2. /\ Requests(Remover) /\ sent' = sent
        /\ call'[Remover].at = "idle" /\ call'[Remover].conv = NoConv
    BY <2>1, ReturnsEffect, Names
  <2>3. CASE UNCHANGED <<convId, screen, calm>>
    <3>1. /\ Saves(Other)' => call'[Other].msg \notin own
          /\ \A s \in Side : (sender[s] # "idle" /\ sender[s] # "saving") => saying[s] \notin sent'
      BY <2>2, Names DEF HInv, OwnMessages, Saves, Requests
    <3> QED BY <1>1, <2>1, <2>2, <2>3, <3>1, OthersKeep, Names
  <2>4. CASE Reset /\ calm' = (calm /\ Quiet)
    <3>1. /\ convId' = NoConv /\ screen' = {} /\ calm' \in BOOLEAN
          /\ \A j \in Caller \ {Remover} : call'[j] = call[j]
          /\ UNCHANGED <<conversation, rows>>
      BY <2>2, <2>4 DEF Reset, Requests
    <3> QED BY <1>1, <2>1, <2>2, <2>4, <3>1, ResetKeeps
  <2> QED BY <1>3, <2>3, <2>4 DEF Removed
<1> QED BY <1>2, <1>3

\* What the other console asks for keeps it.
LEMMA OtherKeeps ==
    ASSUME IInv, HInv, OtherConsole, TypeOK'
    PROVE  HInv'
<1>1. /\ UNCHANGED <<convId, screen, sender, saying, own, calm, opens>>
      /\ calm \in BOOLEAN /\ opens \in 0..MaxOpens /\ changes \in 0..MaxChanges
  BY DEF OtherConsole, HInv, HistoryTypeOK
<1>2. changes' \in 0..MaxChanges
  BY <1>1, HistoryAssumption DEF OtherConsole
<1>3. ASSUME Returns(Other)
      PROVE  HInv'
  <2>1. /\ Requests(Other) /\ sent' = sent
        /\ call'[Other].at = "idle" /\ call'[Other].conv = NoConv
    BY <1>3, ReturnsEffect, Names
  <2>2. /\ ~Saves(Other)'
        /\ \A s \in Side : (sender[s] # "idle" /\ sender[s] # "saving") => saying[s] \notin sent'
    BY <2>1 DEF HInv, OwnMessages, Saves
  <2> QED BY <1>1, <1>2, <2>1, <2>2, OthersKeep, Names
<1>4. ASSUME NEW c \in Known, AskDelete(Other, c)
      PROVE  HInv'
  <2>1. Asks(Other, "delete", c, NoMsg) /\ UNCHANGED <<conversation, rows, sent>> /\ c \in Conv
    BY <1>4 DEF AskDelete, Known
  <2>2. /\ \A j \in Caller \ {Other} : call'[j] = call[j]
        /\ call'[Other].at = "delete" /\ call'[Other].conv = c
    BY <2>1, AskEffect, Names
  <2>3. /\ Requests(Other) /\ ~Saves(Other)'
        /\ \A s \in Side : (sender[s] # "idle" /\ sender[s] # "saving") => saying[s] \notin sent'
    BY <2>1, <2>2 DEF HInv, OwnMessages, Saves, Requests
  <2> QED BY <1>1, <1>2, <2>2, <2>3, OthersKeep, Names
<1>5. ASSUME NEW c \in Known, NEW m \in Msg \ own, AskAppend(Other, c, m)
      PROVE  HInv'
  <2>1. /\ Asks(Other, "append", c, m) /\ UNCHANGED <<conversation, rows>> /\ c \in Conv
        /\ sent' = sent \cup {m}
    BY <1>5 DEF AskAppend, Known
  <2>2. /\ \A j \in Caller \ {Other} : call'[j] = call[j]
        /\ call'[Other].at = "append" /\ call'[Other].conv = c /\ call'[Other].msg = m
    BY <2>1, AskEffect, Names
  <2>3. /\ Requests(Other) /\ call'[Other].msg \notin own
        /\ \A s \in Side : (sender[s] # "idle" /\ sender[s] # "saving") => saying[s] \notin sent'
    BY <2>1, <2>2 DEF HInv, OwnMessages, Requests
  <2> QED BY <1>1, <1>2, <2>2, <2>3, OthersKeep, Names
<1> QED BY <1>3, <1>4, <1>5 DEF OtherConsole

-----------------------------------------------------------------------------
(* The composition.                                                        *)

\* Every step of the console is a step of the store, or leaves it alone.
LEMMA StepOfStore ==
    ASSUME IInv, HInv, HistoryNext
    PROVE  [Next]_store
<1> USE DEF HInv
<1>1. ASSUME NEW s \in Side, Send(s) \/ SendStep(s)
      PROVE  [Next]_store
  <2>1. CASE Send(s) \/ TurnDone(s) \/ TurnFails(s)
    BY <2>1 DEF Send, TurnDone, TurnFails
  <2>2. CASE PersistFirst(s)
    BY <2>2, Names DEF PersistFirst, Next, Ask
  <2>3. CASE PersistNext(s)
    <3>1. convId \in Known /\ saying[s] \in Msg
      BY <2>3 DEF PersistNext, KnownCalls, OwnMessages, HistoryTypeOK
    <3> QED BY <2>3, <3>1, Names DEF PersistNext, Next, Ask
  <2>4. CASE Created(s)
    <3>1. call[s].conv \in Known /\ saying[s] \in Msg
      BY <2>4, Names DEF Created, KnownCalls, OwnMessages, HistoryTypeOK
    <3> QED BY <2>4, <3>1, Names DEF Created, Next, Ask
  <2>5. CASE SaveEnds(s)
    BY <2>5, Names DEF SaveEnds, Next
  <2> QED BY <1>1, <2>1, <2>2, <2>3, <2>4, <2>5 DEF SendStep
<1>2. CASE Open \/ Remove \/ OtherConsole
  BY <1>2, Names DEF Open, Remove, OtherConsole, Next, Ask
<1>3. CASE Opened \/ Removed
  BY <1>3, Names DEF Opened, Removed, Next
<1>4. CASE NewConversation
  BY <1>4 DEF NewConversation
<1>5. ASSUME NEW k \in Caller, StoreStep(k)
      PROVE  [Next]_store
  BY <1>5 DEF StoreStep, Next
<1> QED BY <1>1, <1>2, <1>3, <1>4, <1>5 DEF HistoryNext

\* An empty console and an empty store satisfy both invariants.
LEMMA HistoryInitEstablishes == HistoryInit => IInv /\ HInv
<1> SUFFICES ASSUME HistoryInit PROVE IInv /\ HInv
  OBVIOUS
<1>1. Init /\ IInv
  BY InitEstablishes DEF HistoryInit
<1>2. \A k \in Caller : call[k].at = "idle" /\ call[k].conv = NoConv
  BY <1>1 DEF Init, NoCall, Request
<1>3. HistoryTypeOK
  BY <1>1, <1>2, Names, HistoryAssumption DEF HistoryInit, HistoryTypeOK, IInv
<1>4. Kinds /\ KnownCalls /\ OwnMessages
  BY <1>2, Names DEF HistoryInit, Kinds, KnownCalls, OwnMessages, Saves
<1>5. \A c \in Conv, m \in Msg : ~Holds(c, m)
  BY <1>1 DEF Init, Holds
<1>6. StoredOnce /\ CalmSends /\ CalmOpens
  BY <1>2, <1>5, Names DEF HistoryInit, StoredOnce, CalmSends, CalmOpens, Saves
<1>7. CalmScreen
  BY DEF HistoryInit, CalmScreen
<1> QED BY <1>1, <1>3, <1>4, <1>6, <1>7 DEF HInv

\* Every step of console, store and other consoles keeps both invariants, and is
\* a step of the store or none of its business.
THEOREM HistoryStepKeeps ==
    IInv /\ HInv /\ [HistoryNext]_<<store, console>> => (IInv /\ HInv)' /\ [Next]_store
<1> SUFFICES ASSUME IInv, HInv, [HistoryNext]_<<store, console>>
             PROVE  (IInv /\ HInv)' /\ [Next]_store
  OBVIOUS
<1>1. CASE UNCHANGED <<store, console>>
  <2>1. /\ UNCHANGED <<conversation, title, rows, call, sent, underway>>
        /\ UNCHANGED <<convId, screen, sender, saying, own, calm, opens, changes>>
    BY <1>1 DEF store, console
  <2>2. IInv' /\ [Next]_store
    BY <1>1, StepKeeps
  <2>3. (HistoryTypeOK /\ Kinds /\ KnownCalls /\ OwnMessages /\ StoredOnce)'
    BY <2>1, <2>2 DEF HInv, HistoryTypeOK, Kinds, KnownCalls, Known, OwnMessages, StoredOnce,
                      Saves, Holds, IInv
  <2>4. (CalmSends /\ CalmOpens /\ CalmScreen)'
    BY <2>1 DEF HInv, CalmSends, CalmOpens, CalmScreen, Saves, Holds, Stored, Restored, Quiet
  <2> QED BY <2>2, <2>3, <2>4 DEF HInv
<1>2. CASE HistoryNext
  <2>1. [Next]_store
    BY <1>2, StepOfStore
  <2>2. IInv' /\ TypeOK'
    <3>1. IInv'
      BY <2>1, StepKeeps
    <3> QED BY <3>1 DEF IInv
  <2>3. ASSUME NEW s \in Side, Send(s) \/ SendStep(s)
        PROVE  HInv'
    BY <2>2, <2>3, SendKeeps, TurnKeeps, PersistFirstKeeps, SaveBeginsKeeps, SaveEndsKeeps
       DEF SendStep
  <2>4. ASSUME Open \/ Opened \/ NewConversation \/ Remove \/ Removed \/ OtherConsole
        PROVE  HInv'
    BY <2>2, <2>4, OpenKeeps, OpenedKeeps, NewConversationKeeps, RemoveKeeps, OtherKeeps
  <2>5. ASSUME NEW k \in Caller, StoreStep(k)
        PROVE  HInv'
    BY <2>2, <2>5, StoreStepKeeps
  <2> QED BY <1>2, <2>1, <2>2, <2>3, <2>4, <2>5 DEF HistoryNext
<1> QED BY <1>1, <1>2

\* Both invariants hold throughout.
THEOREM HistoryInductive == HistorySpec => [](IInv /\ HInv)
<1>1. IInv /\ HInv /\ [HistoryNext]_<<store, console>> => (IInv /\ HInv)'
  BY HistoryStepKeeps
<1> QED BY <1>1, HistoryInitEstablishes, PTL DEF HistorySpec

\* The console uses the store as its specification allows: every behaviour of
\* the two together is one of the store, so what is proved of the store holds.
THEOREM HistoryImplementsStore == HistorySpec => Spec
<1>1. HistoryInit => Init
  BY DEF HistoryInit
<1>2. IInv /\ HInv /\ [HistoryNext]_<<store, console>> => [Next]_store
  BY HistoryStepKeeps
<1> QED BY <1>1, <1>2, HistoryInductive, PTL DEF HistorySpec, Spec

\* Every variable of console and store keeps its type, and a send that awaits
\* the store has a request there.
THEOREM HistoryTypeCorrect == HistorySpec => []HistoryTypeOK
<1>1. IInv /\ HInv => HistoryTypeOK
  BY DEF HInv
<1> QED BY <1>1, HistoryInductive, PTL

\* The screen and the open conversation agree about this console's saved
\* messages as long as conversations are not changed in the middle of a send.
THEOREM CalmScreenIsConversationHolds == HistorySpec => []CalmScreenIsConversation
<1>1. IInv /\ HInv => CalmScreenIsConversation
  <2> SUFFICES ASSUME IInv, HInv, calm
               PROVE  screen \cap own \cap Saved
                          = IF convId = NoConv THEN {} ELSE Messages(convId) \cap own
    BY DEF CalmScreenIsConversation
  <2>1. \A m : m \in Saved <=> Stored(m)
    BY DEF Saved, Messages, Stored, Holds
  <2>2. \A m : m \in Messages(convId) <=> Holds(convId, m)
    BY DEF Messages, Holds
  <2>3. \A m \in own : (m \in screen /\ Stored(m)) <=> (convId # NoConv /\ Holds(convId, m))
    BY DEF HInv, CalmScreen
  <2> QED BY <2>1, <2>2, <2>3
<1> QED BY <1>1, HistoryInductive, PTL
=============================================================================
