------------------------- MODULE ConversationStore -------------------------
(* The stored conversations: ConversationService over                      *)
(* SqlConversationRepository (app/services/conversation.py, app/repositories *)
(* /sql.py).  A request is split at its awaits on the database.  SQLite has *)
(* one writer and the driver opens a transaction with the first write, so a *)
(* read sees what is committed when it runs and the writes of a request are *)
(* committed together; foreign keys are not enforced.                      *)
EXTENDS Integers, Sequences, FiniteSets

CONSTANTS
    Conv,   \* ids of conversations, each given out once
    Msg,    \* messages, each saved by one request
    Blank,  \* those whose source is nothing but white space
    Caller, \* clients with at most one request under way
    NoConv,
    NoMsg

ASSUME StoreAssumption == NoConv \notin Conv /\ NoMsg \notin Msg /\ Blank \subseteq Msg

VARIABLES
    conversation, \* [Conv -> whether its row exists]
    title,        \* [Conv -> the message its title was taken from]
    rows,         \* [Conv -> its rows of the messages table]
    call          \* [Caller -> its request]

\* History: the messages whose save was requested, and those that were being
\* saved to a conversation when it was deleted.
VARIABLES sent, underway

store == <<conversation, title, rows, call, sent, underway>>

\* A row; `after` is history: what the conversation held when its save began.
Row == [msg : Msg, seq : Nat, after : SUBSET Msg]

Answered == {"ok", "missing", "failed"}
At == {"idle", "create", "append", "found", "counted", "delete", "deleting",
       "get", "reading"} \cup Answered

Call == [at : At, conv : Conv \cup {NoConv}, msg : Msg \cup {NoMsg},
         untitled : BOOLEAN, seq : Nat, after : SUBSET Msg, restored : Seq(Row)]

Request(at, c, m, list) ==
    [at |-> at, conv |-> c, msg |-> m,
     untitled |-> FALSE, seq |-> 0, after |-> {}, restored |-> list]

NoCall == Request("idle", NoConv, NoMsg, <<>>)

Init ==
    /\ conversation = [c \in Conv |-> "none"]
    /\ title = [c \in Conv |-> NoMsg]
    /\ rows = [c \in Conv |-> {}]
    /\ call = [k \in Caller |-> NoCall]
    /\ sent = {}
    /\ underway = [c \in Conv |-> {}]

-----------------------------------------------------------------------------

Free(k) == call[k].at \in {"idle"} \cup Answered

\* The answer of a request: a status, an id, the restored messages.
Answers(k, status, c, list) ==
    call' = [call EXCEPT ![k] = Request(status, c, NoMsg, list)]

Goes(k, to) == call' = [call EXCEPT ![k].at = to]

\* The client sends a request; the client of the old answer has used it.
Asks(k, what, c, m) ==
    /\ Free(k)
    /\ call' = [call EXCEPT ![k] = Request(what, c, m, <<>>)]

AskCreate(k) ==
    /\ Asks(k, "create", NoConv, NoMsg)
    /\ UNCHANGED <<conversation, title, rows, sent, underway>>

AskAppend(k, c, m) ==
    /\ m \notin sent
    /\ Asks(k, "append", c, m)
    /\ sent' = sent \cup {m}
    /\ UNCHANGED <<conversation, title, rows, underway>>

AskDelete(k, c) ==
    /\ Asks(k, "delete", c, NoMsg)
    /\ UNCHANGED <<conversation, title, rows, sent, underway>>

AskGet(k, c) ==
    /\ Asks(k, "get", c, NoMsg)
    /\ UNCHANGED <<conversation, title, rows, sent, underway>>

\* create: a new id, one insert.
Create(k) ==
    /\ call[k].at = "create"
    /\ \E c \in Conv :
          /\ conversation[c] = "none"
          /\ conversation' = [conversation EXCEPT ![c] = "live"]
          /\ Answers(k, "ok", c, <<>>)
    /\ UNCHANGED <<title, rows, sent, underway>>

Messages(c) == { r.msg : r \in rows[c] }

\* append_message reads the conversation: KeyError, so 404, when there is none.
AppendFinds(k) ==
    /\ call[k].at = "append"
    /\ LET c == call[k].conv IN
       \/ /\ conversation[c] = "live"
          /\ call' = [call EXCEPT ![k] = [@ EXCEPT !.at = "found",
                                                   !.untitled = (title[c] = NoMsg),
                                                   !.after = Messages(c)]]
       \/ /\ conversation[c] # "live"
          /\ Answers(k, "missing", NoConv, <<>>)
    /\ UNCHANGED <<conversation, title, rows, sent, underway>>

\* Then it counts the messages: the next number.
AppendCounts(k) ==
    /\ call[k].at = "found"
    /\ call' = [call EXCEPT ![k] = [@ EXCEPT !.at = "counted",
                                             !.seq = Cardinality(rows[call[k].conv])]]
    /\ UNCHANGED <<conversation, title, rows, sent, underway>>

NewRow(k) == [msg |-> call[k].msg, seq |-> call[k].seq, after |-> call[k].after]

\* Mutant: every message gives the conversation its title.
AppendWritesTitle(k) ==
    /\ call[k].at = "counted"
    /\ LET c == call[k].conv IN
       \/ /\ conversation[c] # "live"
          /\ Answers(k, "failed", NoConv, <<>>)
          /\ UNCHANGED <<title, rows>>
       \/ /\ conversation[c] = "live"
          /\ title' = [title EXCEPT ![c] = call[k].msg]
          /\ rows' = [rows EXCEPT ![c] = @ \cup {NewRow(k)}]
          /\ Answers(k, "ok", c, <<>>)
    /\ UNCHANGED <<conversation, sent, underway>>

\* A conversation that had no title gets one of a source that strip() leaves.
Titles(k) == call[k].untitled /\ call[k].msg \notin Blank

\* And commits: the row, and the title when it sets one.  A title for a
\* conversation deleted meanwhile updates no row, which SQLAlchemy refuses
\* (StaleDataError); without a title the row is inserted all the same.
AppendWrites(k) ==
    /\ call[k].at = "counted"
    /\ LET c == call[k].conv IN
       \/ /\ Titles(k) /\ conversation[c] # "live"
          /\ Answers(k, "failed", NoConv, <<>>)
          /\ UNCHANGED <<title, rows>>
       \/ /\ Titles(k) => conversation[c] = "live"
          /\ title' = [title EXCEPT ![c] = IF Titles(k) THEN call[k].msg ELSE @]
          /\ rows' = [rows EXCEPT ![c] = @ \cup {NewRow(k)}]
          /\ Answers(k, "ok", c, <<>>)
    /\ UNCHANGED <<conversation, sent, underway>>

\* delete reads the conversation, and then deletes the messages and its row,
\* if another request has not.
DeleteFinds(k) ==
    /\ call[k].at = "delete"
    /\ IF conversation[call[k].conv] = "live"
       THEN Goes(k, "deleting")
       ELSE Answers(k, "missing", NoConv, <<>>)
    /\ UNCHANGED <<conversation, title, rows, sent, underway>>

Saving(c) ==
    { call[k].msg : k \in { j \in Caller : call[j].at \in {"found", "counted"}
                                             /\ call[j].conv = c } }

\* Mutant: the messages are left to a cascade the statement does not trigger.
DeleteWritesRowOnly(k) ==
    /\ call[k].at = "deleting"
    /\ LET c == call[k].conv IN
       /\ title' = [title EXCEPT ![c] = NoMsg]
       /\ conversation' = [conversation EXCEPT ![c] = "deleted"]
       /\ underway' = [underway EXCEPT ![c] = IF conversation[c] = "live" THEN Saving(c) ELSE @]
       /\ Answers(k, "ok", c, <<>>)
    /\ UNCHANGED <<rows, sent>>

DeleteWrites(k) ==
    /\ call[k].at = "deleting"
    /\ LET c == call[k].conv IN
       /\ rows' = [rows EXCEPT ![c] = {}]
       /\ title' = [title EXCEPT ![c] = NoMsg]
       /\ conversation' = [conversation EXCEPT ![c] = "deleted"]
       /\ underway' = [underway EXCEPT ![c] = IF conversation[c] = "live" THEN Saving(c) ELSE @]
       /\ Answers(k, "ok", c, <<>>)
    /\ UNCHANGED sent

\* get_detail reads the conversation, and then its messages by number; rows of
\* one number come in any order.
GetFinds(k) ==
    /\ call[k].at = "get"
    /\ IF conversation[call[k].conv] = "live"
       THEN Goes(k, "reading")
       ELSE Answers(k, "missing", NoConv, <<>>)
    /\ UNCHANGED <<conversation, title, rows, sent, underway>>

Injective(list) == \A i, j \in DOMAIN list : list[i] = list[j] => i = j

\* Mutant: the query has no ORDER BY.
AnyOrder(R) == { list \in [1..Cardinality(R) -> R] : Injective(list) }

BySeq(R) ==
    { list \in [1..Cardinality(R) -> R] :
        Injective(list) /\ \A i, j \in DOMAIN list : i < j => list[i].seq <= list[j].seq }

GetReads(k) ==
    /\ call[k].at = "reading"
    /\ \E list \in BySeq(rows[call[k].conv]) : Answers(k, "ok", call[k].conv, list)
    /\ UNCHANGED <<conversation, title, rows, sent, underway>>

\* The database fails (it is locked for too long, say): nothing is committed.
CallFails(k) ==
    /\ ~Free(k)
    /\ Answers(k, "failed", NoConv, <<>>)
    /\ UNCHANGED <<conversation, title, rows, sent, underway>>

\* The client is done with the answer.
Returns(k) ==
    /\ call[k].at \in Answered
    /\ call' = [call EXCEPT ![k] = NoCall]
    /\ UNCHANGED <<conversation, title, rows, sent, underway>>

-----------------------------------------------------------------------------

Known == { c \in Conv : conversation[c] # "none" }

Ask(k) ==
    \/ AskCreate(k)
    \/ \E c \in Known : AskDelete(k, c) \/ AskGet(k, c)
    \/ \E c \in Known, m \in Msg : AskAppend(k, c, m)

HandlerStep(k) ==
    \/ Create(k)
    \/ AppendFinds(k)
    \/ AppendCounts(k)
    \/ AppendWrites(k)
    \/ DeleteFinds(k)
    \/ DeleteWrites(k)
    \/ GetFinds(k)
    \/ GetReads(k)

Next == \E k \in Caller : Ask(k) \/ HandlerStep(k) \/ CallFails(k) \/ Returns(k)

Spec == Init /\ [][Next]_store

-----------------------------------------------------------------------------
(* Properties.                                                             *)

\* Every variable holds a value of its kind; a request knows its conversation.
TypeOK ==
    /\ conversation \in [Conv -> {"none", "live", "deleted"}]
    /\ title \in [Conv -> Msg \cup {NoMsg}]
    /\ rows \in [Conv -> SUBSET Row]
    /\ sent \subseteq Msg
    /\ underway \in [Conv -> SUBSET Msg]
    /\ call \in [Caller -> Call]
    /\ \A k \in Caller :
          /\ call[k].at \in At \ ({"idle", "create"} \cup Answered) => call[k].conv \in Conv
          /\ call[k].at \in {"append", "found", "counted"} => call[k].msg \in sent

\* Messages keep their order through a restore: whatever saves overlap, and
\* however often they take the same number, no message comes before one that
\* was stored when its own save began.
RestoredInOrder ==
    \A k \in Caller : LET list == call[k].restored IN
        \A i, j \in DOMAIN list : i < j => list[j].msg \notin list[i].after

\* A conversation is named after its first message that is not blank, or after
\* one of those saved at the same time as that one: what was stored when the
\* save began was blank.  It goes without a name only while all it holds is.
TitleOfFirstMessage ==
    \A c \in Conv :
        /\ title[c] # NoMsg =>
              \E r \in rows[c] : r.msg = title[c] /\ r.msg \notin Blank /\ r.after \subseteq Blank
        /\ (title[c] = NoMsg /\ conversation[c] = "live") => Messages(c) \subseteq Blank

\* Deleting removes every message for good: what the table holds under the id
\* of a deleted conversation was being saved at the moment it was deleted.
OrphansOverlapDelete ==
    \A c \in Conv : conversation[c] = "deleted" => Messages(c) \subseteq underway[c]
=============================================================================
