--------------------------- MODULE RevisionStream ---------------------------
(***************************************************************************)
(* What one draft connection promises its client, whatever the tasks,      *)
(* engine streams and cache do behind it: revisions are accepted in        *)
(* increasing order, and the only answer ever given is one to the newest   *)
(* accepted revision, at most once.  DraftCoordinator implements it.       *)
(***************************************************************************)
EXTENDS Integers, Sequences

CONSTANT MaxRev     \* bound: revision ids are 0..MaxRev

VARIABLES
    newest,         \* the revision accepted last, -1 before the first
    answered        \* the revisions answered, in order

Init ==
    /\ newest = -1
    /\ answered = <<>>

Accept(r) ==
    /\ r > newest
    /\ newest' = r
    /\ UNCHANGED answered

Answer ==
    /\ newest >= 0
    /\ \A i \in DOMAIN answered : answered[i] # newest
    /\ answered' = Append(answered, newest)
    /\ UNCHANGED newest

Next ==
    \/ \E r \in 0..MaxRev : Accept(r)
    \/ Answer

Spec == Init /\ [][Next]_<<newest, answered>>
=============================================================================
