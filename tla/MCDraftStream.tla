---------------------------- MODULE MCDraftStream ----------------------------
(* The draft path end to end for TLC. *)
EXTENDS DraftStream
=============================================================================
