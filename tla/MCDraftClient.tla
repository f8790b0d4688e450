---------------------------- MODULE MCDraftClient ----------------------------
(* The console's draft state machine for TLC: the client only tells a text *)
(* from a blank one, so one text is enough.                                *)
EXTENDS DraftClient
=============================================================================
