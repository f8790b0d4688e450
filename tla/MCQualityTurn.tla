---------------------------- MODULE MCQualityTurn ----------------------------
(* Turns of one session for TLC, with the model names of the settings and  *)
(* of SessionConfig.                                                       *)
EXTENDS QualityTurn
=============================================================================
