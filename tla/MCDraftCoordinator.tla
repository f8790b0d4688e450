------------------------- MODULE MCDraftCoordinator -------------------------
(* The draft connection for TLC.  This client types one text, which may be *)
(* rendered several times; other connections also store a key of their     *)
(* own, so that a cache of one entry evicts.                               *)
EXTENDS DraftCoordinator
=============================================================================
