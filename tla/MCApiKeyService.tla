--------------------------- MODULE MCApiKeyService ---------------------------
(* API keys for TLC: one bootstrap key and one that is issued, or invented *)
(* by a caller before it is issued.                                        *)
EXTENDS ApiKeyService
=============================================================================
