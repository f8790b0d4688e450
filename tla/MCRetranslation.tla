-------------------------- MODULE MCRetranslation --------------------------
EXTENDS Retranslation

CONSTANTS ko, en, vi, c1, c2

MCLang == {ko, en, vi}
MCConv == {c1, c2}
MCPairOf == [c \in MCConv |-> IF c = c1 THEN [src |-> ko, tgt |-> en]
                                       ELSE [src |-> en, tgt |-> vi]]
=============================================================================
