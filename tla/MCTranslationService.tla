------------------------ MODULE MCTranslationService ------------------------
EXTENDS TranslationService

CONSTANTS ko, en, vi, ja

MCLang == {ko, en, vi, ja}
MCSupported == {ko, en, vi}

MCMark == {Blank, "x"}

MCChunk == [text : {<<"x">>, <<Blank, "x">>}, lp : {NoLogprob, 0, -2}]
               \cup [text : {<<Blank>>}, lp : {-2}]

MCRequest ==
    [src : {ko}, tgt : {en, ko}, witness : {<<>>, <<ja, en, ko, ja>>, <<en, vi>>},
     verify : BOOLEAN]

MCLogThreshold == -1
=============================================================================
