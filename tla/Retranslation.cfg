SPECIFICATION FairSpec
CONSTANTS
    ko = ko
    en = en
    vi = vi
    Lang <- MCLang
    Supported <- MCLang
    Source = ko
    Target = en
    Witness = en
    c1 = c1
    c2 = c2
    Conv <- MCConv
    PairOf <- MCPairOf
    NoConv = NoConv
    MaxMsgs = 2
    MaxChanges = 3
INVARIANTS
    TypeOK
    TranslationIsOfItsSource
    CalmScreenIsInTarget
PROPERTY RetranslationEnds
CHECK_DEADLOCK FALSE
