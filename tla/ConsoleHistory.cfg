SPECIFICATION HistoryFairSpec
CONSTANTS
    Operator = operator
    Customer = customer
    Opener = opener
    Remover = remover
    Other = other
    Side <- MCSide
    Caller <- MCCaller
    c1 = c1
    c2 = c2
    Conv <- MCConv
    m1 = m1
    m2 = m2
    b = b
    Msg <- MCMsg
    Blank <- MCBlank
    NoConv = NoConv
    NoMsg = NoMsg
    MaxOpens = 1
    MaxChanges = 1
INVARIANTS
    HistoryTypeOK
    RestoredInOrder
    TitleOfFirstMessage
    OrphansOverlapDelete
    CalmScreenIsConversation
PROPERTY SendEnds
CHECK_DEADLOCK FALSE
