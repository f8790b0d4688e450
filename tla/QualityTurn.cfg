CONSTANTS
    Turn = {t1, t2}
    Model = {"hy-mt1.5-1.8b", "Qwen/Qwen3.5-4B", "qwen3-4b-instruct"}
    DraftModel = "hy-mt1.5-1.8b"
    QualityModel = "Qwen/Qwen3.5-4B"
    DefaultModel = "qwen3-4b-instruct"
    Permits = 1
    MaxTokens = 2
    ContextTurns = 1
SPECIFICATION FairSpec
INVARIANTS
    TypeOK
    LaterTurnsCountOn
    AnswerIsOneAttempt
    AnsweredIsStored
PROPERTY TurnEnds
CHECK_DEADLOCK FALSE
