SPECIFICATION Spec
CONSTANTS
    ko = ko
    en = en
    vi = vi
    ja = ja
    Blank = Blank
    Mark <- MCMark
    NoLogprob = NoLogprob
    Lang <- MCLang
    Supported <- MCSupported
    Chunk <- MCChunk
    Request <- MCRequest
    LogThreshold <- MCLogThreshold
    MaxChunks = 3
INVARIANTS
    AnswerIsOneAttempt
    VerificationIsWhole
CHECK_DEADLOCK FALSE
