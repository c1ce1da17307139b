SPECIFICATION FairSpec
CONSTANTS
    MailboxSize = 1
    LeaseTtl = 1
    MaxFailures = 1
    Codes = {1}
    MaxTokens = 2
    MaxLeases = 2
    MaxRequests = 2
    MaxRestarts = 1
INVARIANTS
    OncePerRevision
    AnswersAreTrue
    NoAnswerIsLost
    TokenSurvivesRestart
PROPERTIES
    WritesStartAuthorized
    QueuedIsDecided
CHECK_DEADLOCK FALSE
