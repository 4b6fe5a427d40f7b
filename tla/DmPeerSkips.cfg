SPECIFICATION Spec
CONSTANTS
    Mode = {"peer"}
    MAX_MESSAGE_ATTEMPTS = 3
    SendAttempts = 2
    MaxQuestions = 2
    MaxExits = 1
INVARIANTS
    FailedQuestionsAreRetried
CHECK_DEADLOCK FALSE
