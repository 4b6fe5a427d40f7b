SPECIFICATION DmSpec
CONSTANTS
    Mode = {"guest", "peer"}
    MAX_MESSAGE_ATTEMPTS = 2
    SendAttempts = 2
    MaxQuestions = 2
    MaxExits = 1
    Slots = {1, 2}
    MAX_ESCALATIONS_PER_TURN = 1
    MaxTurns = 2
    MaxCalls = 3
    MaxCommands = 1
    MaxStops = 1
    Pids = {p1, p2}
    Nobody = nobody
    RestartAfter = 1
    MinRestartGap = 2
    RateWindow = 5
    MaxRestarts = 2
    MaxTime = 6
    MaxLaunches = 3
    Rows = {1, 2, 3}
    MAX_PENDING = 2
    MAX_BATCH = 2
    MAX_ATTEMPTS = 2
    MaxFaults = 1
    MaxKills = 1
    Runtimes = {"claude", "codex"}
    Visitors = {v1, v2}
    NoSession = 0
    MaxSessions = 4
    MaxLosses = 1
INVARIANTS
    TypeOK
    PassedQuestionsAreSettled
    AttemptsAreBounded
    OneReplyPerQuestion
    
    
PROPERTIES
    LoopCatchesUp
    HostSettles
CHECK_DEADLOCK FALSE
