SPECIFICATION Spec
CONSTANTS
    PauseResume = TRUE
    DefaultDisconnectType = "DETACH"
    ErrLimit = 1
    Timers = {"Launch", "Terminate"}
    Resources = {}
    ReduceTimes = 1
    DisconnectWaitLimit = 1
    MinPeriod = 1
    Configs <- OneConfig
    DefaultConfig <- Offline
    Requests = {}
PROPERTIES CycleProgresses DisconnectIsServed SleepsAgain
