SPECIFICATION Spec
CONSTANTS
    PauseResume = TRUE
    DefaultDisconnectType = "DETACH"
    ErrLimit = 0
    Timers = {"Launch", "Terminate", "Status", "Data"}
    Resources = {}
    ReduceTimes = 1
    DisconnectWaitLimit = 1
    MinPeriod = 1
    Configs <- StatusConfigs
    DefaultConfig <- Offline
    Requests = {"Config"}
INVARIANTS StatusStaysScheduled
