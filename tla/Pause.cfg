SPECIFICATION Spec
CONSTANTS
    PauseResume = TRUE
    DefaultDisconnectType = "DETACH"
    ErrLimit = 0
    Timers = {"Launch", "Terminate"}
    Resources = {}
    ReduceTimes = 1
    DisconnectWaitLimit = 1
    MinPeriod = 1
    Configs <- KeepConfigs
    DefaultConfig <- Offline
    Requests = {"NodeRegister", "Config", "Field"}
INVARIANTS TypeOK Agreement WaitIsGuarded
PROPERTY ImplementsUploadCycle
