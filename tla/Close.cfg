SPECIFICATION Spec
CONSTANTS
    PauseResume = FALSE
    DefaultDisconnectType = "DETACH"
    ErrLimit = 0
    Timers = {"Launch", "Terminate", "NodeRegister"}
    Resources = {"r1"}
    ReduceTimes = 1
    DisconnectWaitLimit = 1
    MinPeriod = 1
    Configs <- OneConfig
    DefaultConfig <- Offline
    Requests = {"NodeRegister", "FWUpdate", "FactoryReset"}
INVARIANTS OnlineMeansConnected SessionMeansRegistered WaitIsGuarded
