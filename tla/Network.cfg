SPECIFICATION Spec
CONSTANTS
    Threads = {"main", "app"}
    Modules = {"BC95G", "R410M"}
    MaxFaults = 2
    None = None
    Tries = 2
    BandTries = 2
    PsmTries = 2
    SignalQueries = 1
    Servers = 2
    Enlargements = 1
    NtpRetries = 2
INVARIANTS TypeOK BandsChecked AttachTakesEffect
PROPERTIES BootEnds DisconnectServed OnlyUncountedForEver
