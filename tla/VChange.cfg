SPECIFICATION Spec
CONSTANTS
    Fields = {"period", "flag"}
    Periods = {"period"}
    MinPeriod = 1
    Modulus <- Widths
    Versions = {1, 2}
    DefaultConfig <- Shipped
    NewConfigs <- Written
    Inputs = {0, 1, 3}
    Requests = {"Config"}
    AppWork = {}
    MediaFaults = FALSE
    NoFile = NoFile
INVARIANT ChangeIsStored
