SPECIFICATION Spec
CONSTANTS
    Size = 5
    First = 254
    Last = 127
    Data = {3, 127, 254}
    Modes = {0, 1}
    ModeIndex = 2
    MaxLost = 6
    None = None
INVARIANT TypeOK
PROPERTIES ReceivedIsOneFrame MeasurementArrives ModeArrives
