SPECIFICATION SpecParallel
CONSTANTS
    va = va
    vb = vb
    Types = {0, 1, 2}
    Values = {va, vb}
    Calls <- MCCalls
    Writers = {w1, w2}
    Size = 4
    Versions = 16
    MaxVersion = 3
    MaxSwitches = 1
INVARIANTS WritesGoToBlank
