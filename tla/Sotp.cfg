SPECIFICATION Spec
CONSTANTS
    va = va
    vb = vb
    Types = {0, 1, 2}
    Values = {va, vb}
    Calls <- MCCalls
    Writers = {w1}
    Size = 4
    Versions = 16
    MaxVersion = 3
    MaxSwitches = 1
INVARIANTS TypeOK WritesGoToBlank GetFindsItem
PROPERTIES ImplementsStore GetEnds SetEnds
