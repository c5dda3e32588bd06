SPECIFICATION Spec
CONSTANTS
    Count = 2
    Horizon = 22
    Calendar <- ShortCalendar
    BaseYear = 2015
    ThresholdYear = 2018
    Any = 255
    Always = 255
    Dims = {0, 50, 100}
    DimDefault = 100
    Tables <- ShortTables
INVARIANTS TypeOK RepeatIsHonoured
