\* Parameters changed at any time, restarts of the display and of the masks.
SPECIFICATION FairSpec
CONSTANTS
    MAX_OSD_NUM = 2
    FactoryType <- MCFactoryType
    MaxSets = 4
    MaxCalls = 3
INVARIANTS TypeOK ShownMatches ClockSafe OneClock
PROPERTIES RestartsReturn
CHECK_DEADLOCK FALSE
