SPECIFICATION FairSpec
CONSTANTS
    STORAGE_NUM = 2
    Enabled = {0, 1}
    Threads = {t1, t2}
    Writers = {}
    Clients = {}
    None = None
    Foreign = FALSE
    Faults = {}
    MaxEvents = 0
    MaxRestarts = 1
CHECK_DEADLOCK FALSE
PROPERTIES EnabledStreamRecords
