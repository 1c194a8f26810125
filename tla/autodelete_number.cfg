\* Limits by number, with writers after the watches and users who delete files.
SPECIFICATION TimedSpec
CONSTANTS
    NoFile = NoFile
    FolderNum = 2
    Files = {1, 2, 3, 5}
    FolderOf <- MCFolderOf
    FileSize <- MCFileSize
    Present = {1, 2, 3}
    Capacity = 5
    free_size_del_min = 1
    NumLimit = TRUE
    Limit <- MCLimitTwo
    ReadSlack = 2
    OffMax = 127
    Faults = {"delete"}
CHECK_DEADLOCK FALSE
INVARIANTS ConsistentVictim NumPassFloor
PROPERTIES NumLimitEnforced
