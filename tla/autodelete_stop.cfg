SPECIFICATION FairSpec
CONSTANTS
    NoFile = NoFile
    FolderNum = 1
    Files = {1, 2}
    FolderOf <- MCFolderOne
    FileSize <- MCFileSize
    Present = {1}
    Capacity = 3
    free_size_del_min = 1
    NumLimit = TRUE
    Limit <- MCLimitZero
    ReadSlack = 2
    OffMax = 127
    Faults = {"early", "stop", "umount", "delete", "move", "statfs", "mkdir", "opendir", "inotify", "overflow"}
INVARIANTS TypeOK MonitorInsideFolders ListsConsistent QuiescentMirror
PROPERTIES StopReturns
CHECK_DEADLOCK FALSE
