SPECIFICATION TimedSpec
CONSTANTS
    NoFile = NoFile
    FolderNum = 2
    Files = {1, 2, 3, 4}
    FolderOf <- MCFolderOf
    FileSize <- MCFileSize
    Present = {2}
    Capacity = 4
    free_size_del_min = 2
    NumLimit = FALSE
    Limit <- MCQuota
    ReadSlack = 2
    OffMax = 32767
    Faults = {}
PROPERTIES SpaceReclaimed
