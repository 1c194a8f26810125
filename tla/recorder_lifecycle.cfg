\* Hotplug that does not overlap with init and deinit, and a client that starts and
\* stops recordings by hand: life cycle of threads and signals.
SPECIFICATION FairSpec
CONSTANTS
    STORAGE_NUM = 3
    Enabled = {0, 2}
    Threads = {t1, t2, t3, t4}
    Writers = {}
    Clients = {c1}
    None = None
    Foreign = TRUE
    Faults = {}
    MaxEvents = 2
    MaxRestarts = 1
CHECK_DEADLOCK FALSE
INVARIANTS OneRecorder NoUndefinedBehaviour DeinitLeavesNothing
PROPERTIES DeinitReturnsEventually RemovalStopsRecording RecordingResumes
