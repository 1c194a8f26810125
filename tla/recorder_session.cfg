\* Everything may overlap: the muxer lock alone has to protect the session.
SPECIFICATION Spec
CONSTANTS
    STORAGE_NUM = 2
    Enabled = {0, 1}
    Threads = {t1, t2}
    Writers = {w1}
    Clients = {c1}
    None = None
    Foreign = FALSE
    Faults = {"mount", "mkdir", "overlap"}
    MaxEvents = 1
    MaxRestarts = 1
CHECK_DEADLOCK FALSE
INVARIANTS TypeOK RunMatchesSession NoDoubleInit
PROPERTIES ImplementsSession
