\* A restart, with all outputs; no photos.
SPECIFICATION Spec
CONSTANTS
    Vencs = {v0}
    Vi = v0
    Audio = Audio
    Sinks = {"rtsp", "rtmp"}
    Clients = {c1}
    None = None
    MaxOrders = 0
    MaxRestarts = 1
    MaxGlitches = 0
    MaxDebt = 1
INVARIANTS AudioRuns
CHECK_DEADLOCK FALSE
