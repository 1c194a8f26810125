\* Restarts, switches and orders of photos, with one video stream and audio.
SPECIFICATION FairSpec
CONSTANTS
    Vencs = {v0}
    Vi = v0
    Audio = Audio
    Sinks = {"rtsp"}
    Clients = {c1}
    None = None
    MaxOrders = 2
    MaxRestarts = 1
    MaxGlitches = 1
    MaxDebt = 1
INVARIANTS TypeOK FramesInsideSession ChannelInUse ThreadsPaired VideoRuns EveryPhotoSaved
PROPERTIES OrdersComplete CallsReturn
CHECK_DEADLOCK FALSE
