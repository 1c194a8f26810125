\* Settings, users, restarts and crashes; nobody overlaps an unlocked call.
SPECIFICATION FairSpec
CONSTANTS
    NoField = NoField
    NoValue = NoValue
    DICTMINSZ = 2
    Reread <- MCReread
    Clients = {c1, c2}
    Main = Main
    None = None
    System = System
    u0 = u0
    u1 = u1
    Users = {u0, u1}
    plain = plain
    marked = marked
    Values = {marked}
    Levels = {10}
    Torn = Torn
    Factory <- MCFactory
    Import <- MCImport
    Faults = {"fopen"}
    MaxRequests = 2
    MaxBoots = 1
INVARIANTS TypeOK ProbeTerminates UserCount
PROPERTIES ImplementsStore RequestsReturn
CHECK_DEADLOCK FALSE
