\* Two server threads add users at the same time, without a lock.
SPECIFICATION Spec
CONSTANTS
    NoField = NoField
    NoValue = NoValue
    DICTMINSZ = 2
    Reread <- MCReread
    Clients = {c1, c2}
    Main = Main
    None = None
    System = System
    u0 = u0
    u1 = u1
    Users = {u0, u1}
    plain = plain
    marked = marked
    Values = {marked}
    Levels = {10}
    Torn = Torn
    Factory <- MCFactory
    Import <- MCImport
    Faults = {"race"}
    MaxRequests = 2
    MaxBoots = 0
INVARIANTS ProbeTerminates
CHECK_DEADLOCK FALSE
