SPECIFICATION Spec
CONSTANTS
    NoFile = NoFile
    FileNames = {a, b, c, d}
    MaxTime = 2
    Sizes = {1, 3}
INVARIANTS ListIsContents CountersMatch LastIsOldest
