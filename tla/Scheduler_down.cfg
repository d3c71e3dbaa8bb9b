SPECIFICATION FairSpec
CONSTANTS
    c1 = c1
    c2 = c2
    bad = bad
    n1 = n1
    n2 = n2
    Nothing = Nothing
    Containers = {c1, c2}
    Names = {n1, n2}
    Invalid = {}
    Labeled = {c1}
    Stops = {c1}
    IncludeStopped = FALSE
    Modes = {"daemon"}
    MaxEntries = 3
    MaxChanges = 1
    CallsFail = FALSE
PROPERTIES
    StartedAgain
