SPECIFICATION Spec
CONSTANTS
    b1 = b1
    m1 = m1
    r1 = r1
    x1 = x1
    c1 = c1
    c2 = c2
    a1 = a1
    a2 = a2
    v = v
    w = w
    d = d
    Nobody = Nobody
    Containers = {c1, c2}
    Apps = {a1, a2}
    Volumes = {v, w, d}
    Named = {v, w}
    Jobs = {b1, r1, x1}
    Scheduled = {b1}
    Manual = {}
    All = {x1}
    SkipSafety = {r1}
    Faults = TRUE
    MaxVersion = 2
    AppOf <- TwoApps
    Mounts <- Shared_Mounts
    Target <- Targets
    Keep <- KeepOneOfFirst
    HostOf <- OneHost
INVARIANTS
    AccountsForAll
PROPERTIES
    
    RestoresItsPlan
CHECK_DEADLOCK FALSE
