SPECIFICATION Spec
CONSTANTS
    b1 = b1
    m1 = m1
    r1 = r1
    x1 = x1
    c1 = c1
    c2 = c2
    a1 = a1
    a2 = a2
    v = v
    w = w
    d = d
    Nobody = Nobody
    Containers = {c1, c2}
    Apps = {a1, a2}
    Volumes = {v, w, d}
    Named = {v, w}
    Jobs = {b1, m1, r1}
    Scheduled = {b1}
    Manual = {m1}
    All = {}
    SkipSafety = {}
    Faults = FALSE
    MaxVersion = 2
    AppOf <- OneApp
    Mounts <- Distinct_Mounts
    Target <- Targets
    Keep <- KeepOne
    HostOf <- OwnHosts
PROPERTIES
    KeepsLastN
CHECK_DEADLOCK FALSE
