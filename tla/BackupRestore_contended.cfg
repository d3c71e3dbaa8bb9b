SPECIFICATION FairSpec
CONSTANTS
    b1 = b1
    b2 = b2
    r1 = r1
    r2 = r2
    c1 = c1
    c2 = c2
    v = v
    w = w
    daemon = daemon
    exec1 = exec1
    exec2 = exec2
    repo1 = repo1
    repo2 = repo2
    s3 = s3
    Nobody = Nobody
    Volumes = {v, w}
    Backends = {s3}
    Procs = {daemon, exec1, exec2}
    Repos = {repo1, repo2}
    Restores = {r1, r2}
    StopMode = {b1, b2}
    Daemons = {daemon}
    IncludeStopped = FALSE
    Env = {"user"}
    Jobs <- Contended_Jobs
    Containers <- Contended_Containers
    ProcOf <- Contended_ProcOf
    RepoOf <- Contended_RepoOf
    BackendOf <- Contended_BackendOf
    Limit <- Contended_Limit
    ContainerOf <- Contended_ContainerOf
    SourcesOf <- Contended_SourcesOf
    MountsOf <- Contended_MountsOf
INVARIANTS
    WritersWithinLimit
    
    
PROPERTIES
    EveryJobEnds
CHECK_DEADLOCK FALSE
