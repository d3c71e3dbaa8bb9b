SPECIFICATION Spec
CONSTANTS
    b1 = b1
    b2 = b2
    r1 = r1
    r2 = r2
    c1 = c1
    c2 = c2
    v = v
    w = w
    daemon = daemon
    exec1 = exec1
    exec2 = exec2
    repo1 = repo1
    repo2 = repo2
    s3 = s3
    Nobody = Nobody
    Volumes = {v, w}
    Backends = {s3}
    Procs = {daemon, exec1, exec2}
    Repos = {repo1, repo2}
    Restores = {r1}
    StopMode = {b1, b2}
    Daemons = {daemon}
    IncludeStopped = TRUE
    Env = {"docker", "signal", "crash", "timeout"}
    Jobs <- OneApp_Jobs
    Containers <- OneApp_Containers
    ProcOf <- OneApp_ProcOf
    RepoOf <- OneApp_RepoOf
    BackendOf <- OneApp_BackendOf
    Limit <- OneApp_Limit
    ContainerOf <- OneApp_ContainerOf
    SourcesOf <- OneApp_SourcesOf
    MountsOf <- OneApp_MountsOf
INVARIANTS
    TypeOK
    OneWriterPerRepository
    NothingLeftDown
    RestoreQuiesced
    LocksMatch
CHECK_DEADLOCK FALSE
