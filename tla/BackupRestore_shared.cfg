SPECIFICATION Spec
CONSTANTS
    b1 = b1
    b2 = b2
    r1 = r1
    r2 = r2
    c1 = c1
    c2 = c2
    v = v
    w = w
    daemon = daemon
    exec1 = exec1
    exec2 = exec2
    repo1 = repo1
    repo2 = repo2
    s3 = s3
    Nobody = Nobody
    Volumes = {v, w}
    Backends = {s3}
    Procs = {daemon, exec1, exec2}
    Repos = {repo1, repo2}
    Restores = {r1}
    StopMode = {b1}
    Daemons = {daemon}
    IncludeStopped = TRUE
    Env = {}
    Jobs <- TwoApps_Jobs
    Containers <- TwoApps_Containers
    ProcOf <- TwoApps_ProcOf
    RepoOf <- TwoApps_RepoOf
    BackendOf <- TwoApps_BackendOf
    Limit <- TwoApps_Limit
    ContainerOf <- TwoApps_ContainerOf
    SourcesOf <- TwoApps_SourcesOf
    MountsOf <- TwoApps_MountsOf
INVARIANTS
    RestoreQuiesced
CHECK_DEADLOCK FALSE
