SPECIFICATION FairSpec
CONSTANTS
    d1 = d1
    d2 = d2
    cli = cli
    daemon = daemon
    exec = exec
    Nobody = Nobody
    Keys = {k1, k2}
    Callers <- MCCallers
    Procs <- MCProcs
    ProcOf <- MCProcOf
INVARIANTS
    TypeOK
    MutualExclusion
    NothingKept
PROPERTIES
    ImplementsKeyedMutex
    EntersOrReturns
