SPECIFICATION FairSpec
CONSTANTS
    d1 = d1
    d2 = d2
    x = x
    free = free
    daemon = daemon
    exec = exec
    unlimited = unlimited
    Nobody = Nobody
    Keys = {k1}
    Callers <- MCCallers
    Procs <- MCProcs
    ProcOf <- MCProcOf
    Capacity <- MCCapacity
INVARIANTS
    TypeOK
    AtMostLimit
    NothingKept
PROPERTIES
    ImplementsSemaphore
    EntersOrReturns
