SPECIFICATION TaskSpec
CONSTANTS
    None <- MCNone
    SourceId <- MCSourceId
    Sockets <- MCSockets
    SystemPaths <- MCSystemPaths
    Anonymous = {"hex"}
    SafeNames = {"web", "shop", "url"}
    Profiles <- MCProfiles
    Defaults <- MCDefaults
    Tasks <- MCTasks
    WorkerSpecs <- MCWorkerSpecs
    Env = {"docker", "signal", "crash", "others", "early"}
INVARIANTS TypeOK  CleanedUp   LocksAreRepositories SlotsAreBackends
PROPERTIES OnlyCommandsBlock ImplementsWork
CHECK_DEADLOCK FALSE
