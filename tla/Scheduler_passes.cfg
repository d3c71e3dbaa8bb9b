SPECIFICATION FairSpec
CONSTANTS
    c1 = c1
    c2 = c2
    bad = bad
    n1 = n1
    n2 = n2
    Nothing = Nothing
    Containers = {c1, c2, bad}
    Names = {n1, n2}
    Invalid = {bad}
    Labeled = {c1}
    Stops = {c1}
    IncludeStopped = FALSE
    Modes = {"daemon", "once"}
    MaxEntries = 3
    MaxChanges = 2
    CallsFail = TRUE
INVARIANTS
    TypeOK
    ScheduleIsWhatWasFound
    EntriesMatchCron
PROPERTIES
    NoEntryLost
    Converges
    Rescheduled
CHECK_DEADLOCK FALSE
