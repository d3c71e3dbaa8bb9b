----------------------------- MODULE BackupRestore -----------------------------
(***************************************************************************)
(* The jobs of Volust: backups (RunSpecJobs in internal/daemon/daemon.go,  *)
(* from cron, daemon --once or the backup command) and restores            *)
(* (restoreCandidateWithSnapshot in internal/app/app.go), running side by  *)
(* side in the daemon and in docker exec commands.  A job waits for its    *)
(* locks and its write slot, stops containers through Docker, runs its     *)
(* commands in a worker container, starts the containers again and         *)
(* releases what it holds.                                                 *)
(*                                                                         *)
(* A job is one activation.  The locks are KeyedMutex (refined by          *)
(* LockManager), the write slots Semaphore (refined by WriteLimiter).      *)
(* The worker container of job j is called j; restores see it in Docker's  *)
(* list like any other container.                                          *)
(***************************************************************************)
EXTENDS Naturals, FiniteSets

CONSTANTS
    Jobs, Containers, Volumes, Procs, Repos, Backends, Nobody,
    Restores,       \* the jobs that are restores; the others are backups
    StopMode,       \* the backups with stop-before-backup in force
    Daemons,        \* the processes that run volust daemon
    ProcOf,         \* ProcOf[j]: the process of job j
    RepoOf,         \* RepoOf[j]: its restic repository (Profile.ForApp)
    BackendOf,      \* BackendOf[j]: its storage backend (BackendKey)
    Limit,          \* Limit[j]: the write limit of its process, 0 for none
    ContainerOf,    \* ContainerOf[j]: the application container of a backup
    SourcesOf,      \* SourcesOf[j]: what its worker mounts; one for a restore
    MountsOf,       \* MountsOf[c]: what application container c mounts
    IncludeStopped, \* VOLUST_INCLUDE_STOPPED_CONTAINERS
    Env             \* what the environment does, see Hazards

Hazards == {"timeout", "docker", "signal", "crash", "user"}

ASSUME BackupRestoreAssumption ==
    /\ IsFiniteSet(Jobs) /\ Jobs \cap Containers = {} /\ Nobody \notin Jobs
    /\ Restores \subseteq Jobs /\ StopMode \subseteq Jobs \ Restores
    /\ Daemons \subseteq Procs
    /\ ProcOf \in [Jobs -> Procs]
    /\ RepoOf \in [Jobs -> Repos] /\ BackendOf \in [Jobs -> Backends]
    /\ Limit \in [Jobs -> Nat]
    /\ ContainerOf \in [Jobs -> Containers]
    /\ SourcesOf \in [Jobs -> SUBSET Volumes]
    /\ \A j \in Restores : \E v \in Volumes : SourcesOf[j] = {v}
    /\ MountsOf \in [Containers -> SUBSET Volumes]
    /\ IncludeStopped \in BOOLEAN
    /\ Env \subseteq Hazards

VARIABLES
    phase,     \* phase[j]: what job j does next
    lock,      \* lock[k]: the job that owns lock key k
    slots,     \* slots[b]: the jobs that hold a write slot of backend b
    up,        \* the running containers, workers included
    workers,   \* the workers Docker knows: created and not removed
    seen,      \* the backups that found their container running (stale later)
    todo,      \* todo[j]: the containers j still has to stop
    stopped,   \* stopped[j]: those it stopped and has to start again
    err,       \* the jobs that return an error
    signalled, \* the processes whose context is cancelled
    downBy,    \* downBy[c]: the job that brought application container c
               \* down (history)
    lost       \* lost[j]: the application containers whose stop or start
               \* failed for j and that went, or stayed, down (history)

vars == <<phase, lock, slots, up, workers, seen, todo, stopped, err, signalled, downBy, lost>>
docker == <<up, workers, downBy, lost>>
plan == <<seen, todo, stopped>>
held == <<lock, slots>>

Backups == Jobs \ Restores
Boxes == Containers \cup Jobs

RepoKey(j) == <<"repo", RepoOf[j]>>
SourceKey(j) == <<"source", CHOOSE v \in Volumes : SourcesOf[j] = {v}>>
ContainerKey(j) == <<"container", ContainerOf[j]>>
LockKeys == ({"repo"} \X Repos) \cup ({"source"} \X Volumes) \cup ({"container"} \X Containers)

Locks == INSTANCE KeyedMutex WITH Callers <- Jobs, Keys <- LockKeys, owner <- lock
Slots == INSTANCE Semaphore WITH Callers <- Jobs, Keys <- Backends, holders <- slots

Phases == {"new", "listed", "repo", "source", "slot", "container", "list", "stop",
           "create", "work", "remove", "start", "unwind", "done", "dead"}

(* The jobs' progress, what they hold and what is up keep their types.     *)
TypeOK ==
    /\ phase \in [Jobs -> Phases]
    /\ lock \in [LockKeys -> Jobs \cup {Nobody}]
    /\ slots \in [Backends -> SUBSET Jobs]
    /\ up \subseteq Boxes
    /\ workers \subseteq Jobs
    /\ seen \subseteq Jobs
    /\ todo \in [Jobs -> SUBSET Boxes]
    /\ stopped \in [Jobs -> SUBSET Boxes]
    /\ err \subseteq Jobs
    /\ signalled \subseteq Procs
    /\ downBy \in [Containers -> Jobs \cup {Nobody}]
    /\ lost \in [Jobs -> SUBSET Containers]

(* Any set of application containers may be running; no job has begun.     *)
Init ==
    /\ phase = [j \in Jobs |-> "new"]
    /\ Locks!Init
    /\ Slots!Init
    /\ up \in SUBSET Containers
    /\ workers = {}
    /\ seen = {}
    /\ todo = [j \in Jobs |-> {}]
    /\ stopped = [j \in Jobs |-> {}]
    /\ err = {}
    /\ signalled = {}
    /\ downBy = [c \in Containers |-> Nobody]
    /\ lost = [j \in Jobs |-> {}]

HasLock(j, k) == k \in LockKeys /\ lock[k] = j
HasSlot(j) == j \in slots[BackendOf[j]]

GoTo(j, from, to) ==
    /\ phase[j] = from
    /\ phase' = [phase EXCEPT ![j] = to]

Fails(j, from, to) ==
    /\ GoTo(j, from, to)
    /\ err' = err \cup {j}

Blame(o, c) == downBy' = [d \in Containers |-> IF d = c THEN o ELSE downBy[d]]

(* A Docker call bound to the job's context fails.                         *)
CallFails(j) == "docker" \in Env \/ ProcOf[j] \in signalled

(* Who uses a source (usesSource): containers of any application, and the  *)
(* workers of other jobs.                                                  *)
Users(v) == {c \in Containers : v \in MountsOf[c]} \cup {i \in workers : v \in SourcesOf[i]}
SourceUsers(j) == UNION {Users(v) : v \in SourcesOf[j]}

StopsContainer(j) == j \in StopMode \cap seen

-------------------------------------------------------------------------------
(* Plausible bugs, which the properties below must catch.                  *)
BugRestoreSkipsRepo(j) ==
    /\ GoTo(j, "repo", IF j \in Restores THEN "source" ELSE "slot")
    /\ IF j \in Restores THEN UNCHANGED lock ELSE Locks!Acquire(j, RepoKey(j))
    /\ UNCHANGED <<slots, docker, plan, err, signalled>>

BugAllUnlimited(j) ==
    /\ GoTo(j, "slot", IF j \in Restores THEN "list"
                       ELSE IF StopsContainer(j) THEN "container" ELSE "create")
    /\ UNCHANGED <<held, docker, plan, err, signalled>>

BugStopsMounts(j) ==
    /\ GoTo(j, "list", "stop")
    /\ todo' = [todo EXCEPT ![j] = SourcesOf[j]]
    /\ UNCHANGED <<held, docker, seen, stopped, err, signalled>>

BugStopsOwnOnly(j) ==
    /\ LET using == {ContainerOf[j]} \cap up IN
       /\ GoTo(j, "list", IF using = {} THEN "create" ELSE "stop")
       /\ todo' = [todo EXCEPT ![j] = using]
    /\ UNCHANGED <<held, docker, seen, stopped, err, signalled>>

BugDownIsStopped(j, c) ==
    /\ c \in todo[j] \ up
    /\ GoTo(j, "stop", IF todo[j] = {c} THEN "create" ELSE "stop")
    /\ todo' = [todo EXCEPT ![j] = @ \ {c}]
    /\ stopped' = [stopped EXCEPT ![j] = @ \cup {c}]
    /\ UNCHANGED <<held, docker, seen, err, signalled>>

BugErrorSkipsRestart(j) ==
    /\ Fails(j, "work", "unwind")
    /\ UNCHANGED <<held, docker, plan, signalled>>

BugKeepsSlot(j) ==
    /\ GoTo(j, "unwind", "done")
    /\ lock' = [k \in LockKeys |-> IF lock[k] = j THEN Nobody ELSE lock[k]]
    /\ UNCHANGED <<slots, docker, plan, err, signalled>>

-------------------------------------------------------------------------------
(* Discovery: ListContainers takes Docker's list, then inspects each       *)
(* container; ContainerRunning is what the inspection says, and a cron     *)
(* entry keeps it for all its firings.  From "repo" on the job waits, for  *)
(* its cron time and then for its repository.                              *)
List(j) ==
    /\ j \in Backups
    /\ IncludeStopped \/ ContainerOf[j] \in up
    /\ GoTo(j, "new", "listed")
    /\ UNCHANGED <<held, docker, plan, err, signalled>>

Inspect(j) ==
    /\ GoTo(j, "listed", "repo")
    /\ seen' = IF ContainerOf[j] \in up THEN seen \cup {j} ELSE seen
    /\ UNCHANGED <<held, docker, todo, stopped, err, signalled>>

(* A restore was selected and confirmed.                                   *)
Confirm(j) ==
    /\ j \in Restores
    /\ GoTo(j, "new", "repo")
    /\ UNCHANGED <<held, docker, plan, err, signalled>>

AcquireRepo(j) ==
    /\ GoTo(j, "repo", IF j \in Restores THEN "source" ELSE "slot")
    /\ Locks!Acquire(j, RepoKey(j))
    /\ UNCHANGED <<slots, docker, plan, err, signalled>>

AcquireSource(j) ==
    /\ GoTo(j, "source", "slot")
    /\ Locks!Acquire(j, SourceKey(j))
    /\ UNCHANGED <<slots, docker, plan, err, signalled>>

AcquireSlot(j) ==
    /\ GoTo(j, "slot", IF j \in Restores THEN "list"
                       ELSE IF StopsContainer(j) THEN "container" ELSE "create")
    /\ \/ Limit[j] = 0 /\ UNCHANGED slots
       \/ Limit[j] > 0 /\ Slots!Acquire(j, BackendOf[j])
    /\ UNCHANGED <<lock, docker, plan, err, signalled>>

(* runWorkerWithStoppedContainer.                                          *)
AcquireContainer(j) ==
    /\ GoTo(j, "container", "stop")
    /\ Locks!Acquire(j, ContainerKey(j))
    /\ todo' = [todo EXCEPT ![j] = {ContainerOf[j]}]
    /\ UNCHANGED <<slots, docker, seen, stopped, err, signalled>>

(* VOLUST_LOCK_TIMEOUT, a cancelled context or a lock file that fails.     *)
GiveUp(j) ==
    /\ "timeout" \in Env \/ ProcOf[j] \in signalled
    /\ \E p \in {"repo", "source", "slot", "container"} : Fails(j, p, "unwind")
    /\ UNCHANGED <<held, docker, plan, signalled>>

-------------------------------------------------------------------------------
(* stopMountedContainers: the order of the stops is Docker's, hence any.   *)
ListUsers(j) ==
    /\ LET using == SourceUsers(j) \cap up IN
       /\ GoTo(j, "list", IF using = {} THEN "create" ELSE "stop")
       /\ todo' = [todo EXCEPT ![j] = using]
    /\ UNCHANGED <<held, docker, seen, stopped, err, signalled>>

(* The list, or the inspection of a worker that is removed meanwhile.      *)
ListFails(j) ==
    /\ CallFails(j) \/ workers # {}
    /\ Fails(j, "list", "unwind")
    /\ UNCHANGED <<held, docker, plan, signalled>>

(* StopContainer.                                                          *)
Stop(j, c) ==
    /\ c \in todo[j] \cap up
    /\ GoTo(j, "stop", IF todo[j] = {c} THEN "create" ELSE "stop")
    /\ up' = up \ {c}
    /\ todo' = [todo EXCEPT ![j] = @ \ {c}]
    /\ stopped' = [stopped EXCEPT ![j] = @ \cup {c}]
    /\ Blame(j, c)
    /\ UNCHANGED <<held, workers, seen, err, signalled, lost>>

(* An error: the container is down already (304 is not a success), gone,   *)
(* or the call failed, which does not say that Docker did not stop it.     *)
(* A restore starts what it stopped before; a backup stopped nothing.      *)
StopFails(j, c) ==
    /\ c \in todo[j]
    /\ Fails(j, "stop", "start")
    /\ todo' = [todo EXCEPT ![j] = {}]
    /\ \/ /\ c \notin up \/ CallFails(j)
          /\ UNCHANGED <<up, downBy, lost>>
       \/ /\ c \in up /\ CallFails(j)
          /\ up' = up \ {c}
          /\ Blame(j, c)
          /\ lost' = [lost EXCEPT ![j] = @ \cup ({c} \cap Containers)]
    /\ UNCHANGED <<held, workers, seen, stopped, signalled>>

(* RunWorker: create and start the worker, run the commands one by one in  *)
(* it, remove it whatever happened.                                        *)
CreateWorker(j) ==
    /\ GoTo(j, "create", "work")
    /\ up' = up \cup {j}
    /\ workers' = workers \cup {j}
    /\ UNCHANGED <<held, plan, err, signalled, downBy, lost>>

(* Without the exclude file of the safety backup, or without the worker;   *)
(* once it is created its start may fail and yet have happened.            *)
CreateFails(j) ==
    /\ \/ /\ CallFails(j) \/ j \in Restores
          /\ Fails(j, "create", "start")
          /\ UNCHANGED <<up, workers>>
       \/ /\ CallFails(j)
          /\ Fails(j, "create", "remove")
          /\ workers' = workers \cup {j}
          /\ up' \in {up, up \cup {j}}
    /\ UNCHANGED <<held, plan, signalled, downBy, lost>>

(* Its last command has ended; what becomes of the worker then is nothing  *)
(* to it.                                                                  *)
WorkSucceeds(j) ==
    /\ GoTo(j, "work", "remove")
    /\ UNCHANGED <<held, docker, plan, err, signalled>>

(* A command exits with an error, its worker is stopped under it, or the   *)
(* context is cancelled.                                                   *)
WorkFails(j) ==
    /\ Fails(j, "work", "remove")
    /\ UNCHANGED <<held, docker, plan, signalled>>

(* removeContainer ignores its result.                                     *)
RemoveWorker(j) ==
    /\ GoTo(j, "remove", "start")
    /\ \/ up' = up \ {j} /\ workers' = workers \ {j}
       \/ "docker" \in Env /\ UNCHANGED <<up, workers>>
    /\ UNCHANGED <<held, plan, err, signalled, downBy, lost>>

(* restartBackupContainer, restartContainers: with a context of their own. *)
Start(j, c) ==
    /\ phase[j] = "start"
    /\ c \in stopped[j] \ up
    /\ c \in Containers \cup workers
    /\ up' = up \cup {c}
    /\ stopped' = [stopped EXCEPT ![j] = @ \ {c}]
    /\ Blame(Nobody, c)
    /\ UNCHANGED <<phase, held, workers, seen, todo, err, signalled, lost>>

(* Running already (304), a worker removed meanwhile (404), or Docker      *)
(* fails; the others are started all the same.                             *)
StartFails(j, c) ==
    /\ phase[j] = "start"
    /\ c \in stopped[j]
    /\ c \in up \/ c \notin Containers \cup workers \/ "docker" \in Env
    /\ stopped' = [stopped EXCEPT ![j] = @ \ {c}]
    /\ err' = err \cup {j}
    /\ lost' = [lost EXCEPT ![j] = @ \cup (({c} \cap Containers) \ up)]
    /\ UNCHANGED <<phase, held, up, workers, seen, todo, signalled, downBy>>

Restarted(j) ==
    /\ stopped[j] = {}
    /\ GoTo(j, "start", "unwind")
    /\ UNCHANGED <<held, docker, plan, err, signalled>>

(* The nested calls return: what was taken last is released first.         *)
Unwind(j) ==
    /\ phase[j] = "unwind"
    /\ \/ /\ HasLock(j, ContainerKey(j))
          /\ Locks!Release(j, ContainerKey(j))
          /\ UNCHANGED <<phase, slots>>
       \/ /\ ~HasLock(j, ContainerKey(j))
          /\ Slots!Release(j, BackendOf[j])
          /\ UNCHANGED <<phase, lock>>
       \/ /\ ~HasLock(j, ContainerKey(j)) /\ ~HasSlot(j)
          /\ j \in Restores /\ Locks!Release(j, SourceKey(j))
          /\ UNCHANGED <<phase, slots>>
       \/ /\ ~HasLock(j, ContainerKey(j)) /\ ~HasSlot(j)
          /\ ~(j \in Restores /\ HasLock(j, SourceKey(j)))
          /\ \/ Locks!Release(j, RepoKey(j))
             \/ lock[RepoKey(j)] # j /\ UNCHANGED lock
          /\ phase' = [phase EXCEPT ![j] = "done"]
          /\ UNCHANGED slots
    /\ UNCHANGED <<docker, plan, err, signalled>>

-------------------------------------------------------------------------------
Ended == {"done", "dead"}
Begun(p) == {j \in Jobs : ProcOf[j] = p /\ phase[j] \notin Ended \cup {"new"}}

(* The daemon and the restore command turn SIGINT and SIGTERM into a       *)
(* cancelled context; the backup command does not, it is killed.           *)
Signal(p) ==
    /\ "signal" \in Env
    /\ p \notin signalled
    /\ p \in Daemons \/ \E j \in Restores : ProcOf[j] = p
    /\ signalled' = signalled \cup {p}
    /\ UNCHANGED <<phase, held, docker, plan, err>>

(* The process of p is gone: the kernel frees its locks and slots, while   *)
(* the workers and the stopped containers stay as they are in Docker.  The *)
(* jobs that had not begun run in the process started next.                *)
Die(p) ==
    /\ Begun(p) # {}
    /\ phase' = [j \in Jobs |-> IF j \in Begun(p) THEN "dead" ELSE phase[j]]
    /\ Locks!ReleaseAll(Begun(p))
    /\ Slots!ReleaseAll(Begun(p))
    /\ signalled' = signalled \ {p}
    /\ UNCHANGED <<docker, plan, err>>

Crash(p) == "crash" \in Env /\ Die(p)

(* runDaemon returns when its context is cancelled: RunScheduler does not  *)
(* wait for the cron jobs that run.                                        *)
DaemonExits(p) == p \in Daemons \cap signalled /\ Die(p)

(* Somebody stops and starts application containers, but starts none that  *)
(* a running job has stopped.                                              *)
UserStop(c) ==
    /\ "user" \in Env
    /\ c \in up
    /\ up' = up \ {c}
    /\ UNCHANGED <<phase, held, workers, plan, err, signalled, downBy, lost>>

UserStart(c) ==
    /\ "user" \in Env
    /\ c \notin up
    /\ downBy[c] \in {Nobody} \cup {j \in Jobs : phase[j] \in Ended}
    /\ up' = up \cup {c}
    /\ Blame(Nobody, c)
    /\ UNCHANGED <<phase, held, workers, plan, err, signalled, lost>>

-------------------------------------------------------------------------------
Discover(j) == List(j) \/ Inspect(j) \/ Confirm(j)
Acquire(j) == AcquireRepo(j) \/ AcquireSource(j) \/ AcquireSlot(j) \/ AcquireContainer(j)
Quiesce(j) == ListUsers(j) \/ ListFails(j) \/ \E c \in Boxes : Stop(j, c) \/ StopFails(j, c)
Work(j) == CreateWorker(j) \/ CreateFails(j) \/ WorkSucceeds(j) \/ WorkFails(j) \/ RemoveWorker(j)
Resume(j) == Restarted(j) \/ \E c \in Boxes : Start(j, c) \/ StartFails(j, c)

Next ==
    \/ \E j \in Jobs : Discover(j) \/ Acquire(j) \/ GiveUp(j) \/ Quiesce(j)
                       \/ Work(j) \/ Resume(j) \/ Unwind(j)
    \/ \E p \in Procs : Signal(p) \/ Crash(p) \/ DaemonExits(p)
    \/ \E c \in Containers : UserStop(c) \/ UserStart(c)

(* A goroutine that can go on does: locks are polled until they are free,  *)
(* Docker answers, and a worker's commands end.                            *)
Fairness ==
    \A j \in Jobs : WF_vars(Acquire(j) \/ Quiesce(j) \/ Work(j) \/ Resume(j) \/ Unwind(j))

Spec == Init /\ [][Next]_vars
FairSpec == Spec /\ Fairness

-------------------------------------------------------------------------------
Live(j) == phase[j] \notin {"new", "listed"} \cup Ended
Writing(j) == phase[j] \in {"work", "remove"}
Working == {j \in Jobs : Writing(j)}

(* Tasks of one repository never write at the same time, whichever         *)
(* processes they run in (RepositoryLockKey; daemon.go:198, app.go:499).   *)
OneWriterPerRepository ==
    \A i, j \in Working : RepoOf[i] = RepoOf[j] => i = j

(* The jobs that write to a backend respect its limit, stops and starts of *)
(* containers included (withWriteSlot, daemon.go:247; app.go:501).         *)
WritersWithinLimit ==
    \A b \in Backends : Slots!Fits({j \in Working : BackendOf[j] = b /\ Limit[j] > 0})

Restoring(j) == j \in Restores /\ phase[j] \in {"list", "stop", "create", "work", "remove", "start"}

(* Two restores of one source never overlap from the list of the           *)
(* containers in use to the last restart (SourceLockKey, app.go:500).      *)
RestoresExclusive ==
    \A i, j \in Restores :
        Restoring(i) /\ Restoring(j) /\ SourcesOf[i] = SourcesOf[j] => i = j

(* What a running job stopped and has not started yet is down, for no      *)
(* other job: neither a second job that wants the same container down nor  *)
(* the restarts of other jobs end the quiet (daemon.go:267, app.go:689).   *)
StoppedStaysDown ==
    \A j \in Jobs : Live(j) => \A c \in stopped[j] \cap Containers : c \notin up /\ downBy[c] = j

(* A backup that found its container running and stops containers works    *)
(* on a container that is down (daemon.go:267).                            *)
BackupQuiesced ==
    \A j \in Jobs : Writing(j) /\ StopsContainer(j) => ContainerOf[j] \notin up

(* However a job ends, by success, by a worker's error, by a timeout, by a *)
(* cancelled context: of the containers it stopped, only those that Docker *)
(* refused to start, or whose stop failed and happened, are still down     *)
(* (daemon.go:273, app.go:572).                                            *)
NothingLeftDown ==
    \A j \in Jobs, c \in Containers :
        phase[j] = "done" /\ downBy[c] = j => c \in lost[j] /\ j \in err

(* While a restore's worker overwrites a source, no other container that   *)
(* uses the source runs (app.go:502).                                      *)
RestoreQuiesced ==
    \A j \in Restores : phase[j] = "work" => SourceUsers(j) \cap up \subseteq {j}

(* A job holds the locks and the slot that its phase needs, and no lock or *)
(* slot belongs to a job that ended, however it ended, or that has no      *)
(* business with it (app.go:499-509, daemon.go:198, 247, 268).             *)
Locked == {"list", "stop", "create", "work", "remove", "start"}

HoldsWhatItNeeds ==
    /\ \A j \in Jobs : phase[j] \in Locked \cup {"source", "slot", "container"} => lock[RepoKey(j)] = j
    /\ \A j \in Restores : phase[j] \in Locked \cup {"slot"} => lock[SourceKey(j)] = j
    /\ \A j \in StopMode \cap seen : phase[j] \in Locked => lock[ContainerKey(j)] = j
    /\ \A j \in Jobs : phase[j] \in Locked \cup {"container"} /\ Limit[j] > 0 => HasSlot(j)

Keys(j) == {k \in LockKeys : \/ k \in {RepoKey(j), ContainerKey(j)}
                             \/ j \in Restores /\ k = SourceKey(j)}

HoldsNothingElse ==
    /\ \A j \in Jobs : phase[j] = "source" => j \in Restores
    /\ \A j \in Jobs : phase[j] = "container" => StopsContainer(j)
    /\ \A k \in LockKeys : lock[k] # Nobody => Live(lock[k]) /\ k \in Keys(lock[k])
    /\ \A b \in Backends : \A j \in slots[b] : Live(j) /\ b = BackendOf[j]

SlotsFit == \A b \in Backends : Slots!Fits(slots[b])

(* The invariant of the locks and slots: each job holds what its phase     *)
(* needs, nobody holds anything else, and no limit is exceeded             *)
(* (app.go:499, daemon.go:198, 247, 268).                                  *)
LocksMatch == HoldsWhatItNeeds /\ HoldsNothingElse /\ SlotsFit

(* What a job has stopped, and who is to blame for a container that is     *)
(* down, follow from how far the job is: the strengthening of              *)
(* StoppedStaysDown, BackupQuiesced and NothingLeftDown (app.go:694-706).  *)
StopsMatch ==
    /\ \A j \in Jobs : phase[j] \notin (Locked \ {"list"}) \cup {"dead"} => stopped[j] = {}
    /\ \A j \in Jobs : phase[j] = "list" => j \in Restores
    /\ \A j \in Backups : phase[j] = "stop" => StopsContainer(j) /\ todo[j] = {ContainerOf[j]}
    /\ \A j \in Jobs : Writing(j) \/ phase[j] = "create" =>
          (StopsContainer(j) => ContainerOf[j] \in stopped[j])
    /\ \A j \in Jobs, c \in Containers : downBy[c] = j =>
          phase[j] = "dead" \/ c \in stopped[j] \cup lost[j]
    /\ \A j \in Jobs : lost[j] # {} => j \in err
    /\ StoppedStaysDown

(* No job waits for ever for the others: without any timeout every job     *)
(* that waits for its repository ends.                                     *)
EveryJobEnds == \A j \in Jobs : phase[j] = "repo" ~> phase[j] \in Ended
================================================================================
