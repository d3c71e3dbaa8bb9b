# Formal model of Volust

Volust backs up the mounts of labelled Docker containers with restic. A daemon
discovers the containers and backs them up on a cron schedule; commands started
with `docker exec` back up, list and restore beside it. Every job runs its
restic commands in a worker container that Volust creates through the Docker
API and removes afterwards. This directory holds TLA+ modules of that program,
TLC configurations that check them on small instances, and proofs about them
that the TLA+ proof system checks for every instance.

File references are `file.go:line` in `src/internal/*/` and `README.md:line` in
`src/`.

## 1. The system

| component | code | state | operations |
|---|---|---|---|
| lock manager | `daemon/lock.go` | a mutex per key and process, a lock file per key on disk | `WithSourceLock` |
| write limiter | `daemon/write_limiter.go` | a mutex and a lock file per write slot of a backend | `WriteLimiter.With` |
| scheduler | `daemon/daemon.go:50-192` | the map from schedule keys to cron entries, cron's table | `RunScheduler`, `reconcileSchedules`, `RunOnce` |
| backup jobs | `daemon/daemon.go:194-322` | none but what they hold: locks, a slot, a stopped container, a worker | `RunSpecJobs` |
| backup and restore commands | `app/app.go:255-576` | the selection, the resolved snapshots, stopped containers, results per volume | `runBackup`, `runRestore`, `runRestoreAllVolumes` |
| restic commands | `restic/command.go` | none; the repositories' snapshots and the volumes' content are outside | `BackupCommand`, `ForgetCommand`, `PruneCommand`, `RestoreCommand`, `SnapshotsCommand`, `LatestSnapshot` |
| Docker runtime | `docker/runtime.go`, `docker/jobs.go` | where a call is: the worker's ID, the command; containers and execs are Docker's | list, stop, start, `runWorker` |
| discovery and labels | `docker/types.go` | none | `ParseBackupSpecWithDefaults` |
| profiles | `config/config.go` | the configuration, read once | `ForApp`, `BackendKey`, `WithRepositoryPath` |
| policy | `policy/policy.go` | none | parsing of cron and retention expressions |
| listing commands | `app/app.go` | none | `apps`, `ls`, `snapshots` |

How they interact. The scheduler's cron entries and the backup command call
`RunSpecJobs`; the restore commands call `restoreCandidateWithSnapshot`. Both
nest `WithSourceLock` (repository, then source or container) and
`WriteLimiter.With` around stop, worker and start. Locks and slots are `flock`s
on files that all processes share, so they order jobs of the daemon and of any
number of commands; Docker and the repositories are shared without any lock.

What is hard about it:

* jobs of several processes interleave at every call, and are kept apart by
  three kinds of locks that only some pairs of jobs share;
* a process may die, or be told to stop, between any two calls, with containers
  stopped and a worker running;
* any Docker call may fail, with or without having taken effect, and the error
  paths must undo exactly what was done;
* what was discovered, resolved or confirmed is used later, possibly days
  later, when it need not be true any more;
* the set of containers changes while it is being listed;
* locks and slots are polled with a timeout, so a late success races with it.

What makes each part correct: one owner per lock key and no more writers than
slots, nothing held by who left (lock manager, limiter); containers down while
they have to be, up again in the end (jobs); a schedule that follows Docker
(scheduler); what is restored is what was confirmed, what is overwritten is
saved first, what a backup reports is there (commands and restic); commands in
their order, each after the success of the one before, and nothing left of a
worker (Docker runtime); what a container's labels ask for is what is saved
(discovery); one lock per repository and one limit per backend, however they
are written (profiles). The hazards
at the lines where they bite, with the properties that cover them, are in
`PROJECT.json`.

## 2. Modules

    KeyedMutex   <---refines---  LockManager      (lock.go)
        ^  ^
        |  +----- uses --------  Repository       (snapshots, volumes, restores)
        +-------- uses --------  BackupRestore    (jobs, containers, crashes)
                                     |
    Semaphore    <--- uses ----------+
        ^
        +--------refines-------  WriteLimiter     (write_limiter.go)

                 BackupRestore's Work  <---refines---  Worker   (runtime.go)
                                                         ^
    Discovery (types.go), Profile (config.go)  <--uses-- Task

    Scheduler        (discovery passes, cron and the containers jobs stop)

Each `X_proofs` module has the theorems about `X`; each `MCX` module and the
`X_*.cfg` files give TLC its instances. The jobs are built on the *abstract*
lock, semaphore and worker; that the code of lock.go, write_limiter.go and
runtime.go implements those is a refinement each, checked by TLC and proved.

**LockManager** follows `lockManager.with` statement by statement: local mutex
(`TryLocal`, 100 ms ticks), `MkdirAll`/`OpenFile`, `flock` without blocking,
`fn`, and the deferred calls in reverse order. `pc[c]` is the caller's next
statement; `mutex`, `flocked` and `open` are the process's mutexes, the kernel's
flocks and open files. `Expire` is the deadline of `lockWaitContext` or a
cancelled context. `Crash(p)` kills a process.

**WriteLimiter** does the same for `With`: a scan visits the slots in turn,
slot mutex first, then flock, and remembers its place in `at[c]`; each process
has its own limit (`VOLUST_MAX_CONCURRENT_WRITES` of that process), 0 for none.

**BackupRestore** has one job per activation of `RunSpecJobs` or
`restoreCandidateWithSnapshot`. `phase[j]` is where it is; `stopped[j]` the list
it will start again; `seen` what discovery recorded as running. The worker of
job j is itself a container, so another restore may find and stop it, as in the
code. `Stop`, `StopFails`, `Start`, `StartFails`, `CreateFails` and
`RemoveWorker` have Docker's outcomes: 304 for a container that is down (an
error to this code), 404, and errors after which the call may still have
happened. `Signal` cancels the context of a process, `DaemonExits` is
`RunScheduler` returning without waiting for running jobs, `Crash` is SIGKILL.
Restic commands are one step that succeeds or fails.

**Worker** is one call of `runWorker`, request by request: create and start the
container, then for each command create an exec, start it, read its output to
the end, ask for its exit code, and at last the removal, which is deferred as
soon as the container's ID is known. `pc` is the next request, `step` the
command; `box` and `exec` are what Docker has, and Docker goes on by itself:
commands end (`Exit`), another restore stops and starts the worker
(`OthersStop`, `OthersStart`), the output may end before its command
(`"early"`). Every request may fail with or without effect; `Cancel` is a
signal, `Crash` the death of the process. `unread` and `refused` are history
variables of the properties.

**Discovery** makes of an inspected container a specification or nothing, with
the labels that count, the mounts that are sources by default, and the ids of
sources. **Profile** says which repository, lock key and backend key a profile
has; a location is a record of type, endpoint, bucket and path with flags for
the ways to write it. Both have operators only. **Task** puts them in front of
Worker: it discovers a container, makes the worker's mounts and commands of its
specification, as `runSpecJobsLocked` and `restoreWithStoppedContainers` do,
and runs them. Its properties compare what has been saved in the end with
what the labels ask for (`Wanted`, stated from README.md:205 and not from the
code).

**Scheduler** has a pass as separate steps: list, inspect each container,
handle each specification, drop each stale entry. Containers appear, vanish,
stop, start and are renamed between any two of them, and exclude files become
unreadable. `entries` is the loop's map, `cron` the cron library's table, which
fires entries at any time. A job that is fired stops its container and starts
it again, so the passes see what the backups do to it: `Fire`, `JobStops`,
`JobGivesUp`, `JobEnds` are the jobs of BackupRestore, as far as Docker's list
shows them. `daemon --once` shares the discovery and then runs its backups
itself. When the process ends, `End`, its jobs end where they are; a daemon
that ended is started again by Docker, with an empty map.

**Repository** looks at the same jobs from the data's side. A volume's content
is a version number; a snapshot records its time, the job that took it, the
container and source it is *filed* under, and the volume and version it
*really* has. `SelectBackup`, `SelectOne`, `SelectVolumes` are the three
selections, `Resolve` the choice of a snapshot without a lock, `Confirm` the
phrase, `Begin`/`EndRestore` the loop over all volumes, and the rest the
commands of the workers in their order. `Restore` and `Sync` are two steps: in
between the volume holds neither version, and a failure leaves it so.

Decisions that hold for several modules:

* A waiting job and one whose cron time has not come are the same phase; the
  order of stops and starts is any order (the code's order is Docker's list,
  reversed for the starts), so `todo` and `stopped` are sets.
* A failed `MkdirAll` of the lock directory is a call that never happens.
* Cron entry identifiers are reused after removal, the first free one; the
  library's never are. Only the identity of live entries matters.
* In Scheduler a set holds the jobs: of several that wait with one
  specification the first stands for all.
* In Worker a worker that was created and is never started (the answer was
  lost, or the process died) is `"leaked"`; nobody touches it again.
* In Profile the hash that ends the directory of an unusual application name is
  taken to be its own, and paths are sequences of names; endpoints in upper
  case, S3 endpoints written as URLs and trailing slashes are flags.
* In Discovery paths are as `path.Clean` leaves them; which of them are sockets
  or system paths, and their source ids, are constants.
* `IncludeStopped` is modelled as it is meant: the list then has containers
  that are down.
* Nobody starts by hand a container that a running job has stopped. Stopping
  one by hand, and starting it at other times, is allowed.
* Times of snapshots are a counter, and source ids are numbers in their
  alphabetical order; ties in `sort.Slice`, which is not stable, go either way.
* In Repository the applications do not write to a volume between the safety
  backup and the end of a restore of it. That is what `RestoreQuiesced` of
  BackupRestore is about, which holds when all jobs that use the volume use one
  repository, and not otherwise (finding `jobs_shared`).

## 3. Runs

States are distinct states, without symmetry.

| run | instance | states | shows |
|---|---|---|---|
| `lock` | 3 callers, 2 processes, 2 keys, fair | 41 k | `MutualExclusion`, `NothingKept`, refinement of KeyedMutex; `EntersOrReturns`: a call of `with` enters fn or returns, even behind a holder that never does |
| `limiter` | 4 callers, limits 2, 1, none, fair | 101 k | `AtMostLimit` per process limit, `NothingKept`, refinement of Semaphore, `EntersOrReturns` |
| `jobs_oneapp` | 2 backups and a restore, one repository, shared volume; timeouts, Docker failures, signals, crashes | 2.0 M | `OneWriterPerRepository`, `NothingLeftDown`, `RestoreQuiesced`, `LocksMatch` |
| `jobs_contended` | 2 backups and 2 restores of one container, 2 repositories, limits 2, 1, none; users; fair, no timeouts | 120 k | `WritersWithinLimit`, `StoppedStaysDown`, `BackupQuiesced`; `EveryJobEnds`: the nested locks do not deadlock |
| `jobs_shared` | 2 applications with a common volume, a repository each | | finding, section 4 |
| `task` | 17 containers, 9 that do not parse, 8 profiles; backups and restores; Docker failures, signals, crashes, early ends, other restores; fair | 105 k | `InOrder`, `CleanedUp`, `SavedFirst`, `SavesWhatIsWanted`, `LocksAreRepositories`, `SlotsAreBackends`; `OnlyCommandsBlock`: only a command that never ends keeps a call; refinement of BackupRestore's worker steps |
| `schedule` | 3 containers (one does not parse, one is stopped by its backups), 2 names, 2 changes, failing calls, signals and restarts, cron fires, `--once`; fair | 755 k | `ScheduleIsWhatWasFound`, `EntriesMatchCron`, `NoEntryLost`; `Converges`: what stays is scheduled, what left is not; `Rescheduled`: also when its own backups hide it again and again |
| `schedule_down` | 2 containers, 1 change | | finding, section 4 |
| `data_backups` | 2 containers of one application with one source id; a scheduled backup, a backup command and a restore; keep-last=1 that applies, failures | 997 k | `SavesEverySource`, `NewestIsKept` |
| `data_restores` | one volume, two applications; a backup, a restore of one source and a restore of all volumes; failures | 2.0 M | `OverwritesWhatIsSaved`, `RestoresItsPlan`, `AccountsForAll` |
| `data_filed`, `data_retention` | 2 containers with different sources, own host names | | findings, section 4 |

`TypeOK` is checked in one run per module. Deadlock is checked for the lock
manager, the limiter and the daemon in `schedule_down`, which never stop; the
instances of BackupRestore and Repository, a call of `runWorker` and
`daemon --once` end when their jobs have ended, so their configurations turn
the check off. That no job waits for others for ever is the liveness property
`EveryJobEnds`.

Why the bounds are enough. A lock needs two callers of one process and one of
another for both its levels to be contended, and a second key for keys to be
confused; three callers have them all. Limits 2 and 1 on one backend are the
smallest where a process may use a slot that another may not. Two backups and
two restores, over both instances of the jobs, have every pair of job kinds on
every kind of lock, and the pairs are what locks keep apart; failures are in
the first instance, liveness needs the second without them. Two changes in
Docker during a pass suffice for a container to vanish and return, or to be
renamed and stopped, and the stops and starts by jobs are not counted among
them. A worker's commands differ in being the first, one in the middle or the
last; the containers of `task` give from 1 to 5 of them, and every pair of
profiles that differ in one part of a location or in the way it is written. Snapshots are taken by at most three jobs on top of those
there at the start, which is more than a retention of one keeps. The bounds
`MaxChanges` and `MaxVersion` are guards of the environment's actions only;
`MaxEntries` has room for the old and the new keys of a pass, so no entry is
refused for it. The safety properties are proved besides, which needs no
bound.

### Fairness

* Lock manager and limiter: goroutines run, the timer of the wait context
  fires, and a `select` that meets an expired context and a later tick again
  and again takes the context's case (strong fairness of giving up, lock.go:122,
  write_limiter.go:62). Nothing is assumed of `fn`.
* Jobs: a lock that is free is taken by one of those who poll it, Docker
  answers, and workers end. `EveryJobEnds` has no timeouts, signals or crashes,
  so a job that waits can only be saved by the others.
* Worker: Docker answers every request, one way or the other, a cancelled
  context ends the wait for an output, and the output of a command that ended
  ends. That a command ends is not assumed.
* Scheduler: passes go on, the ticker ticks, a cancelled context is noticed in
  the end, a job that has stopped its container ends, and Docker restarts the
  container of a daemon that ended. The environment is fair to nothing:
  `Converges` and `Rescheduled` have as premise that the daemon stays up and the
  container there from some time on.

## 4. Findings

The first table has the runs that expect a violation of what the repository's
documentation says; the quotation and the line are in `PROJECT.json`.

| run | what the code does |
|---|---|
| `jobs_shared` | two applications share a volume: a backup of one starts its container while the other's restore overwrites the volume |
| `schedule_down` | SIGTERM, or an error of a pass, such as a container removed between Docker's list and its inspection, ends the daemon while a backup has its container stopped, and nobody starts it again |
| `data_filed` | the backup command files all sources of an application under its first container |
| `data_retention` | every worker has a host name of its own, so retention by host and path never removes anything |

The models also have the following behaviours, which no run of its own
demonstrates; each is a single step, or two, of the action named.

| code | what it does | in the model |
|---|---|---|
| `daemon.go:264` | whether to stop a container before its backup is decided by what ran at discovery, not when the backup starts | `StopsContainer` reads `seen` |
| `runtime.go:108` | after a process died its worker goes on, and the next task of the repository starts beside it | Worker's `Crash`; `Die` leaves `workers` |
| `runtime.go:105` | a worker whose creation Docker answered too late is never removed | Worker's `CreateFails` |
| `runtime.go:138` | a command that never ends holds the locks of its job; `VOLUST_LOCK_TIMEOUT` bounds the wait for a lock, not its use | the exception of `OnlyCommandsBlock` |
| `runtime.go:145` | the exit code of an exec that still runs (null in the answer) is read as 0 | `Inspect`, `unread` |
| `config.go:166` | for an S3 endpoint written as a URL (`s3:https://host/bucket`) the backend key has the application's directory in it, so the write limit is per application; README.md:191 says "S3 backends are grouped by endpoint and bucket" | `BackendKey`, `RootParses` |
| `lock.go:45` | one repository under two spellings of its endpoint (upper case, or with and without `https://`) has two locks | `SpelledAlike` |
| `config.go:176` | each application has a repository of its own below the profile's; README.md:187 says "Volust now uses one restic repository per node/profile" | `ForApp` |
| `types.go:224` | a container that mounts both `/a/b` and `/a-b`, and lists no sources, is not backed up at all: the log says so | `SourcesResolve` |
| `daemon.go:155` | an entry that was added while a backup had the container stopped (`VOLUST_INCLUDE_STOPPED_CONTAINERS`), or around a stop by hand, never stops the container later on, and one added while it ran fails for as long as it is down | `Reconcile` keeps `running` |
| `app.go:702` | a restore interrupted during a stop does not start the container that Docker stops all the same | `StopFails`, `lost` |
| `daemon.go:143` | one unreadable exclude file keeps the applications after it from being scheduled | `ExcludeFileFails` |
| `daemon.go:149` | a renamed container with a `volust.name` label is backed up under its old name | `Reconcile` keeps the entry |
| `daemon.go:82` | the first failing backup of `daemon --once` ends it | Scheduler's `BackUp` |
| `app.go:295` | the backup command always fails when two containers of the application have one source id | `DuplicateMount` |
| `app.go:800` | a restore of all volumes leaves out the second of two candidates with one application and source id, and reports success | `SelectVolumes` |
| `command.go:53` | with one host name, a container's retention removes other containers' snapshots | `Forgotten` |

## 5. Proofs

Seven modules hold theorems; all obligations are proved by SMT, Zenon and, for
the temporal steps, LS4. Every safety property that a passing run checks is
also a theorem, for every value of the constants and without the runs' bounds.
The assumptions are the named ASSUMEs of the modules: the types of the
constants, finiteness of the callers, jobs or containers, that `Nobody` is no
caller, and in Task what is checked before its code runs: that a profile has
one of two types (`Profile.validate`; only S3 locations have a bucket), and that
a container's mounts have types and paths of their own (Docker).

* `LockManager_proofs`. `Holdings` says which mutex, flock and file each caller
  holds, from its program counter alone, and that nobody else holds any. It is
  inductive with `TypeOK`; exclusion, no leak and the nesting of flock in mutex
  follow from it without a further step. The refinement maps the owner of a key
  to the holder of its flock: `TryFlock` is `Acquire`, `Unflock` is `Release`,
  `Crash` is `ReleaseAll`, everything else stutters.
* `WriteLimiter_proofs`. The same with slots. The refinement needs counting:
  the holders with a limit of at most n sit on different slots below n, so they
  are at most n (`HoldersFit`, an injection into 0..n-1).
* `BackupRestore_proofs`. `LocksMatch` (a job holds what its phase needs, and
  nobody holds anything else) is inductive with the types and gives
  `OneWriterPerRepository`, `RestoresExclusive` and `WritersWithinLimit`.
  `StopsMatch` ties `stopped`, `lost` and the blame for each container that is
  down to the phases; it is inductive relative to `LocksMatch` and gives
  `StoppedStaysDown`, `BackupQuiesced` and `NothingLeftDown`, for any number of
  jobs and every combination of the environment's failures.

  `RestoresQuiesced` has two hypotheses. `OwnRepositories`: whoever may stop or
  start a user of a source works on the repository that the source is restored
  from, so the two exclude each other; the instance of `jobs_oneapp` satisfies
  it, that of `jobs_shared` does not and violates the property. And no user
  starts containers by hand, which no lock could prevent. The invariant `Quiet`
  says that a job's lists stay within what it may touch, and that while a
  restore stops its containers the users of the source that are up are those
  still on its list.

  `DeadlockFree` is the safety half of `EveryJobEnds`. `LocksInOrder` says that
  no job has what it waits for or will wait for later: repository, source, slot,
  container is the order for all. With it a job waits only for jobs at a later
  `Stage` that still run (`OneOrder`), and of those that run, one at the last
  stage that occurs can go on. Slots are counted as the limiter counts them,
  with the limit of each process.
* `Repository_proofs`. `IInv` relates the phase of each job to its selection
  and turn, the locks, its results (`Accounts`), its plan (`Plans`), what it
  has saved (`Saved`, `Safe`) and the snapshots (`FiledRight`). Its conjuncts
  need each other: the snapshot that a restore saved stays only because no
  other job changes the repository, hence `Held`; the one that a backup saved
  survives its own retention only as the newest of its group, which holds
  because the sources of one worker differ (`Alike`). That a restore overwrites
  nothing unsaved (`SafeOverwriting`), restores what it resolved (`Planning`)
  and accounts for each volume (`Accounted`), that a backup saves each source
  (`SavesAll`) and that retention leaves the newest (`Retention`) are theorems
  about it or about a step from it.

  `RetentionPerHost` counts: the snapshots of a group have different times
  (`Stamped`), and to rank each by the number of later ones maps what `forget`
  leaves into 0..n-1 one to one (`KeepsN`); until the job ends nobody adds to it
  (`Trimmed`). `RetentionOfOneHost` draws from it the sentence of README.md:206,
  `KeepsLastN`, where restic sees one host name. That is so when the profile's
  `env` sets `RESTIC_HOST`; by itself every worker has a name of its own, and
  `data_retention` shows what becomes of the sentence then.
* `Worker_proofs`. `Progress` ties the place of the call to what Docker has:
  the commands before `step` have succeeded, those after it have not begun, no
  command runs in a container that is down. It is inductive with the types,
  and `InOrder` follows; `CleanedUp` is inductive with it. The refinement maps
  the requests between create and removal to the phases of a job, and shows for
  each request which of BackupRestore's worker steps it is, for an instance
  with one job and no containers, since a call knows of none.
* `Task_proofs`. A task is a run of its worker and never changes (`Made`), so
  the theorems of Worker hold of it. What is left is about operators, for any
  labels, mounts and profiles. `Locking` compares lock keys with locations,
  `Slots` backend keys with backends. `SavingFirst` shows where the commands
  have the backup of a source and takes their order from `Ordered`.
  `SavingAll` follows a mount from the labels to the command that saves it:
  which destinations the code takes (`DefaultPaths`, `SourcesFacts`) are those
  the documentation wants (`WantedFacts`), and each has a command and a mount
  of its own (`BackupCommandFacts`).
* `Scheduler_proofs`. `PassProgress` says how far a pass has got: the keys it
  met are those of what it has handled, all with an entry. With it
  `ScheduleIsWhatWasFound` is inductive; `EntriesMatchCron` is inductive by
  itself, and with `PassSeesAll` (a container that was there all along is still
  listed or already found) every removal of an entry is justified
  (`NoEntryLost`).

The invariants `IInv`, `Quiet`, `LocksInOrder` and `NoDeadlock` held in TLC on
the instances of section 3 before they were proved.

Only model-checked: the liveness properties, `EntersOrReturns` of both locks,
`EveryJobEnds`, `OnlyCommandsBlock`, `Converges` and `Rescheduled`, since
liveness under fairness is beyond this prover; and the four findings, which are
counterexamples.

## 6. Not modelled

Prompts, flags, output and logging (no state); the characters of labels, cron
and retention expressions, and of YAML and the environment (pure functions of
strings); the demultiplexing of a worker's output (pure bytes; a cut stream
falls back to the raw bytes and loses nothing); restic's own locks inside a
repository and its storage; Docker beyond the calls used here; `runPruneJob`
and `RunSourceJobs`, which only tests call; files within a volume, so neither
exclude patterns nor rsync's deletions; `apps`, `ls` and `snapshots`, which
change nothing and whose query is `Resolve` of Repository.

## 7. Plan

1. The safety halves of the other liveness properties, as `DeadlockFree` is for
   `EveryJobEnds`: that the lock manager and the limiter never keep a caller
   whose key or slot is free for ever to itself, and what a pass of the
   scheduler leaves to the next.
2. A composition of Scheduler and BackupRestore, to replace the four actions by
   which Scheduler stands for the jobs.
