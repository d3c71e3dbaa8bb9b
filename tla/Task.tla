--------------------------------- MODULE Task ---------------------------------
(***************************************************************************)
(* One backup or one restore from what Docker says of its container to the *)
(* last command of its worker: Discovery makes a specification of the      *)
(* container, Profile says where its repository is, runSpecJobsLocked      *)
(* (internal/daemon/daemon.go) or restoreWithStoppedContainers             *)
(* (internal/app/app.go) makes a WorkerSpec of both, and Worker runs it.   *)
(***************************************************************************)
EXTENDS Worker, Discovery, Profile, Functions

CONSTANT
    Tasks \* kind, "backup" or "restore"; container, as inspected; profile;
          \* and of a restore the source id and skip, --skip-pre-backup

(* What Load has checked of a profile, and Docker of the mounts of one     *)
(* container: each has a type, and no two are at one path.                 *)
ASSUME TaskAssumption ==
    \A t \in Tasks :
        /\ t.kind \in {"backup", "restore"}
        /\ DOMAIN t.profile = {"name", "type", "endpoint", "bucket", "path", "scheme", "upper", "slash"}
        /\ t.profile.type \in {"s3", "webdav"}
        /\ t.profile.type = "webdav" => t.profile.bucket = None
        /\ LET c == t.container IN
              /\ c.mounts \in Seq(Range(c.mounts)) /\ c.sources \in Seq(Range(c.sources))
              /\ \A i, k \in DOMAIN c.mounts : c.mounts[i].dest = c.mounts[k].dest => i = k
              /\ \A m \in Range(c.mounts) :
                    /\ m.type # None
                    /\ m.type = "bind" => m.source # None
                    /\ m.type = "volume" => m.name # None

VARIABLE task

SpecOf(t) == BackupSpec(t.container)
Repository(t) == ForApp(t.profile, SpecOf(t).name)

MountSource(m) == IF m.type = "volume" THEN m.name ELSE m.source
SourcePath(spec, id) == <<spec.container, id>>
Mount(m, target, readOnly) == [from |-> MountSource(m), target |-> target, readOnly |-> readOnly]
Command(operation, spec, id) == [operation |-> operation, path |-> SourcePath(spec, id)]

(* Mutant: forget comes before backup.                                     *)
BugBackupCommands(spec) ==
    [k \in 1 .. 2 * Len(spec.sources) + 1 |->
        IF k = 2 * Len(spec.sources) + 1 THEN [operation |-> "prune", path |-> <<>>]
        ELSE Command(IF k % 2 = 0 THEN "backup" ELSE "forget", spec, spec.sources[(k + 1) \div 2].id)]

(* backup and, with a retention, forget for each source, then prune.       *)
BackupCommands(spec) ==
    LET each == IF spec.retention = <<>> THEN 1 ELSE 2
        last == each * Len(spec.sources) + 1
    IN [k \in 1 .. last |->
          IF k = last THEN [operation |-> "prune", path |-> <<>>]
          ELSE Command(IF k % each = 1 % each THEN "backup" ELSE "forget", spec,
                       spec.sources[(k + each - 1) \div each].id)]

BackupWorker(spec) ==
    [mounts |-> {Mount(s.mount, SourcePath(spec, s.id), TRUE) : s \in Range(spec.sources)},
     commands |-> BackupCommands(spec)]

Staging == [from |-> "staging", target |-> <<"staging">>, readOnly |-> FALSE]

RestoreWorker(spec, id, skip) ==
    LET m == (CHOOSE s \in Range(spec.sources) : s.id = id).mount
        restore == Command("restore", spec, id)
    IN [mounts |-> {Mount(m, SourcePath(spec, id), FALSE), Mount(m, <<"target">>, FALSE), Staging},
        commands |-> IF skip THEN <<restore>> ELSE <<Command("backup", spec, id), restore>>]

WorkerOf(t) ==
    IF t.kind = "backup" THEN BackupWorker(SpecOf(t)) ELSE RestoreWorker(SpecOf(t), t.source, t.skip)

(* A container that does not parse is skipped.                             *)
Valid == {t \in Tasks : Parses(t.container)}

TaskInit ==
    /\ task \in Valid
    /\ Init
    /\ worker = WorkerOf(task)

TaskNext == Next /\ UNCHANGED task
taskVars == <<vars, task>>
TaskSpec == TaskInit /\ [][TaskNext]_taskVars /\ Fairness

-------------------------------------------------------------------------------
Runs(i, operation, path) ==
    worker.commands[i].operation = operation /\ worker.commands[i].path = path

(* README.md:205: the paths in volust.sources, or all regular bind and     *)
(* volume mounts, excluding socket and device/system mounts (and volumes   *)
(* without a name).                                                        *)
Regular(m) ==
    /\ m.type = "bind" \/ (m.type = "volume" /\ m.name \notin Anonymous)
    /\ m.dest \notin SystemPaths \cup Sockets /\ m.source \notin Sockets

Wanted(c) ==
    {m \in Range(c.mounts) :
        IF c.sources # <<>> THEN m.dest \in Range(c.sources) ELSE Regular(m)}

(* A backup that succeeds has saved each wanted mount of its container,    *)
(* and no other, from a path of its own in the worker, which is the path   *)
(* that a restore of that source asks restic for (types.go:61-252,         *)
(* daemon.go:219-246).                                                     *)
SavesWhatIsWanted ==
    LET c == task.container
        saved(m) == \E i \in Commands : \E w \in worker.mounts :
            /\ Runs(i, "backup", w.target) /\ Succeeded(i)
            /\ w.target = SourcePath(SpecOf(task), SourceId[m.dest])
            /\ w = Mount(m, w.target, TRUE)
    IN task.kind = "backup" /\ result = "ok" =>
        /\ \A m \in Wanted(c) : saved(m)
        /\ Cardinality({w.target : w \in worker.mounts}) = Cardinality(Wanted(c))

(* Nothing that destroys runs before the backup it relies on: a source's   *)
(* retention, or the restore over it without --skip-pre-backup, begins     *)
(* only when this worker has saved the source (app.go:551-569,             *)
(* daemon.go:222-229).                                                     *)
SavedFirst ==
    \A i \in Commands :
        /\ exec[i] # "none"
        /\ \/ worker.commands[i].operation = "forget"
           \/ worker.commands[i].operation = "restore" /\ ~task.skip
        => \E k \in 1 .. i - 1 : Runs(k, "backup", worker.commands[i].path) /\ Succeeded(k)

(* Where a repository is.                                                  *)
Location(p) == <<p.type, p.endpoint, p.bucket, p.path>>
SpelledAlike(p, q) == p.scheme = q.scheme /\ p.upper = q.upper

(* Two tasks queue for one lock only if they use one repository, and if    *)
(* they do, with the endpoint spelled alike, they do queue: under any      *)
(* profile names, with or without slashes (lock.go:40-46).                 *)
LocksAreRepositories ==
    \A t \in Valid :
        LET p == Repository(task)
            q == Repository(t)
            sameLock == RepositoryLockKey(p) = RepositoryLockKey(q)
        IN /\ sameLock => Location(p) = Location(q)
           /\ Location(p) = Location(q) /\ SpelledAlike(p, q) => sameLock

(* The tasks of one backend share its write slots and no others do: also   *)
(* under --repository-path, which stays on the backend (config.go:161,     *)
(* 194).  Not so for an S3 endpoint written as a URL, whose bucket         *)
(* parseS3RepositoryRoot does not find.                                    *)
Backend(p) == <<p.type, p.endpoint, p.bucket>>

SlotsAreBackends ==
    \A t \in Valid :
        LET p == Repository(task)
            q == Repository(t)
        IN Overridable(p) /\ Overridable(q) =>
            /\ BackendKey(p) = BackendKey(q) <=> Backend(p) = Backend(q)
            /\ BackendKey(ForApp(WithRepositoryPath(p, <<"old">>), SpecOf(t).name)) = BackendKey(p)
===============================================================================
