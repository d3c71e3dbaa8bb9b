------------------------------ MODULE Task_proofs ------------------------------
(***************************************************************************)
(* Task for any containers, profiles and commands that fail: what runs     *)
(* before what in a worker, and which tasks share locks and write slots.   *)
(***************************************************************************)
EXTENDS Task, Worker_proofs, FunctionTheorems, FiniteSetTheorems

-------------------------------------------------------------------------------
(* The worker of a task is made once and never changes.                    *)
Made == task \in Valid /\ worker = WorkerOf(task)

(* A step of the task is one of its worker, and the task stays.            *)
LEMMA TaskSteps == [TaskNext]_taskVars => [Next]_vars /\ task' = task
BY DEF TaskNext, taskVars

(* No action of the worker changes its specification.                      *)
LEMMA WorkerKept == [Next]_vars => worker' = worker
BY DEF Next, vars, Answers, Create, CreateFails, StartWorker, StartFails, CreateExec, CreateExecFails,
   StartExec, StartExecFails, WaitCancelled, Inspect, InspectFails, Remove, RemoveFails, StreamEnds,
   WaitFails, Advance, Aborts, Exit, OthersStop, OthersStart, Cancel, Crash

(* A task has the worker that was made for it.                             *)
LEMMA MadeKept == TaskSpec => []Made
<1>1. TaskInit => Made
      BY DEF TaskInit, Made
<1>2. Made /\ [TaskNext]_taskVars => Made'
      BY TaskSteps, WorkerKept DEF Made
<1> QED BY <1>1, <1>2, PTL DEF TaskSpec

(* A task is a run of its worker.                                          *)
LEMMA TaskIsWorker == TaskSpec => Spec
<1>1. TaskInit => Init
      BY DEF TaskInit
<1>2. [TaskNext]_taskVars => [Next]_vars
      BY TaskSteps
<1> QED BY <1>1, <1>2, PTL DEF TaskSpec, Spec

-------------------------------------------------------------------------------
(* The lock of a repository is its type, where it is and how that is       *)
(* spelled: the name of the profile is not in it.                          *)
LEMMA RepositoryFacts ==
    ASSUME NEW t \in Valid
    PROVE  /\ DOMAIN Repository(t) = {"name", "type", "endpoint", "bucket", "path", "scheme", "upper", "slash"}
           /\ Repository(t).type \in {"s3", "webdav"} /\ ~Repository(t).slash
           /\ Repository(t).type = "webdav" => Repository(t).bucket = None
BY TaskAssumption DEF Valid, Repository, ForApp

(* Two tasks queue for one lock only if they use one repository, and if    *)
(* they do, with the endpoint spelled alike, they do queue (lock.go:40).   *)
THEOREM Locking == TaskSpec => []LocksAreRepositories
<1>1. ASSUME Made, NEW t \in Valid
      PROVE  LET p == Repository(task)
                 q == Repository(t)
                 sameLock == RepositoryLockKey(p) = RepositoryLockKey(q)
             IN /\ sameLock => Location(p) = Location(q)
                /\ Location(p) = Location(q) /\ SpelledAlike(p, q) => sameLock
  <2> DEFINE p == Repository(task)
             q == Repository(t)
  <2>1. /\ p.type \in {"s3", "webdav"} /\ ~p.slash /\ (p.type = "webdav" => p.bucket = None)
        /\ q.type \in {"s3", "webdav"} /\ ~q.slash /\ (q.type = "webdav" => q.bucket = None)
        BY <1>1, RepositoryFacts DEF Made
  <2>2. p.slash = q.slash
        BY <1>1 DEF Repository, ForApp, Made, Valid
  <2> HIDE DEF p, q
  <2> SUFFICES /\ RepositoryLockKey(p) = RepositoryLockKey(q) => Location(p) = Location(q)
               /\ Location(p) = Location(q) /\ SpelledAlike(p, q) => RepositoryLockKey(p) = RepositoryLockKey(q)
      BY DEF p, q
  <2> USE DEF RepositoryLockKey, RepositoryString, Location, SpelledAlike
  <2>3. CASE p.type = "webdav" /\ q.type = "webdav"
        BY <2>1, <2>3
  <2>4. CASE p.type = "s3" /\ q.type = "s3"
        BY <2>2, <2>4
  <2>5. CASE p.type # q.type
    <3>1. RepositoryLockKey(p) # RepositoryLockKey(q)
          BY <2>1, <2>5
    <3>2. Location(p) # Location(q)
          BY <2>5
    <3> QED BY <3>1, <3>2
  <2> QED BY <2>1, <2>3, <2>4, <2>5
<1>2. Made => LocksAreRepositories
      BY <1>1 DEF LocksAreRepositories
<1> QED BY <1>2, MadeKept, PTL

(* The tasks of one backend share its write slots and no others do, also   *)
(* when --repository-path names another repository on the backend          *)
(* (config.go:161, 194).                                                   *)
THEOREM Slots == TaskSpec => []SlotsAreBackends
<1>1. ASSUME Made, NEW t \in Valid,
             Overridable(Repository(task)), Overridable(Repository(t))
      PROVE  BackendKey(Repository(task)) = BackendKey(Repository(t))
                 <=> Backend(Repository(task)) = Backend(Repository(t))
  <2> DEFINE p == Repository(task)
             q == Repository(t)
  <2>1. /\ p.type \in {"s3", "webdav"} /\ (p.type = "webdav" => p.bucket = None)
        /\ q.type \in {"s3", "webdav"} /\ (q.type = "webdav" => q.bucket = None)
        /\ Overridable(p) /\ Overridable(q)
        BY <1>1, RepositoryFacts DEF Made
  <2> HIDE DEF p, q
  <2> SUFFICES BackendKey(p) = BackendKey(q) <=> Backend(p) = Backend(q)
      BY DEF p, q
  <2> USE DEF BackendKey, Backend, Overridable, RootParses
  <2>2. CASE p.type = q.type
        BY <2>1, <2>2
  <2>3. CASE p.type # q.type
        BY <2>1, <2>3
  <2> QED BY <2>2, <2>3
<1>2. ASSUME NEW t \in Valid, Made, Overridable(Repository(task)), Overridable(Repository(t))
      PROVE  BackendKey(ForApp(WithRepositoryPath(Repository(task), <<"old">>), SpecOf(t).name))
                 = BackendKey(Repository(task))
  <2> DEFINE p == Repository(task)
             q == ForApp(WithRepositoryPath(p, <<"old">>), SpecOf(t).name)
  <2>1. DOMAIN p = {"name", "type", "endpoint", "bucket", "path", "scheme", "upper", "slash"} /\ Overridable(p)
        BY <1>2, RepositoryFacts DEF Made
  <2>2. q.type = p.type /\ q.endpoint = p.endpoint /\ q.bucket = p.bucket /\ q.scheme = p.scheme
        BY <2>1 DEF ForApp, WithRepositoryPath
  <2> HIDE DEF p, q
  <2>3. BackendKey(q) = BackendKey(p)
        BY <2>1, <2>2 DEF BackendKey, Overridable, RootParses
  <2> QED BY <2>3 DEF p, q
<1>3. Made => SlotsAreBackends
      BY <1>1, <1>2 DEF SlotsAreBackends
<1> QED BY <1>3, MadeKept, PTL

-------------------------------------------------------------------------------
(* A container's source paths are a sequence, and so are the sources of    *)
(* its specification.                                                      *)
LEMMA SourcesFacts ==
    ASSUME NEW t \in Valid
    PROVE  /\ Cardinality({i \in DOMAIN t.container.mounts : IsBackupSourceMount(t.container.mounts[i])}) \in Nat
           /\ DOMAIN SpecOf(t).sources = 1 .. Len(SpecOf(t).sources)
           /\ Len(SpecOf(t).sources) \in Nat
           /\ DOMAIN SpecOf(t).sources = DOMAIN SourcePaths(t.container)
           /\ \A i \in DOMAIN SpecOf(t).sources :
                 SpecOf(t).sources[i] = [id |-> SourceId[SourcePaths(t.container)[i]],
                                         mount |-> MountAt(SourcePaths(t.container)[i], t.container.mounts)]
<1> DEFINE c == t.container
           chosen == {i \in DOMAIN c.mounts : IsBackupSourceMount(c.mounts[i])}
<1>1. t \in Tasks /\ c.mounts \in Seq(Range(c.mounts)) /\ c.sources \in Seq(Range(c.sources))
      BY TaskAssumption DEF Valid
<1>2. Cardinality(chosen) \in Nat
  <2>1. DOMAIN c.mounts = 1 .. Len(c.mounts) /\ Len(c.mounts) \in Nat
        BY <1>1
  <2>2. IsFiniteSet(1 .. Len(c.mounts))
        BY <2>1, FS_Interval
  <2> QED BY <2>1, <2>2, FS_Subset, FS_CardinalityType
<1>3. \E n \in Nat : DOMAIN SourcePaths(c) = 1 .. n
  <2>1. CASE c.sources # <<>>
    <3>1. SourcePaths(c) = c.sources /\ Len(c.sources) \in Nat /\ DOMAIN c.sources = 1 .. Len(c.sources)
          BY <1>1, <2>1 DEF SourcePaths
    <3> QED BY <3>1
  <2>2. CASE c.sources = <<>>
    <3>1. DOMAIN SourcePaths(c) = 1 .. Cardinality(chosen)
          BY <2>2 DEF SourcePaths, DefaultSourcePaths
    <3> QED BY <1>2, <3>1
  <2> QED BY <2>1, <2>2
<1>4. PICK n \in Nat : DOMAIN SourcePaths(c) = 1 .. n
      BY <1>3
<1>5. SpecOf(t).sources = ResolveSources(c)
      BY DEF SpecOf, BackupSpec
<1> QED BY <1>2, <1>4, <1>5 DEF ResolveSources

(* The commands of a backup: each source has its backup, with a retention  *)
(* its forget comes right after that, and the last command prunes.         *)
LEMMA BackupCommandFacts ==
    ASSUME NEW spec, Len(spec.sources) \in Nat
    PROVE  /\ Len(BackupCommands(spec)) \in Nat \ {0}
           /\ BackupCommands(spec)[Len(BackupCommands(spec))].operation = "prune"
           /\ \A k \in 1 .. Len(BackupCommands(spec)) - 1 :
                 /\ BackupCommands(spec)[k].operation \in {"backup", "forget"}
                 /\ BackupCommands(spec)[k].operation = "forget" =>
                       /\ k - 1 \in 1 .. Len(BackupCommands(spec)) - 1
                       /\ BackupCommands(spec)[k - 1].operation = "backup"
                       /\ BackupCommands(spec)[k - 1].path = BackupCommands(spec)[k].path
           /\ \A s \in 1 .. Len(spec.sources) :
                 \E k \in 1 .. Len(BackupCommands(spec)) :
                    BackupCommands(spec)[k] = Command("backup", spec, spec.sources[s].id)
<1> DEFINE each == IF spec.retention = <<>> THEN 1 ELSE 2
           last == each * Len(spec.sources) + 1
           cs == BackupCommands(spec)
<1>1. last \in Nat /\ last >= 1 /\ each \in {1, 2} /\ (each = 2 => last = 2 * Len(spec.sources) + 1)
  <2>1. CASE spec.retention = <<>>
    <3>1. each = 1 /\ last = Len(spec.sources) + 1
          BY <2>1
    <3> HIDE DEF each, last
    <3> QED BY <3>1
  <2>2. CASE spec.retention # <<>>
    <3>1. each = 2 /\ last = 2 * Len(spec.sources) + 1
          BY <2>2
    <3> HIDE DEF each, last
    <3> QED BY <3>1
  <2> QED BY <2>1, <2>2
<1>2. cs = [k \in 1 .. last |->
              IF k = last THEN [operation |-> "prune", path |-> <<>>]
              ELSE Command(IF k % each = 1 % each THEN "backup" ELSE "forget", spec,
                           spec.sources[(k + each - 1) \div each].id)]
      BY DEF BackupCommands
<1> HIDE DEF cs
<1>3. Len(cs) = last
  <2> HIDE DEF last, each
  <2> QED BY <1>1, <1>2
<1>4. cs[last].operation = "prune"
  <2> HIDE DEF each, last
  <2>1. last \in 1 .. last
        BY <1>1
  <2> QED BY <1>2, <2>1
<1>5. ASSUME NEW k \in 1 .. last - 1
      PROVE  /\ cs[k].operation \in {"backup", "forget"}
             /\ cs[k].operation = "forget" =>
                   k - 1 \in 1 .. last - 1 /\ cs[k - 1].operation = "backup" /\ cs[k - 1].path = cs[k].path
  <2> DEFINE op(n) == IF n % each = 1 % each THEN "backup" ELSE "forget"
             src(n) == (n + each - 1) \div each
  <2>1. \A n \in 1 .. last - 1 :
            cs[n].operation = op(n) /\ cs[n].path = SourcePath(spec, spec.sources[src(n)].id)
    <3> SUFFICES ASSUME NEW n \in 1 .. last - 1
                 PROVE  cs[n].operation = op(n) /\ cs[n].path = SourcePath(spec, spec.sources[src(n)].id)
        OBVIOUS
    <3>1. cs[n] = Command(op(n), spec, spec.sources[src(n)].id)
      <4> HIDE DEF each, last
      <4>1. n \in 1 .. last /\ n # last
            BY <1>1
      <4> QED BY <1>2, <4>1
    <3> HIDE DEF op, src
    <3> QED BY <3>1 DEF Command
  <2>2. CASE op(k) = "backup"
        BY <2>1, <2>2
  <2>3. CASE op(k) # "backup"
    <3> HIDE DEF each, last
    <3>1. each = 2 /\ k % 2 = 0 /\ k \in Nat /\ k >= 1
      <4>1. each # 1
            BY <2>3
      <4> QED BY <1>1, <2>3, <4>1
    <3>2. k - 1 \in 1 .. last - 1 /\ (k - 1) % 2 = 1 /\ (k - 1 + 2 - 1) \div 2 = (k + 2 - 1) \div 2
      <4>1. k - 1 \in 1 .. last - 1
            BY <1>1, <3>1
      <4>2. PICK m \in Int : k = 2 * m
            BY <3>1
      <4>3. (k - 1) % 2 = 1
            BY <4>2
      <4>4. (k - 1 + 2 - 1) \div 2 = m /\ (k + 2 - 1) \div 2 = m
            BY <4>2
      <4> QED BY <4>1, <4>3, <4>4
    <3>3. op(k - 1) = "backup" /\ src(k - 1) = src(k)
          BY <3>1, <3>2
    <3>4. cs[k].operation = op(k) /\ cs[k].path = SourcePath(spec, spec.sources[src(k)].id)
          BY <2>1
    <3>5. cs[k - 1].operation = op(k - 1) /\ cs[k - 1].path = SourcePath(spec, spec.sources[src(k - 1)].id)
          BY <2>1, <3>2
    <3>6. op(k) \in {"backup", "forget"}
          OBVIOUS
    <3> HIDE DEF op, src
    <3> QED BY <3>2, <3>3, <3>4, <3>5, <3>6
  <2> QED BY <2>2, <2>3
<1>6. ASSUME NEW s \in 1 .. Len(spec.sources)
      PROVE  \E k \in 1 .. Len(cs) : cs[k] = Command("backup", spec, spec.sources[s].id)
  <2> DEFINE k == IF each = 1 THEN s ELSE 2 * s - 1
  <2>1. k \in 1 .. last - 1 /\ k % each = 1 % each /\ (k + each - 1) \div each = s
    <3>1. CASE spec.retention = <<>>
      <4>1. each = 1 /\ last = Len(spec.sources) + 1 /\ k = s /\ k \in Nat /\ k >= 1 /\ k <= Len(spec.sources)
            BY <3>1
      <4> HIDE DEF each, last, k
      <4> QED BY <1>1, <4>1
    <3>2. CASE spec.retention # <<>>
      <4>1. each = 2 /\ last = 2 * Len(spec.sources) + 1 /\ k = 2 * s - 1 /\ s \in Nat /\ s >= 1 /\ s <= Len(spec.sources)
            BY <3>2
      <4> HIDE DEF each, last, k
      <4>2. k \in 1 .. last - 1 /\ k % 2 = 1 /\ (k + 2 - 1) \div 2 = s
            BY <4>1
      <4> QED BY <4>1, <4>2
    <3> QED BY <3>1, <3>2
  <2> HIDE DEF each, last, k
  <2>2. k \in 1 .. last /\ k # last
        BY <1>1, <2>1
  <2>3. cs[k] = Command("backup", spec, spec.sources[s].id)
        BY <1>2, <2>1, <2>2
  <2> QED BY <1>3, <2>2, <2>3
<1> HIDE DEF last, each
<1>7. \A k \in 1 .. Len(cs) - 1 :
          /\ cs[k].operation \in {"backup", "forget"}
          /\ cs[k].operation = "forget" =>
                /\ k - 1 \in 1 .. Len(cs) - 1
                /\ cs[k - 1].operation = "backup"
                /\ cs[k - 1].path = cs[k].path
      BY <1>3, <1>5
<1>8. Len(cs) \in Nat \ {0}
      BY <1>1, <1>3
<1>9. cs[Len(cs)].operation = "prune"
      BY <1>3, <1>4
<1> QED BY ZenonT(60), <1>6, <1>7, <1>8, <1>9 DEF cs

(* A source's retention, or the restore over it without --skip-pre-backup, *)
(* begins only when this worker has saved the source: whatever Docker,     *)
(* signals and other restores do to it (app.go:551-569,                    *)
(* daemon.go:222-229).                                                     *)
THEOREM SavingFirst == TaskSpec => []SavedFirst
<1>1. ASSUME Made, InOrder, NEW i \in Commands, exec[i] # "none",
             \/ worker.commands[i].operation = "forget"
             \/ worker.commands[i].operation = "restore" /\ ~task.skip
      PROVE  \E k \in 1 .. i - 1 : Runs(k, "backup", worker.commands[i].path) /\ Succeeded(k)
  <2>1. ASSUME NEW k \in Commands, k < i PROVE Succeeded(k)
        BY <1>1, <2>1 DEF InOrder
  <2>2. task \in Tasks /\ task.kind \in {"backup", "restore"} /\ worker = WorkerOf(task)
        BY <1>1, TaskAssumption DEF Made, Valid
  <2>3. CASE task.kind = "backup"
    <3> DEFINE spec == SpecOf(task)
               cs == worker.commands
    <3>1. cs = BackupCommands(spec) /\ Len(spec.sources) \in Nat
          BY <1>1, <2>2, <2>3, SourcesFacts DEF WorkerOf, BackupWorker, Made
    <3> HIDE DEF spec
    <3>2. /\ Len(cs) \in Nat \ {0}
          /\ cs[Len(cs)].operation = "prune"
          /\ \A k \in 1 .. Len(cs) - 1 :
                cs[k].operation = "forget" =>
                   /\ k - 1 \in 1 .. Len(cs) - 1
                   /\ cs[k - 1].operation = "backup"
                   /\ cs[k - 1].path = cs[k].path
          /\ \A k \in 1 .. Len(cs) - 1 : cs[k].operation \in {"backup", "forget"}
          BY <3>1, BackupCommandFacts
    <3>3. i \in 1 .. Len(cs) - 1 /\ worker.commands[i].operation = "forget"
          BY <1>1, <3>2 DEF Commands
    <3>4. i - 1 \in Commands /\ i - 1 \in 1 .. i - 1 /\ i - 1 < i
          BY <3>2, <3>3 DEF Commands
    <3> QED BY <2>1, <3>2, <3>3, <3>4 DEF Runs
  <2>4. CASE task.kind = "restore"
    <3> DEFINE spec == SpecOf(task)
               restore == Command("restore", spec, task.source)
               save == Command("backup", spec, task.source)
    <3>1. worker.commands = IF task.skip THEN <<restore>> ELSE <<save, restore>>
          BY <2>2, <2>4 DEF WorkerOf, RestoreWorker
    <3>2. save.operation = "backup" /\ restore.operation = "restore" /\ save.path = restore.path
          BY DEF Command
    <3> HIDE DEF save, restore
    <3>3. i = 2 /\ worker.commands = <<save, restore>>
          BY <1>1, <3>1, <3>2 DEF Commands
    <3>4. 1 \in Commands /\ 1 \in 1 .. i - 1 /\ 1 < i
          BY <3>3 DEF Commands
    <3> QED BY <2>1, <3>2, <3>3, <3>4 DEF Runs
  <2> QED BY <2>2, <2>3, <2>4
<1>2. Made /\ InOrder => SavedFirst
      BY <1>1 DEF SavedFirst
<1> QED BY <1>2, MadeKept, TaskIsWorker, Ordered, PTL

-------------------------------------------------------------------------------
(* Without a label the source paths are those of the mounts that are       *)
(* chosen, all of them and no other.                                       *)
LEMMA DefaultPaths ==
    ASSUME NEW n \in Nat, NEW mounts, DOMAIN mounts = 1 .. n
    PROVE  LET paths == DefaultSourcePaths(mounts)
               chosen == {i \in DOMAIN mounts : IsBackupSourceMount(mounts[i])}
           IN /\ \A k \in DOMAIN paths : \E i \in chosen : paths[k] = mounts[i].dest
              /\ \A i \in chosen : \E k \in DOMAIN paths : paths[k] = mounts[i].dest
<1> DEFINE chosen == {i \in DOMAIN mounts : IsBackupSourceMount(mounts[i])}
           upTo(i) == {h \in chosen : h <= i}
           rank == [i \in chosen |-> Cardinality(upTo(i))]
           N == Cardinality(chosen)
           paths == DefaultSourcePaths(mounts)
<1>1. chosen \subseteq 1 .. n /\ IsFiniteSet(chosen) /\ N \in Nat
  <2>1. chosen \subseteq 1 .. n /\ IsFiniteSet(1 .. n)
        BY FS_Interval
  <2> QED BY <2>1, FS_Subset, FS_CardinalityType
<1>2. paths = [k \in 1 .. N |-> mounts[CHOOSE i \in chosen : Cardinality(upTo(i)) = k].dest]
      BY DEF DefaultSourcePaths
<1> HIDE DEF chosen, paths
<1>3. ASSUME NEW i \in chosen
      PROVE  upTo(i) \subseteq chosen /\ IsFiniteSet(upTo(i)) /\ i \in upTo(i) /\ rank[i] \in 1 .. N
  <2>1. upTo(i) \subseteq chosen /\ i \in upTo(i)
        BY <1>1
  <2> HIDE DEF upTo
  <2>2. IsFiniteSet(upTo(i)) /\ Cardinality(upTo(i)) <= N
        BY <1>1, <2>1, FS_Subset
  <2>3. Cardinality(upTo(i)) \in Nat /\ Cardinality(upTo(i)) # 0
        BY <2>1, <2>2, FS_CardinalityType, FS_EmptySet
  <2> QED BY <1>1, <2>1, <2>2, <2>3
<1>4. ASSUME NEW i \in chosen, NEW h \in chosen, rank[i] = rank[h], i < h PROVE FALSE
  <2>0. chosen \subseteq Int /\ i \in Int /\ h \in Int /\ i < h
        BY <1>1, <1>4
  <2>1. upTo(i) \subseteq upTo(h) /\ h \in upTo(h) /\ h \notin upTo(i)
    <3>1. \A g \in chosen : g <= i => g <= h
          BY <2>0
    <3>2. ~(h <= i) /\ h <= h
          BY <2>0
    <3> QED BY <3>1, <3>2
  <2>2. Cardinality(upTo(i)) = Cardinality(upTo(h))
        BY <1>4
  <2> HIDE DEF upTo
  <2> QED BY <1>3, <2>1, <2>2, FS_Subset
<1>5. rank \in Injection(chosen, 1 .. N)
  <2>1. ASSUME NEW i \in chosen, NEW h \in chosen, rank[i] = rank[h] PROVE i = h
    <3>1. i \in Nat /\ h \in Nat
          BY <1>1
    <3>2. ~(i < h) /\ ~(h < i)
      <4> HIDE DEF rank
      <4> QED BY <1>4, <2>1
    <3> HIDE DEF rank
    <3> QED BY <3>1, <3>2
  <2>2. rank \in [chosen -> 1 .. N]
        BY <1>3
  <2> HIDE DEF rank
  <2> QED BY <2>1, <2>2, Fun_IsInj
<1>6. rank \in Surjection(chosen, 1 .. N)
  <2>1. IsFiniteSet(1 .. N) /\ Cardinality(1 .. N) = N
        BY <1>1, FS_Interval
  <2> HIDE DEF rank
  <2> QED BY <1>5, <2>1, FS_Injection
<1>7. ASSUME NEW k \in 1 .. N
      PROVE  \E i \in chosen : rank[i] = k /\ paths[k] = mounts[i].dest
  <2>1. \E i \in chosen : Cardinality(upTo(i)) = k
    <3>1. \E i \in chosen : rank[i] = k
      <4> HIDE DEF rank
      <4> QED BY <1>6 DEF Surjection
    <3> QED BY <3>1
  <2> DEFINE i == CHOOSE i \in chosen : Cardinality(upTo(i)) = k
  <2>2. i \in chosen /\ Cardinality(upTo(i)) = k
        BY <2>1
  <2>3. paths[k] = mounts[i].dest
        BY <1>2
  <2> HIDE DEF i
  <2> QED BY <2>2, <2>3
<1>8. DOMAIN paths = 1 .. N
      BY <1>2
<1>9. ASSUME NEW i \in chosen PROVE \E k \in DOMAIN paths : paths[k] = mounts[i].dest
  <2>1. PICK h \in chosen : rank[h] = rank[i] /\ paths[rank[i]] = mounts[h].dest
        BY <1>3, <1>7
  <2>2. h = i
        BY <1>1, <1>4, <2>1
  <2> QED BY <1>3, <1>8, <2>1, <2>2
<1> QED BY <1>7, <1>8, <1>9 DEF paths, chosen

-------------------------------------------------------------------------------
(* A mount of a container is the one at its path, and the mounts that a    *)
(* reader of README.md expects are those at the source paths.              *)
LEMMA WantedFacts ==
    ASSUME NEW t \in Valid
    PROVE  /\ \A m \in Range(t.container.mounts) : MountAt(m.dest, t.container.mounts) = m
           /\ \A m \in Wanted(t.container) :
                 \E i \in DOMAIN SourcePaths(t.container) : SourcePaths(t.container)[i] = m.dest
           /\ \A i \in DOMAIN SourcePaths(t.container) :
                 \E m \in Wanted(t.container) : SourcePaths(t.container)[i] = m.dest
<1> DEFINE c == t.container
           paths == SourcePaths(c)
           chosen == {i \in DOMAIN c.mounts : IsBackupSourceMount(c.mounts[i])}
<1>1. /\ Len(c.mounts) \in Nat /\ DOMAIN c.mounts = 1 .. Len(c.mounts)
      /\ \A i, k \in DOMAIN c.mounts : c.mounts[i].dest = c.mounts[k].dest => i = k
      /\ \A i \in DOMAIN paths : At(paths[i], c.mounts) # {}
  <2>1. t \in Tasks /\ Parses(c) /\ c.mounts \in Seq(Range(c.mounts))
        BY TaskAssumption DEF Valid
  <2>2. \A i, k \in DOMAIN c.mounts : c.mounts[i].dest = c.mounts[k].dest => i = k
        BY <2>1, TaskAssumption
  <2> QED BY <2>1, <2>2 DEF Parses, SourcesResolve
<1>2. ASSUME NEW m \in Range(c.mounts) PROVE MountAt(m.dest, c.mounts) = m
  <2>1. PICK j \in DOMAIN c.mounts : m = c.mounts[j]
        BY <1>2 DEF Range
  <2>2. At(m.dest, c.mounts) = {j}
        BY <1>1, <2>1 DEF At
  <2>3. (CHOOSE i \in {j} : \A k \in {j} : k <= i) = j
    <3>1. j <= j
          BY <1>1, <2>1
    <3> QED BY <3>1
  <2> QED BY <2>1, <2>2, <2>3 DEF MountAt
<1>3. ASSUME NEW m \in Range(c.mounts) PROVE Regular(m) <=> IsBackupSourceMount(m)
  <2>1. m.type # None /\ (m.type = "bind" => m.source # None) /\ (m.type = "volume" => m.name # None)
        BY <1>3, TaskAssumption DEF Valid
  <2> QED BY <2>1 DEF Regular, IsBackupSourceMount
<1>4. CASE c.sources # <<>>
  <2>1. /\ paths = c.sources
        /\ \A m \in Range(c.mounts) : m \in Wanted(c) <=> m.dest \in Range(c.sources)
        BY <1>4 DEF SourcePaths, Wanted
  <2>2. \A m \in Wanted(c) : \E i \in DOMAIN paths : paths[i] = m.dest
        BY <2>1 DEF Range, Wanted
  <2>3. ASSUME NEW i \in DOMAIN paths PROVE \E m \in Wanted(c) : paths[i] = m.dest
    <3>1. PICK j \in DOMAIN c.mounts : c.mounts[j].dest = paths[i]
          BY <1>1, <2>3 DEF At
    <3>2. c.mounts[j] \in Range(c.mounts) /\ paths[i] \in Range(c.sources)
          BY <2>1, <2>3, <3>1 DEF Range
    <3> QED BY <2>1, <3>1, <3>2
  <2> QED BY <1>2, <2>2, <2>3
<1>5. CASE c.sources = <<>>
  <2>1. /\ paths = DefaultSourcePaths(c.mounts)
        /\ \A m \in Range(c.mounts) : m \in Wanted(c) <=> Regular(m)
        BY <1>5 DEF SourcePaths, Wanted
  <2>2. /\ \A i \in DOMAIN paths : \E j \in chosen : paths[i] = c.mounts[j].dest
        /\ \A j \in chosen : \E i \in DOMAIN paths : paths[i] = c.mounts[j].dest
        BY <1>1, <2>1, DefaultPaths
  <2>3. ASSUME NEW m \in Wanted(c) PROVE \E i \in DOMAIN paths : paths[i] = m.dest
    <3>1. PICK j \in DOMAIN c.mounts : m = c.mounts[j]
          BY <2>3 DEF Range, Wanted
    <3>2. j \in chosen
          BY <1>3, <2>1, <2>3, <3>1 DEF Wanted
    <3> QED BY <2>2, <3>1, <3>2
  <2>4. ASSUME NEW i \in DOMAIN paths PROVE \E m \in Wanted(c) : paths[i] = m.dest
    <3>1. PICK j \in chosen : paths[i] = c.mounts[j].dest
          BY <2>2, <2>4
    <3>2. c.mounts[j] \in Range(c.mounts) /\ IsBackupSourceMount(c.mounts[j])
          BY <3>1 DEF Range
    <3>3. c.mounts[j] \in Wanted(c)
          BY <1>3, <2>1, <3>2
    <3> QED BY <3>1, <3>3
  <2> QED BY <1>2, <2>3, <2>4
<1> QED BY <1>4, <1>5

(* A container mounts finitely much.                                       *)
LEMMA MountsFinite == \A t \in Valid : IsFiniteSet(Wanted(t.container))
<1> SUFFICES ASSUME NEW t \in Valid PROVE IsFiniteSet(Wanted(t.container))
    OBVIOUS
<1> DEFINE mounts == t.container.mounts
           f == [i \in 1 .. Len(mounts) |-> mounts[i]]
<1>1. Len(mounts) \in Nat /\ DOMAIN mounts = 1 .. Len(mounts)
      BY TaskAssumption DEF Valid
<1>2. IsFiniteSet(1 .. Len(mounts))
      BY <1>1, FS_Interval
<1>3. f \in Surjection(1 .. Len(mounts), Range(mounts))
      BY <1>1 DEF Surjection, Range
<1> HIDE DEF f
<1>4. IsFiniteSet(Range(mounts))
      BY <1>2, <1>3, FS_Surjection
<1> QED BY <1>4, FS_Subset DEF Wanted

(* A backup that succeeds has saved each mount that is wanted, and no      *)
(* other, under a path of its own: for any mounts and labels               *)
(* (types.go:61-252, daemon.go:219-246).                                   *)
THEOREM SavingAll == TaskSpec => []SavesWhatIsWanted
<1>1. ASSUME Made, InOrder, task.kind = "backup", result = "ok"
      PROVE  /\ \A m \in Wanted(task.container) :
                   \E i \in Commands : \E w \in worker.mounts :
                      /\ Runs(i, "backup", w.target) /\ Succeeded(i)
                      /\ w.target = SourcePath(SpecOf(task), SourceId[m.dest])
                      /\ w = Mount(m, w.target, TRUE)
             /\ Cardinality({w.target : w \in worker.mounts}) = Cardinality(Wanted(task.container))
  <2> DEFINE c == task.container
             spec == SpecOf(task)
             paths == SourcePaths(c)
             wanted == Wanted(c)
             target(p) == SourcePath(spec, SourceId[p])
             targets == {w.target : w \in worker.mounts}
             f == [m \in wanted |-> target(m.dest)]
  <2>1. task \in Valid /\ SourcesResolve(c)
        BY <1>1 DEF Made, Valid, Parses
  <2>2. worker.mounts = {Mount(s.mount, SourcePath(spec, s.id), TRUE) : s \in Range(spec.sources)}
        BY <1>1 DEF Made, WorkerOf, BackupWorker
  <2>3. worker.commands = BackupCommands(spec)
        BY <1>1 DEF Made, WorkerOf, BackupWorker
  <2>4. /\ Len(spec.sources) \in Nat /\ DOMAIN paths = 1 .. Len(spec.sources)
        /\ DOMAIN spec.sources = DOMAIN paths
        /\ \A i \in DOMAIN paths : /\ spec.sources[i].id = SourceId[paths[i]]
                                   /\ spec.sources[i].mount = MountAt(paths[i], c.mounts)
    <3>1. \A i \in DOMAIN paths :
             spec.sources[i] = [id |-> SourceId[paths[i]], mount |-> MountAt(paths[i], c.mounts)]
          BY <2>1, SourcesFacts
    <3>2. Len(spec.sources) \in Nat /\ DOMAIN spec.sources = 1 .. Len(spec.sources)
          BY <2>1, SourcesFacts
    <3>3. DOMAIN spec.sources = DOMAIN paths
          BY <2>1, SourcesFacts
    <3>4. ASSUME NEW i \in DOMAIN paths
          PROVE  /\ spec.sources[i].id = SourceId[paths[i]]
                 /\ spec.sources[i].mount = MountAt(paths[i], c.mounts)
      <4>1. spec.sources[i] = [id |-> SourceId[paths[i]], mount |-> MountAt(paths[i], c.mounts)]
            BY <3>1, <3>4
      <4> HIDE DEF paths, spec
      <4> QED BY <4>1
    <3>5. DOMAIN paths = 1 .. Len(spec.sources)
          BY <3>2, <3>3
    <3> QED BY <3>2, <3>3, <3>4, <3>5
  <2>5. /\ \A m \in wanted : m \in Range(c.mounts) /\ MountAt(m.dest, c.mounts) = m
        /\ \A m \in wanted : \E i \in DOMAIN paths : paths[i] = m.dest
        /\ \A i \in DOMAIN paths : \E m \in wanted : paths[i] = m.dest
    <3>1. \A m \in wanted : m \in Range(c.mounts)
          BY DEF Wanted
    <3> QED BY <2>1, <3>1, WantedFacts
  <2>6. \A i, k \in DOMAIN paths : SourceId[paths[i]] = SourceId[paths[k]] => i = k
        BY <2>1 DEF SourcesResolve
  <2> HIDE DEF c, paths, wanted, spec
  <2>7. ASSUME NEW m \in wanted
        PROVE  \E i \in DOMAIN paths : /\ paths[i] = m.dest
                                       /\ spec.sources[i].id = SourceId[m.dest]
                                       /\ Mount(m, target(m.dest), TRUE) \in worker.mounts
    <3>1. PICK i \in DOMAIN paths : paths[i] = m.dest
          BY <2>5, <2>7
    <3>2. spec.sources[i].id = SourceId[m.dest] /\ spec.sources[i].mount = m
          BY <2>4, <2>5, <2>7, <3>1
    <3>3. spec.sources[i] \in Range(spec.sources)
          BY <2>4, <3>1 DEF Range
    <3> QED BY <2>2, <3>1, <3>2, <3>3
  <2>8. ASSUME NEW m \in wanted
        PROVE  \E i \in Commands : \E w \in worker.mounts :
                  /\ Runs(i, "backup", w.target) /\ Succeeded(i)
                  /\ w.target = target(m.dest)
                  /\ w = Mount(m, w.target, TRUE)
    <3>1. PICK s \in DOMAIN paths : /\ spec.sources[s].id = SourceId[m.dest]
                                    /\ Mount(m, target(m.dest), TRUE) \in worker.mounts
          BY <2>7, <2>8
    <3>2. PICK i \in 1 .. Len(worker.commands) :
                 worker.commands[i] = Command("backup", spec, spec.sources[s].id)
          BY <2>3, <2>4, <3>1, BackupCommandFacts
    <3>3. i \in Commands /\ Succeeded(i)
          BY <1>1, <3>2 DEF Commands, InOrder
    <3>4. Runs(i, "backup", target(m.dest))
          BY <3>1, <3>2 DEF Runs, Command
    <3> DEFINE w == Mount(m, target(m.dest), TRUE)
    <3>5. w.target = target(m.dest)
          BY DEF Mount
    <3>6. w \in worker.mounts
          BY <3>1
    <3> QED BY <3>3, <3>4, <3>5, <3>6
  <2>9. f \in Bijection(wanted, targets)
    <3>1. ASSUME NEW m \in wanted PROVE target(m.dest) \in targets
      <4>1. Mount(m, target(m.dest), TRUE) \in worker.mounts
            BY <2>7, <3>1
      <4>2. Mount(m, target(m.dest), TRUE).target = target(m.dest)
            BY DEF Mount
      <4> QED BY <4>1, <4>2
    <3>2. ASSUME NEW m \in wanted, NEW n \in wanted, target(m.dest) = target(n.dest) PROVE m = n
      <4>1. SourceId[m.dest] = SourceId[n.dest]
            BY <3>2 DEF SourcePath
      <4>2. PICK i \in DOMAIN paths : paths[i] = m.dest
            BY <2>5, <3>2
      <4>3. PICK k \in DOMAIN paths : paths[k] = n.dest
            BY <2>5, <3>2
      <4>4. m.dest = n.dest
            BY <2>6, <4>1, <4>2, <4>3
      <4> QED BY <2>5, <3>2, <4>4
    <3>3. ASSUME NEW q \in targets PROVE \E m \in wanted : q = target(m.dest)
      <4>1. PICK s \in Range(spec.sources) : q = SourcePath(spec, s.id)
            BY <2>2, <3>3 DEF Mount
      <4>2. PICK i \in DOMAIN paths : s = spec.sources[i]
            BY <2>4, <4>1 DEF Range
      <4>3. PICK m \in wanted : paths[i] = m.dest
            BY <2>5, <4>2
      <4> QED BY <2>4, <4>1, <4>2, <4>3
    <3> HIDE DEF targets, target
    <3> QED BY <3>1, <3>2, <3>3 DEF Bijection, Injection, Surjection, IsInjective
  <2>10. IsFiniteSet(wanted)
         BY <2>1, MountsFinite DEF c, wanted
  <2>11. Cardinality(targets) = Cardinality(wanted)
    <3> HIDE DEF f, targets
    <3> QED BY <2>9, <2>10, FS_Bijection DEF ExistsBijection
  <2> HIDE DEF targets
  <2> QED BY <2>8, <2>11 DEF c, wanted, spec, targets
<1>2. Made /\ InOrder => SavesWhatIsWanted
      BY <1>1 DEF SavesWhatIsWanted
<1> QED BY <1>2, MadeKept, TaskIsWorker, Ordered, PTL
================================================================================
