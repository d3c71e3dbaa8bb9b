------------------------------ MODULE Repository ------------------------------
(***************************************************************************)
(* What the jobs of Volust do to the data: backups (RunSpecJobs in         *)
(* internal/daemon/daemon.go) file snapshots of volumes in restic          *)
(* repositories and let restic forget old ones; restores (runRestore and   *)
(* runRestoreAllVolumes in internal/app/app.go) choose a snapshot, ask for *)
(* a confirmation and overwrite a volume.  The commands that the workers   *)
(* run are those of internal/restic/command.go.                            *)
(*                                                                         *)
(* An application has one repository (Profile.ForApp), written a below.    *)
(* The content of a volume is a version: what somebody wrote that was      *)
(* never there before has a new number.  Containers, write slots, signals  *)
(* and the order in which locks are given back are BackupRestore's.        *)
(***************************************************************************)
EXTENDS Naturals, FiniteSets

CONSTANTS
    Containers, Apps, Volumes, Jobs, Nobody,
    AppOf,      \* AppOf[c]: the application of container c (volust.name)
    Mounts,     \* Mounts[c]: the volume of each source of c; source ids are
                \* numbers in their alphabetical order
    Named,      \* Docker's named volumes; the others are bind mounts
    Keep,       \* Keep[c]: its keep-last=n retention, 0 for none
    Scheduled,  \* backups of a container, from the daemon
    Manual,     \* volust backup --app a, with or without --source
    All,        \* volust restore --all-volumes; the other jobs are
                \* volust restore --app a --source s
    Target,     \* Target[j]: the container or the application of the job
    SkipSafety, \* the restores with --skip-pre-backup
    HostOf,     \* HostOf[j]: the host name restic sees in j's worker
    Faults,     \* whether locks time out and commands of workers fail
    MaxVersion  \* the applications stop writing at this version

Restores == Jobs \ (Scheduled \cup Manual)
Backups == Scheduled \cup Manual

(* restoreCandidates: every source of every container, <<c, s>>.           *)
Cands == UNION {{c} \X DOMAIN Mounts[c] : c \in Containers}
Vol(x) == Mounts[x[1]][x[2]]
App(x) == AppOf[x[1]]

(* The candidates that a job selects when its --source is s, 0 for none.   *)
Matching(j, s) ==
    {x \in Cands :
        /\ s \in {0, x[2]}
        /\ \/ j \in Scheduled /\ x[1] = Target[j]
           \/ j \in All /\ Vol(x) \in Named
           \/ j \in Jobs \ (Scheduled \cup All) /\ App(x) = Target[j]}

(* What --source may be.                                                   *)
SourceArgs(j) ==
    (IF j \in Manual \cup (Restores \ All) THEN {x[2] : x \in Cands} ELSE {})
        \cup (IF j \in Restores \ All THEN {} ELSE {0})

ASSUME RepositoryAssumption ==
    /\ IsFiniteSet(Containers) /\ IsFiniteSet(Jobs) /\ Nobody \notin Jobs \cup Cands
    /\ AppOf \in [Containers -> Apps]
    /\ \A c \in Containers : Mounts[c] \in [DOMAIN Mounts[c] -> Volumes]
    /\ \A c \in Containers : DOMAIN Mounts[c] \subseteq Nat \ {0} /\ IsFiniteSet(DOMAIN Mounts[c])
    /\ Named \subseteq Volumes
    /\ Keep \in [Containers -> Nat]
    /\ Scheduled \subseteq Jobs /\ Manual \subseteq Jobs \ Scheduled
    /\ All \subseteq Restores /\ SkipSafety \subseteq Restores
    /\ Target \in [Jobs -> Containers \cup Apps]
    /\ DOMAIN HostOf = Jobs \cup {Nobody}
    /\ Faults \in BOOLEAN
    /\ MaxVersion \in Nat

VARIABLES
    content, \* content[v]: the version that volume v holds
    written, \* the newest version there is
    snaps,   \* snaps[a]: the snapshots in the repository of a
    taken,   \* how many were taken, which is the clock of their times
    lock,    \* lock[k]: the job that owns lock key k
    phase,   \* phase[j]: what job j does next
    sel,     \* sel[j]: the candidates that it selected
    left,    \* left[j]: those it still has to deal with
    now,     \* now[j]: the candidate whose specification it works with
    plan,    \* plan[j][x]: the snapshot resolved for candidate x
    stage,   \* stage[j]: the snapshot in the worker's staging volume
    good,    \* good[j]: the candidates it restored
    bad      \* bad[j]: those it reports as failed

vars == <<content, written, snaps, taken, lock, phase, sel, left, now, plan, stage, good, bad>>
data == <<content, written>>
repo == <<snaps, taken>>
choice == <<sel, plan>>
result == <<good, bad>>

LockKeys == ({"repo"} \X Apps) \cup ({"source"} \X Volumes)
Locks == INSTANCE KeyedMutex WITH Callers <- Jobs, Keys <- LockKeys, owner <- lock

Snapshot == [time : Nat, by : Jobs \cup {Nobody}, container : Containers,
             source : Nat, volume : Volumes, version : Nat, complete : BOOLEAN]

Phases == {"new", "repo", "source", "create", "backup", "forget", "prune", "confirm",
           "preflight", "next", "safety", "restore", "sync", "done", "failed"}

(* Snapshots are filed under containers and volumes that exist, and the    *)
(* jobs' progress keeps its types.                                         *)
TypeOK ==
    /\ content \in [Volumes -> Nat]
    /\ written \in Nat
    /\ snaps \in [Apps -> SUBSET Snapshot]
    /\ taken \in Nat
    /\ lock \in [LockKeys -> Jobs \cup {Nobody}]
    /\ phase \in [Jobs -> Phases]
    /\ sel \in [Jobs -> SUBSET Cands]
    /\ left \in [Jobs -> SUBSET Cands]
    /\ now \in [Jobs -> Cands \cup {Nobody}]
    /\ plan \in [Jobs -> [Cands -> Snapshot \cup {Nobody}]]
    /\ stage \in [Jobs -> Snapshot \cup {Nobody}]
    /\ good \in [Jobs -> SUBSET Cands]
    /\ bad \in [Jobs -> SUBSET Cands]

-------------------------------------------------------------------------------
(* Plausible bugs, which the properties below must catch; more of them     *)
(* before the actions.                                                     *)
BugTagsApplication(time, j, c, x, version, complete) ==
    [time |-> time, by |-> j, container |-> AppOf[c], source |-> x[2],
     volume |-> Vol(x), version |-> version, complete |-> complete]

-------------------------------------------------------------------------------
(* A snapshot by job j of candidate x, filed under the path and the tags   *)
(* of source x[2] of container c (BackupCommand, SourcePath, tagArgs).     *)
Filed(time, j, c, x, version, complete) ==
    [time |-> time, by |-> j, container |-> c, source |-> x[2],
     volume |-> Vol(x), version |-> version, complete |-> complete]

(* Some of the candidates were backed up before, at version 0.             *)
Init ==
    /\ content = [v \in Volumes |-> 1]
    /\ written = 1
    /\ \E S \in SUBSET Cands :
          snaps = [a \in Apps |-> {Filed(0, Nobody, x[1], x, 0, TRUE) : x \in {y \in S : App(y) = a}}]
    /\ taken = 0
    /\ Locks!Init
    /\ phase = [j \in Jobs |-> "new"]
    /\ sel = [j \in Jobs |-> {}]
    /\ left = [j \in Jobs |-> {}]
    /\ now = [j \in Jobs |-> Nobody]
    /\ plan = [j \in Jobs |-> [x \in Cands |-> Nobody]]
    /\ stage = [j \in Jobs |-> Nobody]
    /\ good = [j \in Jobs |-> {}]
    /\ bad = [j \in Jobs |-> {}]

GoTo(j, from, to) ==
    /\ phase[j] = from
    /\ phase' = [phase EXCEPT ![j] = to]

(* The container whose specification job j works with, and the application *)
(* whose repository it uses.                                               *)
Owner(j) == now[j][1]
Repo(j) == App(now[j])

(* The snapshots that the commands of candidate x ask restic for: those    *)
(* of its path and tags (snapshotValidationArgs, LatestSnapshot).          *)
Matches(x) == {sn \in snaps[App(x)] : <<sn.container, sn.source>> = x}
Newest(S) == {sn \in S : \A other \in S : other.time <= sn.time}

(* restic backup: a snapshot of candidate x as job j files it.             *)
TakeSnapshot(j, x, version, complete) ==
    /\ snaps' = [snaps EXCEPT ![Repo(j)] = @ \cup {Filed(taken + 1, j, Owner(j), x, version, complete)}]
    /\ taken' = taken + 1

(* restic forget --keep-last n, with one --tag option per tag: restic      *)
(* takes the snapshots that have any of the tags, which are all those of   *)
(* the repository, and applies the policy to each host and path.           *)
SameGroup(one, other) ==
    /\ HostOf[one.by] = HostOf[other.by]
    /\ one.container = other.container
    /\ one.source = other.source

Forgotten(S, n) ==
    {sn \in S : Cardinality({other \in S : SameGroup(sn, other) /\ other.time > sn.time}) >= n}

(* A command returns an error: a restore goes on with its next candidate.  *)
Fails(j, from) ==
    /\ GoTo(j, from, IF j \in Restores THEN "next" ELSE "failed")
    /\ bad' = [bad EXCEPT ![j] = @ \cup {now[j]}]
    /\ Locks!ReleaseAll({j})

-------------------------------------------------------------------------------
(* Plausible bugs of the actions.                                          *)
BugNoSourceLock(j) ==
    /\ GoTo(j, "source", IF j \in SkipSafety THEN "restore" ELSE "safety")
    /\ UNCHANGED <<data, repo, lock, choice, left, now, stage, result>>

BugLatestAtRestore(j) ==
    /\ GoTo(j, "restore", "sync")
    /\ \E sn \in Newest(Matches(now[j])) : stage' = [stage EXCEPT ![j] = sn]
    /\ content' = [content EXCEPT ![Vol(now[j])] = written + 1]
    /\ written' = written + 1
    /\ UNCHANGED <<repo, lock, choice, left, now, result>>

BugPartialIsSuccess(j, x) ==
    /\ x \in left[j]
    /\ GoTo(j, "backup", IF Keep[Owner(j)] > 0 THEN "forget" ELSE IF left[j] = {x} THEN "prune" ELSE "backup")
    /\ left' = [left EXCEPT ![j] = @ \ {x}]
    /\ \E complete \in {TRUE, ~Faults} : TakeSnapshot(j, x, content[Vol(x)], complete)
    /\ UNCHANGED <<data, lock, choice, now, stage, result>>

BugForgetsFailures(j) ==
    /\ left[j] = {}
    /\ j \in All
    /\ GoTo(j, "preflight", "next")
    /\ left' = [left EXCEPT ![j] = sel[j] \ bad[j]]
    /\ bad' = [bad EXCEPT ![j] = {}]
    /\ UNCHANGED <<data, repo, lock, choice, now, stage, good>>

-------------------------------------------------------------------------------
(* A backup is about to take its repository's lock.  A command with        *)
(* several candidates works with the specification of the first, in the    *)
(* order of their source ids (runBackup).                                  *)
SelectBackup(j) ==
    /\ j \in Backups
    /\ GoTo(j, "new", "repo")
    /\ \E s \in SourceArgs(j) : \E x \in Matching(j, s) :
          /\ \A y \in Matching(j, s) : x[2] <= y[2]
          /\ now' = [now EXCEPT ![j] = x]
          /\ sel' = [sel EXCEPT ![j] = Matching(j, s)]
    /\ UNCHANGED <<data, repo, lock, left, plan, stage, result>>

(* resolveRestoreSelection: the first candidate with the source id.        *)
SelectOne(j) ==
    /\ j \in Restores \ All
    /\ GoTo(j, "new", "preflight")
    /\ \E s \in SourceArgs(j) : \E x \in Matching(j, s) :
          /\ sel' = [sel EXCEPT ![j] = {x}]
          /\ left' = [left EXCEPT ![j] = {x}]
    /\ UNCHANGED <<data, repo, lock, now, plan, stage, result>>

(* resolveAllVolumeRestoreSelection: one candidate per application and     *)
(* source id (restoreSnapshotKey).                                         *)
Key(x) == <<App(x), x[2]>>

SelectVolumes(j) ==
    /\ j \in All
    /\ GoTo(j, "new", "confirm")
    /\ \E S \in SUBSET Matching(j, 0) \ {{}} :
          /\ \A x \in Matching(j, 0) : \E y \in S : Key(x) = Key(y)
          /\ \A x, y \in S : Key(x) = Key(y) => x = y
          /\ sel' = [sel EXCEPT ![j] = S]
    /\ UNCHANGED <<data, repo, lock, left, now, plan, stage, result>>

(* resolveSnapshot, selectRestoreSnapshot: without any lock.  A restore of *)
(* one source may be given, or asked for, any matching snapshot.           *)
Resolve(j, x) ==
    /\ phase[j] = "preflight"
    /\ x \in left[j]
    /\ left' = [left EXCEPT ![j] = @ \ {x}]
    /\ \E sn \in IF j \in All THEN Newest(Matches(x)) ELSE Matches(x) :
          plan' = [plan EXCEPT ![j][x] = sn]
    /\ UNCHANGED <<data, repo, lock, phase, sel, now, stage, result>>

ResolveFails(j, x) ==
    /\ phase[j] = "preflight"
    /\ x \in left[j]
    /\ Faults \/ Matches(x) = {}
    /\ left' = [left EXCEPT ![j] = @ \ {x}]
    /\ bad' = [bad EXCEPT ![j] = @ \cup {x}]
    /\ UNCHANGED <<data, repo, lock, phase, choice, now, stage, good>>

Resolved(j) ==
    /\ left[j] = {}
    /\ GoTo(j, "preflight", IF j \in All THEN "next" ELSE IF bad[j] = {} THEN "confirm" ELSE "failed")
    /\ left' = [left EXCEPT ![j] = sel[j] \ bad[j]]
    /\ UNCHANGED <<data, repo, lock, choice, now, stage, result>>

(* confirmRestore: of one source after its snapshot is resolved, of all    *)
(* volumes before.                                                         *)
Confirm(j) ==
    /\ GoTo(j, "confirm", IF j \in All THEN "preflight" ELSE "next")
    /\ left' = [left EXCEPT ![j] = sel[j]]
    /\ UNCHANGED <<data, repo, lock, choice, now, stage, result>>

Refuse(j) ==
    /\ GoTo(j, "confirm", "failed")
    /\ UNCHANGED <<data, repo, lock, choice, left, now, stage, result>>

Begin(j, x) ==
    /\ x \in left[j]
    /\ GoTo(j, "next", "repo")
    /\ now' = [now EXCEPT ![j] = x]
    /\ left' = [left EXCEPT ![j] = @ \ {x}]
    /\ UNCHANGED <<data, repo, lock, choice, stage, result>>

EndRestore(j) ==
    /\ left[j] = {}
    /\ GoTo(j, "next", IF bad[j] = {} THEN "done" ELSE "failed")
    /\ UNCHANGED <<data, repo, lock, choice, left, now, stage, result>>

-------------------------------------------------------------------------------
AcquireRepo(j) ==
    /\ GoTo(j, "repo", IF j \in Restores THEN "source" ELSE "create")
    /\ Locks!Acquire(j, <<"repo", Repo(j)>>)
    /\ UNCHANGED <<data, repo, choice, left, now, stage, result>>

(* From here on the containers that use the volume are down.               *)
AcquireSource(j) ==
    /\ GoTo(j, "source", IF j \in SkipSafety THEN "restore" ELSE "safety")
    /\ Locks!Acquire(j, <<"source", Vol(now[j])>>)
    /\ UNCHANGED <<data, repo, choice, left, now, stage, result>>

(* Docker creates the worker of a backup, which mounts each source at the  *)
(* path made of the container and the source id.                           *)
MountsOf(j) == {<<Owner(j), x[2]>> : x \in sel[j]}

CreateWorker(j) ==
    /\ GoTo(j, "create", "backup")
    /\ Cardinality(MountsOf(j)) = Cardinality(sel[j])
    /\ left' = [left EXCEPT ![j] = sel[j]]
    /\ UNCHANGED <<data, repo, lock, choice, now, stage, result>>

DuplicateMount(j) ==
    /\ Fails(j, "create")
    /\ Cardinality(MountsOf(j)) # Cardinality(sel[j])
    /\ UNCHANGED <<data, repo, choice, left, now, stage, good>>

(* The commands of a backup: backup and, with a retention, forget for each *)
(* source in any order, then prune.                                        *)
BackUp(j, x) ==
    /\ x \in left[j]
    /\ GoTo(j, "backup", IF Keep[Owner(j)] > 0 THEN "forget" ELSE IF left[j] = {x} THEN "prune" ELSE "backup")
    /\ left' = [left EXCEPT ![j] = @ \ {x}]
    /\ TakeSnapshot(j, x, content[Vol(x)], TRUE)
    /\ UNCHANGED <<data, lock, choice, now, stage, result>>

(* Mutant: restic forget --group-by host.                                  *)
BugGroupByHost(j) ==
    /\ GoTo(j, "forget", IF left[j] = {} THEN "prune" ELSE "backup")
    /\ snaps' = [snaps EXCEPT ![Repo(j)] = {sn \in @ :
            Cardinality({other \in @ : other.time > sn.time /\ HostOf[other.by] = HostOf[sn.by]}) < Keep[Owner(j)]}]
    /\ UNCHANGED <<data, taken, lock, choice, left, now, stage, result>>

Forget(j) ==
    /\ GoTo(j, "forget", IF left[j] = {} THEN "prune" ELSE "backup")
    /\ snaps' = [snaps EXCEPT ![Repo(j)] = @ \ Forgotten(@, Keep[Owner(j)])]
    /\ UNCHANGED <<data, taken, lock, choice, left, now, stage, result>>

Prune(j) ==
    /\ GoTo(j, "prune", "done")
    /\ Locks!ReleaseAll({j})
    /\ UNCHANGED <<data, repo, choice, left, now, stage, result>>

(* The commands of a restore.  The safety backup comes first.              *)
SafetyBackup(j) ==
    /\ GoTo(j, "safety", "restore")
    /\ TakeSnapshot(j, now[j], content[Vol(now[j])], TRUE)
    /\ UNCHANGED <<data, lock, choice, left, now, stage, result>>

(* restic restores the snapshot to the staging volume, if it is still      *)
(* there, and rsync begins to make the volume equal to it.                 *)
Restore(j) ==
    /\ GoTo(j, "restore", "sync")
    /\ plan[j][now[j]] \in snaps[Repo(j)]
    /\ stage' = [stage EXCEPT ![j] = plan[j][now[j]]]
    /\ content' = [content EXCEPT ![Vol(now[j])] = written + 1]
    /\ written' = written + 1
    /\ UNCHANGED <<repo, lock, choice, left, now, result>>

Sync(j) ==
    /\ GoTo(j, "sync", "next")
    /\ content' = [content EXCEPT ![Vol(now[j])] = stage[j].version]
    /\ good' = [good EXCEPT ![j] = @ \cup {now[j]}]
    /\ Locks!ReleaseAll({j})
    /\ UNCHANGED <<written, repo, choice, left, now, stage, bad>>

SnapshotGone(j) ==
    /\ Fails(j, "restore")
    /\ plan[j][now[j]] \notin snaps[Repo(j)]
    /\ UNCHANGED <<data, repo, choice, left, now, stage, good>>

(* A lock times out or a command fails; what it changed stays.  A backup   *)
(* that could not read all files has still taken a snapshot.               *)
CommandFails(j) ==
    /\ Faults
    /\ \E p \in {"repo", "source", "create", "backup", "forget", "prune", "safety", "restore", "sync"} : Fails(j, p)
    /\ UNCHANGED <<data, repo, choice, left, now, stage, good>>

PartialBackup(j, x) ==
    /\ Faults
    /\ \/ Fails(j, "backup") /\ x \in left[j]
       \/ Fails(j, "safety") /\ x = now[j]
    /\ TakeSnapshot(j, x, content[Vol(x)], FALSE)
    /\ UNCHANGED <<data, choice, left, now, stage, good>>

(* A container writes, unless a restore of the volume has stopped it       *)
(* (BackupRestore's RestoreQuiesced).                                      *)
Overwriting(j) == phase[j] \in {"safety", "restore", "sync"}

Write(v) ==
    /\ written < MaxVersion
    /\ \A j \in Restores : Overwriting(j) => Vol(now[j]) # v
    /\ content' = [content EXCEPT ![v] = written + 1]
    /\ written' = written + 1
    /\ UNCHANGED <<repo, lock, phase, choice, left, now, stage, result>>

-------------------------------------------------------------------------------
Select(j) == SelectBackup(j) \/ SelectOne(j) \/ SelectVolumes(j)
Preflight(j) == Resolved(j) \/ \E x \in Cands : Resolve(j, x) \/ ResolveFails(j, x)
Ask(j) == Confirm(j) \/ Refuse(j)
Loop(j) == EndRestore(j) \/ \E x \in Cands : Begin(j, x)
Acquire(j) == AcquireRepo(j) \/ AcquireSource(j)
Save(j) ==
    \/ CreateWorker(j) \/ DuplicateMount(j) \/ Forget(j) \/ Prune(j)
    \/ \E x \in Cands : BackUp(j, x) \/ PartialBackup(j, x)
Overwrite(j) == SafetyBackup(j) \/ Restore(j) \/ Sync(j) \/ SnapshotGone(j)

Next ==
    \/ \E j \in Jobs : Select(j) \/ Preflight(j) \/ Ask(j) \/ Loop(j) \/ Acquire(j)
                       \/ Save(j) \/ Overwrite(j) \/ CommandFails(j)
    \/ \E v \in Volumes : Write(v)

Spec == Init /\ [][Next]_vars

-------------------------------------------------------------------------------
Ends(j) == phase'[j] # phase[j] /\ phase'[j] = "done"

(* What a restore reports as restored holds exactly the version of the     *)
(* snapshot that was resolved for it before the locks were taken, although *)
(* its own safety backup and other jobs added snapshots since, and that    *)
(* snapshot was taken of the same volume (app.go:371, command.go:62).      *)
RestoresItsPlan ==
    [][\A j \in Restores : \A x \in good'[j] \ good[j] :
          /\ content'[Vol(x)] = plan[j][x].version
          /\ plan[j][x].volume = Vol(x)]_vars

(* A restore begins to overwrite a volume only when the snapshot it will   *)
(* put there is at hand, and what the volume holds at that moment is saved *)
(* under the same name, unless the user waived that (app.go:556).          *)
OverwritesWhatIsSaved ==
    [][\A j \in Restores : phase[j] = "restore" /\ phase'[j] = "sync" =>
          /\ plan[j][now[j]] \in snaps[Repo(j)]
          /\ j \notin SkipSafety =>
                \E sn \in Matches(now[j]) :
                    /\ sn.complete
                    /\ sn.volume = Vol(now[j])
                    /\ sn.version = content[Vol(now[j])]]_vars

(* A backup that succeeds leaves a whole snapshot of its own of every      *)
(* source it selected: neither its own forgets nor its errors lose one     *)
(* (daemon.go:222-232).                                                    *)
SavesEverySource ==
    [][\A j \in Backups : Ends(j) =>
          \A x \in sel[j] : \E sn \in snaps'[Repo(j)] :
              sn.by = j /\ sn.complete /\ sn.volume = Vol(x) /\ sn.source = x[2]]_vars

(* Retention never removes the newest snapshot filed under a container and *)
(* source, whichever job's retention it is (command.go:51).                *)
NewestIsKept ==
    [][\A a \in Apps : \A sn \in snaps[a] \ snaps'[a] :
          \E other \in snaps'[a] :
              /\ other.time > sn.time
              /\ <<other.container, other.source>> = <<sn.container, sn.source>>]_vars

(* A restore accounts for every volume it selected: success means all were *)
(* restored, and a restore of all volumes that was confirmed ends with     *)
(* each of them either restored or reported, never both (app.go:401-443).  *)
AccountsForAll ==
    \A j \in Restores :
        /\ phase[j] = "done" => good[j] = sel[j]
        /\ j \in All /\ phase[j] = "failed" =>
              \/ bad[j] # {} /\ good[j] \cup bad[j] = sel[j] /\ good[j] \cap bad[j] = {}
              \/ left[j] = {} /\ good[j] = {} /\ bad[j] = {}

(* README.md:187: a source is backed up at the path and tagged with the    *)
(* name of its own container.                                              *)
FiledUnderItsName ==
    \A a \in Apps : \A sn \in snaps[a] :
        sn.source \in DOMAIN Mounts[sn.container] /\ Mounts[sn.container][sn.source] = sn.volume

(* README.md:206: after a backup with keep-last=n there are at most n      *)
(* snapshots of each source it backed up.                                  *)
KeepsLastN ==
    [][\A j \in Backups : Ends(j) /\ Keep[Owner(j)] > 0 =>
          \A x \in sel[j] :
              Cardinality({sn \in snaps'[Repo(j)] : <<sn.container, sn.source>> = <<Owner(j), x[2]>>})
                  <= Keep[Owner(j)]]_vars
===============================================================================
