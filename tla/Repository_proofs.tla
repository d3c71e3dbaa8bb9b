--------------------------- MODULE Repository_proofs ---------------------------
(***************************************************************************)
(* Repository for every set of containers, volumes, applications and jobs, *)
(* and whatever the jobs, the applications and the faults do.              *)
(***************************************************************************)
EXTENDS Repository, FiniteSetTheorems, FunctionTheorems, WellFoundedInduction, TLAPS

(* The phases of a job between the choice of a candidate and the end of    *)
(* its work on it, those in which it owns its repository's lock, those in  *)
(* which a restore owns its volume's, and those of a backup's commands.    *)
Working == {"repo", "source", "create", "backup", "forget", "prune", "safety", "restore", "sync"}
InRepo == Working \ {"repo"}
AtVolume == {"safety", "restore", "sync"}
Saving == {"backup", "forget", "prune"}

(* What the phase of job j says of its selection and of its turn.          *)
Turns(j) ==
    /\ left[j] \subseteq sel[j]
    /\ phase[j] = "new" => left[j] = {} /\ good[j] = {} /\ bad[j] = {}
    /\ phase[j] \in Working => now[j] \in sel[j]
    /\ j \in Backups => phase[j] \in {"new", "repo", "create", "done", "failed"} \cup Saving
    /\ j \in Restores => phase[j] \notin {"create"} \cup Saving

(* Job j owns the locks that its phase needs.                              *)
Held(j) ==
    /\ phase[j] \in InRepo => lock[<<"repo", Repo(j)>>] = j
    /\ phase[j] \in AtVolume => lock[<<"source", Vol(now[j])>>] = j

(* A restore has every candidate that it dealt with in one of its two      *)
(* results, and the others still before it.                                *)
Accounts(j) ==
    /\ good[j] \cap bad[j] = {}
    /\ left[j] \cap bad[j] = {}
    /\ phase[j] \in {"confirm", "preflight"} => good[j] = {} /\ bad[j] \subseteq sel[j]
    /\ phase[j] = "confirm" => bad[j] = {}
    /\ phase[j] = "confirm" /\ j \in All => left[j] = {}
    /\ phase[j] \in Working \cup {"next"} => left[j] \cap good[j] = {}
    /\ phase[j] = "next" => left[j] \cup good[j] \cup bad[j] = sel[j]
    /\ phase[j] \in Working =>
          /\ now[j] \notin left[j] \cup good[j] \cup bad[j]
          /\ left[j] \cup {now[j]} \cup good[j] \cup bad[j] = sel[j]
    /\ phase[j] = "done" => good[j] = sel[j]
    /\ phase[j] = "failed" /\ j \in All =>
          \/ bad[j] # {} /\ good[j] \cup bad[j] = sel[j]
          \/ left[j] = {} /\ good[j] = {} /\ bad[j] = {}

(* The snapshots in the repository of a are no younger than the clock, and *)
(* one that is filed under a candidate was taken of the candidate's volume.*)
FiledRight(a) ==
    \A sn \in snaps[a] :
        /\ sn.time <= taken
        /\ <<sn.container, sn.source>> \in Cands => sn.volume = Vol(<<sn.container, sn.source>>)

(* A backup selected all that its argument matches; once its worker exists *)
(* no two of these have the same source id.                                *)
Alike(j) ==
    /\ phase[j] \in Working => \E s \in SourceArgs(j) : sel[j] = Matching(j, s)
    /\ phase[j] \in Saving => \A x, y \in sel[j] : x[2] = y[2] => x = y
    /\ phase[j] = "forget" => Keep[Owner(j)] > 0
    /\ phase[j] = "prune" => left[j] = {}

(* What a backup has dealt with is saved by a snapshot of its own that is  *)
(* the newest of its group.                                                *)
SavedBy(j, x) ==
    \E sn \in snaps[Repo(j)] :
        /\ sn.by = j /\ sn.complete /\ sn.volume = Vol(x)
        /\ sn.container = Owner(j) /\ sn.source = x[2]
        /\ \A other \in snaps[Repo(j)] : SameGroup(sn, other) => other.time <= sn.time

Saved(j) == phase[j] \in Saving => \A x \in sel[j] \ left[j] : SavedBy(j, x)

(* A restore resolved a snapshot of the right volume for each candidate it *)
(* still has before it, and stages the one of its turn.                    *)
Planned(j, x) == plan[j][x] \in Snapshot /\ plan[j][x].volume = Vol(x)

Plans(j) ==
    /\ phase[j] = "preflight" => \A x \in sel[j] \ (left[j] \cup bad[j]) : Planned(j, x)
    /\ phase[j] = "confirm" /\ j \notin All => \A x \in sel[j] : Planned(j, x)
    /\ phase[j] \in Working \cup {"next"} => \A x \in left[j] : Planned(j, x)
    /\ phase[j] \in Working => Planned(j, now[j])
    /\ phase[j] = "sync" => stage[j] = plan[j][now[j]]

(* Before a restore overwrites a volume, what the volume holds is saved.   *)
Safe(j) ==
    phase[j] = "restore" /\ j \notin SkipSafety =>
        \E sn \in Matches(now[j]) :
            sn.complete /\ sn.volume = Vol(now[j]) /\ sn.version = content[Vol(now[j])]

-------------------------------------------------------------------------------
(* A candidate is a pair of a container and one of its sources.            *)
LEMMA CandFacts ==
    /\ \A x \in Cands : /\ x = <<x[1], x[2]>> /\ x[1] \in Containers
                        /\ x[2] \in DOMAIN Mounts[x[1]] /\ x[2] \in Nat \ {0}
                        /\ Vol(x) \in Volumes /\ App(x) \in Apps
    /\ \A c \in Containers : \A s \in DOMAIN Mounts[c] : <<c, s>> \in Cands
BY RepositoryAssumption DEF Cands, Vol, App

(* There are finitely many of them.                                        *)
LEMMA CandsFinite == IsFiniteSet(Cands)
<1> DEFINE Of(c) == {c} \X DOMAIN Mounts[c]
           f == [c \in Containers |-> Of(c)]
           T == {Of(c) : c \in Containers}
<1>1. f \in Surjection(Containers, T)
      BY Fun_IsSurj
<1>2. IsFiniteSet(T)
      BY <1>1, FS_Surjection, RepositoryAssumption
<1>3. \A S \in T : IsFiniteSet(S)
  <2> SUFFICES ASSUME NEW c \in Containers PROVE IsFiniteSet(Of(c))
      OBVIOUS
  <2>1. IsFiniteSet({c}) /\ IsFiniteSet(DOMAIN Mounts[c])
        BY FS_Singleton, RepositoryAssumption
  <2> QED BY <2>1, FS_Product
<1>4. Cands = UNION T
      BY DEF Cands
<1> QED BY <1>2, <1>3, <1>4, FS_UNION

(* What a job selects are candidates; their numbers are not greater.       *)
LEMMA MatchingFacts ==
    ASSUME NEW j, NEW s
    PROVE  Matching(j, s) \subseteq Cands /\ IsFiniteSet(Matching(j, s))
<1>1. Matching(j, s) \subseteq Cands
      BY DEF Matching
<1> QED BY <1>1, CandsFinite, FS_Subset

(* A snapshot that job j files is one.                                     *)
LEMMA FiledType ==
    ASSUME NEW t \in Nat, NEW i \in Jobs \cup {Nobody}, NEW c \in Containers, NEW x \in Cands,
           NEW n \in Nat, NEW b \in BOOLEAN
    PROVE  Filed(t, i, c, x, n, b) \in Snapshot
BY CandFacts DEF Filed, Snapshot

(* Any set of snapshots that is not empty has a newest one.                *)
LEMMA NewestExists ==
    ASSUME NEW S, S # {}, NEW n \in Nat, \A sn \in S : sn.time \in Nat /\ sn.time <= n
    PROVE  \E sn \in S : \A other \in S : other.time <= sn.time
<1> DEFINE Later(t) == {u \in 0..n : u > t}
           T == {Later(sn.time) : sn \in S}
           R == StrictSubsetOrdering(0..n)
<1>1. IsFiniteSet(0..n)
      BY FS_Interval
<1>2. IsWellFoundedOn(R, SUBSET (0..n))
      BY <1>1, FS_StrictSubsetOrderingWellFounded, FS_FiniteSubsetsOfFinite
<1>3. T \subseteq SUBSET (0..n) /\ T # {}
      OBVIOUS
<1>4. \E x \in T : \A y \in T : ~ (<<y, x>> \in R)
  <2> HIDE DEF T, R
  <2> QED BY <1>2, <1>3, WFMin
<1>5. PICK sn \in S : \A other \in S : <<Later(other.time), Later(sn.time)>> \notin R
      BY <1>4
<1>6. ASSUME NEW other \in S, ~(other.time <= sn.time) PROVE FALSE
  <2>1. other.time \in 0..n /\ sn.time \in 0..n /\ other.time > sn.time
        BY <1>6
  <2>2. Later(other.time) \subseteq Later(sn.time) /\ other.time \in Later(sn.time) \ Later(other.time)
        BY <2>1
  <2>3. <<Later(other.time), Later(sn.time)>> \in R
        BY <2>2 DEF StrictSubsetOrdering
  <2> QED BY <2>3, <1>5
<1> QED BY <1>6

-------------------------------------------------------------------------------
(* The inductive invariant.                                                *)
IInv ==
    /\ TypeOK
    /\ \A a \in Apps : FiledRight(a)
    /\ \A j \in Jobs : Turns(j) /\ Held(j)
    /\ \A j \in Backups : Alike(j) /\ Saved(j)
    /\ \A j \in Restores : Accounts(j) /\ Plans(j) /\ Safe(j)

(* What one job may do.                                                    *)
Step(j) ==
    Select(j) \/ Preflight(j) \/ Ask(j) \/ Loop(j) \/ Acquire(j) \/ Save(j) \/ Overwrite(j) \/ CommandFails(j)

(* The actions by what they change, for the proofs' case analyses: those   *)
(* that touch neither locks nor data, those that end a turn with a failure *)
(* and those that take a snapshot.                                         *)
Quiet(j) ==
    \/ Select(j) \/ Preflight(j) \/ Ask(j) \/ Loop(j) \/ CreateWorker(j)
Gives(j) == DuplicateMount(j) \/ SnapshotGone(j) \/ CommandFails(j)
Partial(j) == \E x \in Cands : PartialBackup(j, x)
Takes(j) == SafetyBackup(j) \/ \E x \in Cands : BackUp(j, x)

(* Those are all of them.                                                  *)
LEMMA Steps ==
    ASSUME NEW j, Step(j)
    PROVE  \/ Quiet(j) \/ Gives(j) \/ Partial(j) \/ Takes(j) \/ Acquire(j)
           \/ Forget(j) \/ Prune(j) \/ Restore(j) \/ Sync(j)
BY DEF Step, Save, Overwrite, Quiet, Gives, Partial, Takes

(* What TypeOK and the phase say of a job at work.                         *)
LEMMA AtWork ==
    ASSUME TypeOK, NEW j \in Jobs, Turns(j), phase[j] \in Working
    PROVE  /\ now[j] \in sel[j] /\ now[j] \in Cands /\ Owner(j) \in Containers
           /\ Repo(j) \in Apps /\ <<"repo", Repo(j)>> \in LockKeys
           /\ Vol(now[j]) \in Volumes /\ <<"source", Vol(now[j])>> \in LockKeys
<1>1. now[j] \in sel[j] /\ now[j] \in Cands
      BY DEF Turns, TypeOK
<1> QED BY <1>1, CandFacts DEF Owner, Repo, LockKeys

(* Jobs are backups or restores, and those of one source or of all         *)
(* volumes are restores.                                                   *)
LEMMA Kinds ==
    /\ Jobs = Backups \cup Restores /\ Backups \cap Restores = {}
    /\ All \subseteq Restores /\ Backups \subseteq Jobs /\ Restores \subseteq Jobs
    /\ Nobody \notin Jobs /\ Nobody \notin Cands
BY RepositoryAssumption DEF Backups, Restores

-------------------------------------------------------------------------------
(* Init is typed.                                                          *)
LEMMA TypeOKInit == Init => TypeOK
<1> SUFFICES ASSUME Init PROVE TypeOK
    OBVIOUS
<1>1. snaps \in [Apps -> SUBSET Snapshot]
  <2>1. PICK S \in SUBSET Cands :
            snaps = [a \in Apps |-> {Filed(0, Nobody, x[1], x, 0, TRUE) : x \in {y \in S : App(y) = a}}]
        BY DEF Init
  <2>2. ASSUME NEW x \in Cands PROVE Filed(0, Nobody, x[1], x, 0, TRUE) \in Snapshot
        BY CandFacts, FiledType
  <2> QED BY <2>1, <2>2
<1> QED BY <1>1 DEF Init, TypeOK, Locks!Init, Phases

(* Acquiring and giving back locks keeps their type.                       *)
LEMMA LockTypes ==
    ASSUME lock \in [LockKeys -> Jobs \cup {Nobody}], NEW j \in Jobs
    PROVE  /\ \A k \in LockKeys : Locks!Acquire(j, k) => lock' \in [LockKeys -> Jobs \cup {Nobody}]
           /\ Locks!ReleaseAll({j}) => lock' \in [LockKeys -> Jobs \cup {Nobody}]
BY DEF Locks!Acquire, Locks!ReleaseAll

(* Taking a snapshot keeps the types.                                      *)
LEMMA TakeTypes ==
    ASSUME TypeOK, NEW j \in Jobs, Turns(j), phase[j] \in Working, NEW x \in Cands, NEW b \in BOOLEAN,
           TakeSnapshot(j, x, content[Vol(x)], b)
    PROVE  snaps' \in [Apps -> SUBSET Snapshot] /\ taken' \in Nat
<1>1. content[Vol(x)] \in Nat /\ taken + 1 \in Nat
      BY CandFacts DEF TypeOK
<1>2. Filed(taken + 1, j, Owner(j), x, content[Vol(x)], b) \in Snapshot
      BY <1>1, AtWork, FiledType
<1> QED BY <1>1, <1>2 DEF TakeSnapshot, TypeOK

(* Whatever ends a turn with a failure is Fails, in a phase of Working.    *)
LEMMA FailsGives ==
    ASSUME NEW j \in Jobs, Gives(j) \/ Partial(j)
    PROVE  \E p \in Working : Fails(j, p)
BY DEF Gives, Partial, DuplicateMount, SnapshotGone, CommandFails, PartialBackup, Working

(* Fails keeps the types.                                                  *)
LEMMA FailsTypes ==
    ASSUME TypeOK, NEW j \in Jobs, Turns(j), NEW p \in Working, Fails(j, p)
    PROVE  /\ phase' \in [Jobs -> Phases] /\ bad' \in [Jobs -> SUBSET Cands]
           /\ lock' \in [LockKeys -> Jobs \cup {Nobody}]
<1>1. phase[j] \in Working
      BY DEF Fails, GoTo
<1>2. phase' \in [Jobs -> Phases]
      BY DEF Fails, GoTo, TypeOK, Phases
<1>3. bad' \in [Jobs -> SUBSET Cands]
      BY <1>1, AtWork DEF Fails, TypeOK
<1>4. lock' \in [LockKeys -> Jobs \cup {Nobody}]
      BY LockTypes DEF Fails, TypeOK
<1> QED BY <1>2, <1>3, <1>4

(* Each step of a job keeps the types.                                     *)
LEMMA TypeOKStep ==
    ASSUME IInv, NEW j \in Jobs, Step(j)
    PROVE  TypeOK'
<1> USE DEF data, repo, choice, result, GoTo, Phases
<1>0. TypeOK /\ Turns(j) /\ (j \in Restores => Plans(j))
      BY DEF IInv
<1>1. CASE Select(j)
  <2>1. \A s : Matching(j, s) \subseteq Cands
        BY MatchingFacts
  <2>2. CASE SelectBackup(j)
        BY <1>0, <2>1, <2>2 DEF SelectBackup, TypeOK
  <2>3. CASE SelectOne(j)
        BY <1>0, <2>1, <2>3 DEF SelectOne, TypeOK
  <2>4. CASE SelectVolumes(j)
        BY <1>0, <2>1, <2>4 DEF SelectVolumes, TypeOK
  <2> QED BY <1>1, <2>2, <2>3, <2>4 DEF Select
<1>2. CASE Preflight(j)
  <2>1. ASSUME NEW x \in Cands, Resolve(j, x) PROVE TypeOK'
    <3>1. Matches(x) \subseteq Snapshot /\ Newest(Matches(x)) \subseteq Snapshot
          BY <1>0, CandFacts DEF Matches, Newest, TypeOK
    <3> QED BY <1>0, <2>1, <3>1 DEF Resolve, TypeOK
  <2>2. ASSUME NEW x \in Cands, ResolveFails(j, x) PROVE TypeOK'
        BY <1>0, <2>2 DEF ResolveFails, TypeOK
  <2>3. CASE Resolved(j)
        BY <1>0, <2>3 DEF Resolved, TypeOK
  <2> QED BY <1>2, <2>1, <2>2, <2>3 DEF Preflight
<1>3. CASE Ask(j) \/ Loop(j) \/ CreateWorker(j)
  <2>1. CASE Confirm(j) \/ Refuse(j) \/ EndRestore(j) \/ CreateWorker(j)
        BY <1>0, <2>1 DEF Confirm, Refuse, EndRestore, CreateWorker, TypeOK
  <2>2. ASSUME NEW x \in Cands, Begin(j, x) PROVE TypeOK'
        BY <1>0, <2>2 DEF Begin, TypeOK
  <2> QED BY <1>3, <2>1, <2>2 DEF Ask, Loop
<1>4. CASE Gives(j)
  <2>2. bad' \in [Jobs -> SUBSET Cands] /\ phase' \in [Jobs -> Phases]
        BY <1>0, <1>4, FailsTypes, FailsGives
  <2>3. lock' \in [LockKeys -> Jobs \cup {Nobody}]
        BY <1>0, <1>4, FailsTypes, FailsGives
  <2> QED BY <1>0, <1>4, <2>2, <2>3 DEF Gives, DuplicateMount, SnapshotGone, CommandFails, TypeOK
<1>5. CASE Partial(j)
  <2>1. PICK x \in Cands : PartialBackup(j, x)
        BY <1>5 DEF Partial
  <2>2. phase[j] \in Working /\ TakeSnapshot(j, x, content[Vol(x)], FALSE)
        BY <2>1 DEF PartialBackup, Fails, Working
  <2>3. bad' \in [Jobs -> SUBSET Cands] /\ phase' \in [Jobs -> Phases]
        BY <1>0, <1>5, FailsTypes, FailsGives
  <2>4. lock' \in [LockKeys -> Jobs \cup {Nobody}]
        BY <1>0, <1>5, FailsTypes, FailsGives
  <2>5. snaps' \in [Apps -> SUBSET Snapshot] /\ taken' \in Nat
        BY <1>0, <2>2, TakeTypes
  <2> QED BY <1>0, <2>1, <2>3, <2>4, <2>5 DEF PartialBackup, TypeOK
<1>6. CASE Takes(j)
  <2>1. CASE SafetyBackup(j)
    <3>1. phase[j] \in Working /\ TakeSnapshot(j, now[j], content[Vol(now[j])], TRUE)
          BY <2>1 DEF SafetyBackup, Working
    <3>2. snaps' \in [Apps -> SUBSET Snapshot] /\ taken' \in Nat
          BY <1>0, <3>1, AtWork, TakeTypes
    <3> QED BY <1>0, <2>1, <3>2 DEF SafetyBackup, TypeOK
  <2>2. ASSUME NEW x \in Cands, BackUp(j, x) PROVE TypeOK'
    <3>1. phase[j] \in Working /\ TakeSnapshot(j, x, content[Vol(x)], TRUE)
          BY <2>2 DEF BackUp, Working
    <3>2. snaps' \in [Apps -> SUBSET Snapshot] /\ taken' \in Nat
          BY <1>0, <3>1, TakeTypes
    <3> QED BY <1>0, <2>2, <3>2 DEF BackUp, TypeOK
  <2> QED BY <1>6, <2>1, <2>2 DEF Takes
<1>7. CASE Acquire(j)
  <2>1. phase[j] \in Working
        BY <1>7 DEF Acquire, AcquireRepo, AcquireSource, Working
  <2>2. lock' \in [LockKeys -> Jobs \cup {Nobody}]
        BY <1>0, <1>7, <2>1, LockTypes, AtWork DEF Acquire, AcquireRepo, AcquireSource, TypeOK
  <2> QED BY <1>0, <1>7, <2>2 DEF Acquire, AcquireRepo, AcquireSource, TypeOK
<1>8. CASE Forget(j)
  <2>1. snaps' \in [Apps -> SUBSET Snapshot]
        BY <1>0, <1>8 DEF Forget, TypeOK
  <2> QED BY <1>0, <1>8, <2>1 DEF Forget, TypeOK
<1>9. CASE Prune(j)
      BY <1>0, <1>9, LockTypes DEF Prune, TypeOK
<1>10. CASE Restore(j)
  <2>1. phase[j] \in Working
        BY <1>10 DEF Restore, Working
  <2>2. stage' \in [Jobs -> Snapshot \cup {Nobody}]
        BY <1>0, <1>10, <2>1, AtWork DEF Restore, TypeOK
  <2>3. /\ content \in [Volumes -> Nat] /\ written \in Nat /\ written' = written + 1
        /\ content' = [content EXCEPT ![Vol(now[j])] = written + 1]
        BY <1>0, <1>10 DEF Restore, TypeOK
  <2>4. content' \in [Volumes -> Nat] /\ written' \in Nat
    <3> DEFINE new == written + 1
    <3>1. new \in Nat /\ content' = [content EXCEPT ![Vol(now[j])] = new]
          BY <2>3
    <3> HIDE DEF new
    <3>2. written' \in Nat
          BY <2>3
    <3>3. content' \in [Volumes -> Nat]
          BY <2>3, <3>1
    <3> QED BY <3>2, <3>3
  <2>5. phase' \in [Jobs -> Phases]
        BY <1>0, <1>10 DEF Restore, TypeOK
  <2> QED BY <1>0, <1>10, <2>2, <2>4, <2>5 DEF Restore, TypeOK
<1>11. CASE Sync(j)
  <2>1. phase[j] \in Working /\ phase[j] = "sync" /\ now[j] \in Cands
        BY <1>0, <1>11, AtWork DEF Sync, Working
  <2>2. j \in Restores
        BY <1>0, <2>1, Kinds DEF Turns, Saving
  <2>3. stage[j] \in Snapshot
        BY <1>0, <2>1, <2>2 DEF Plans, Planned
  <2>4. stage[j].version \in Nat
        BY <2>3 DEF Snapshot
  <2>5. lock' \in [LockKeys -> Jobs \cup {Nobody}]
        BY <1>0, <1>11, LockTypes DEF Sync, TypeOK
  <2> QED BY <1>0, <1>11, <2>1, <2>4, <2>5 DEF Sync, TypeOK
<1> QED BY <1>1, <1>2, <1>3, <1>4, <1>5, <1>6, <1>7, <1>8, <1>9, <1>10, <1>11, Steps DEF Quiet

(* An application's write keeps the types.                                 *)
LEMMA TypeOKWrite ==
    ASSUME TypeOK, NEW v \in Volumes, Write(v)
    PROVE  TypeOK'
<1>1. content' = [content EXCEPT ![v] = written + 1] /\ written' = written + 1
      BY DEF Write
<1>2. content' \in [Volumes -> Nat] /\ written' \in Nat
      BY <1>1 DEF TypeOK
<1> QED BY <1>2 DEF Write, TypeOK, repo, choice, result

-------------------------------------------------------------------------------
(* A step of one job leaves the progress of the others and the locks that  *)
(* they own alone.                                                         *)
LEMMA Others ==
    ASSUME TypeOK, NEW j \in Jobs, Step(j), NEW i \in Jobs, i # j
    PROVE  /\ phase'[i] = phase[i] /\ sel'[i] = sel[i] /\ left'[i] = left[i] /\ now'[i] = now[i]
           /\ plan'[i] = plan[i] /\ stage'[i] = stage[i] /\ good'[i] = good[i] /\ bad'[i] = bad[i]
           /\ \A k \in LockKeys : lock[k] = i => lock'[k] = i
<1> USE DEF TypeOK, data, repo, choice, result, GoTo
<1>0. i # Nobody
      BY Kinds
<1>1. CASE Quiet(j)
      BY <1>1 DEF Quiet, Select, SelectBackup, SelectOne, SelectVolumes, Preflight, Resolve, ResolveFails,
         Resolved, Ask, Confirm, Refuse, Loop, Begin, EndRestore, CreateWorker
<1>2. CASE Gives(j)
      BY <1>2 DEF Gives, DuplicateMount, SnapshotGone, CommandFails, Fails, Locks!ReleaseAll
<1>3. CASE Partial(j)
      BY <1>3 DEF Partial, PartialBackup, Fails, Locks!ReleaseAll
<1>4. CASE Takes(j) \/ Forget(j)
      BY <1>4 DEF Takes, SafetyBackup, BackUp, Forget
<1>5. CASE Acquire(j)
      BY <1>5, <1>0 DEF Acquire, AcquireRepo, AcquireSource, Locks!Acquire
<1>6. CASE Prune(j) \/ Sync(j)
      BY <1>6 DEF Prune, Sync, Locks!ReleaseAll
<1>7. CASE Restore(j)
      BY <1>7 DEF Restore
<1> QED BY <1>1, <1>2, <1>3, <1>4, <1>5, <1>6, <1>7, Steps

(* A step of a job changes what the volumes hold only in a restore that    *)
(* owns the volume.                                                        *)
LEMMA Contents ==
    ASSUME TypeOK, NEW j \in Jobs, Step(j)
    PROVE  \/ content' = content
           \/ /\ phase[j] \in {"restore", "sync"}
              /\ \A v \in Volumes : v # Vol(now[j]) => content'[v] = content[v]
<1> USE DEF TypeOK, data, repo, choice, result
<1>1. CASE Quiet(j)
      BY <1>1 DEF Quiet, Select, SelectBackup, SelectOne, SelectVolumes, Preflight, Resolve, ResolveFails,
         Resolved, Ask, Confirm, Refuse, Loop, Begin, EndRestore, CreateWorker
<1>2. CASE Gives(j) \/ Partial(j) \/ Takes(j) \/ Acquire(j) \/ Forget(j) \/ Prune(j)
      BY <1>2 DEF Gives, DuplicateMount, SnapshotGone, CommandFails, Partial, PartialBackup, Takes,
         SafetyBackup, BackUp, Forget, Prune, Acquire, AcquireRepo, AcquireSource
<1>3. CASE Restore(j) \/ Sync(j)
      BY <1>3 DEF Restore, Sync, GoTo
<1> QED BY <1>1, <1>2, <1>3, Steps

(* A step of a job changes the snapshots only while it owns the lock of    *)
(* their repository: it files one, or a backup forgets some.               *)
Files(j, x, b) == TakeSnapshot(j, x, content[Vol(x)], b)

LEMMA Snapshots ==
    ASSUME NEW j \in Jobs, Step(j)
    PROVE  \/ snaps' = snaps /\ taken' = taken
           \/ /\ phase[j] = "safety"
              /\ \E b \in BOOLEAN : Files(j, now[j], b)
           \/ /\ phase[j] = "backup"
              /\ \E x \in left[j], b \in BOOLEAN : Files(j, x, b)
           \/ /\ phase[j] = "forget" /\ taken' = taken
              /\ snaps' = [snaps EXCEPT ![Repo(j)] = @ \ Forgotten(@, Keep[Owner(j)])]
<1> USE DEF data, repo, choice, result
<1>1. CASE Quiet(j)
      BY <1>1 DEF Quiet, Select, SelectBackup, SelectOne, SelectVolumes, Preflight, Resolve, ResolveFails,
         Resolved, Ask, Confirm, Refuse, Loop, Begin, EndRestore, CreateWorker
<1>2. CASE Gives(j) \/ Acquire(j) \/ Prune(j) \/ Restore(j) \/ Sync(j)
      BY <1>2 DEF Gives, DuplicateMount, SnapshotGone, CommandFails, Prune, Acquire, AcquireRepo,
         AcquireSource, Restore, Sync
<1>3. CASE Partial(j)
      BY <1>3 DEF Partial, PartialBackup, Fails, GoTo, Files
<1>4. CASE Takes(j)
      BY <1>4 DEF Takes, SafetyBackup, BackUp, GoTo, Files
<1>5. CASE Forget(j)
      BY <1>5 DEF Forget, GoTo
<1> QED BY <1>1, <1>2, <1>3, <1>4, <1>5, Steps

-------------------------------------------------------------------------------
(* A job's own step keeps its turns.                                       *)
LEMMA TurnsStep ==
    ASSUME IInv, NEW j \in Jobs, Step(j)
    PROVE  Turns(j)'
<1> USE DEF data, repo, choice, result, GoTo, Working, Saving, Turns
<1>0. TypeOK /\ Turns(j) /\ (j \in Restores => j \notin Backups) /\ (j \in All => j \in Restores)
      BY Kinds DEF IInv
<1>1. CASE Select(j)
      BY <1>0, <1>1 DEF TypeOK, Select, SelectBackup, SelectOne, SelectVolumes
<1>2. CASE Preflight(j)
      BY <1>0, <1>2 DEF TypeOK, Preflight, Resolve, ResolveFails, Resolved
<1>3. CASE Ask(j) \/ CreateWorker(j)
      BY <1>0, <1>3 DEF TypeOK, Ask, Confirm, Refuse, CreateWorker
<1>4. CASE Loop(j)
      BY <1>0, <1>4 DEF TypeOK, Loop, Begin, EndRestore
<1>5. CASE Gives(j) \/ Partial(j)
  <2>1. /\ phase'[j] = (IF j \in Restores THEN "next" ELSE "failed")
        /\ UNCHANGED <<sel, left, now, good>>
        BY <1>0, <1>5 DEF TypeOK, Gives, DuplicateMount, SnapshotGone, CommandFails, Partial, PartialBackup, Fails
  <2> QED BY <1>0, <2>1
<1>6. CASE Takes(j)
  <2>1. CASE SafetyBackup(j)
        BY <1>0, <2>1 DEF TypeOK, SafetyBackup
  <2>2. ASSUME NEW x \in Cands, BackUp(j, x) PROVE Turns(j)'
    <3>1. /\ phase[j] = "backup" /\ phase'[j] \in {"backup", "forget", "prune"}
          /\ left'[j] = left[j] \ {x} /\ UNCHANGED <<sel, now, good, bad>>
          BY <1>0, <2>2 DEF TypeOK, BackUp
    <3> QED BY <1>0, <3>1
  <2> QED BY <1>6, <2>1, <2>2 DEF Takes
<1>7. CASE Acquire(j)
      BY <1>0, <1>7, Kinds DEF TypeOK, Acquire, AcquireRepo, AcquireSource
<1>8. CASE Forget(j) \/ Prune(j)
      BY <1>0, <1>8 DEF TypeOK, Forget, Prune
<1>9. CASE Restore(j) \/ Sync(j)
      BY <1>0, <1>9 DEF TypeOK, Restore, Sync
<1> QED BY <1>1, <1>2, <1>3, <1>4, <1>5, <1>6, <1>7, <1>8, <1>9, Steps DEF Quiet

(* A job's own step keeps the locks that its next phase needs.             *)
LEMMA HeldStep ==
    ASSUME IInv, NEW j \in Jobs, Step(j)
    PROVE  Held(j)'
<1> USE DEF data, repo, choice, result, GoTo, Working, InRepo, AtVolume, Held
<1>0. TypeOK /\ Turns(j) /\ Held(j)
      BY DEF IInv
<1>1. CASE Quiet(j)
  <2>1. CASE CreateWorker(j)
        BY <1>0, <2>1 DEF TypeOK, CreateWorker, Repo
  <2>2. CASE ~CreateWorker(j)
    <3>1. phase'[j] \in {"new", "confirm", "preflight", "next", "repo", "done", "failed"}
          BY <1>0, <1>1, <2>2 DEF TypeOK, Quiet, Select, SelectBackup, SelectOne, SelectVolumes, Preflight,
             Resolve, ResolveFails, Resolved, Ask, Confirm, Refuse, Loop, Begin, EndRestore
    <3> QED BY <3>1
  <2> QED BY <2>1, <2>2
<1>2. CASE Gives(j) \/ Partial(j) \/ Prune(j) \/ Sync(j)
  <2>1. phase'[j] \in {"next", "failed", "done"}
        BY <1>0, <1>2 DEF TypeOK, Gives, DuplicateMount, SnapshotGone, CommandFails, Partial, PartialBackup,
           Fails, Prune, Sync
  <2> QED BY <2>1
<1>3. CASE Takes(j) \/ Forget(j) \/ Restore(j)
  <2>1. UNCHANGED <<lock, now>>
        BY <1>3 DEF Takes, SafetyBackup, BackUp, Forget, Restore
  <2>2. phase[j] \in InRepo /\ (phase'[j] \in AtVolume => phase[j] \in AtVolume)
        BY <1>0, <1>3 DEF TypeOK, Takes, SafetyBackup, BackUp, Forget, Restore
  <2> QED BY <1>0, <2>1, <2>2 DEF Repo
<1>4. CASE AcquireRepo(j)
  <2>1. phase[j] \in Working /\ now' = now /\ phase'[j] \in {"source", "create"}
        BY <1>0, <1>4 DEF TypeOK, AcquireRepo
  <2>2. lock' = [lock EXCEPT ![<<"repo", Repo(j)>>] = j] /\ <<"repo", Repo(j)>> \in LockKeys
        BY <1>0, <1>4, <2>1, AtWork DEF AcquireRepo, Locks!Acquire
  <2>3. lock'[<<"repo", Repo(j)>>] = j
        BY <1>0, <2>2 DEF TypeOK
  <2> QED BY <2>1, <2>3 DEF Repo
<1>5. CASE AcquireSource(j)
  <2>1. phase[j] = "source" /\ now' = now
        BY <1>0, <1>5 DEF TypeOK, AcquireSource
  <2>2. /\ lock' = [lock EXCEPT ![<<"source", Vol(now[j])>>] = j] /\ <<"source", Vol(now[j])>> \in LockKeys
        /\ <<"repo", Repo(j)>> \in LockKeys
        BY <1>0, <1>5, <2>1, AtWork DEF AcquireSource, Locks!Acquire
  <2>3. lock'[<<"source", Vol(now[j])>>] = j
        BY <1>0, <2>2 DEF TypeOK
  <2>4. lock'[<<"repo", Repo(j)>>] = j
        BY <1>0, <2>1, <2>2 DEF TypeOK
  <2> QED BY <2>1, <2>3, <2>4 DEF Repo
<1> QED BY <1>1, <1>2, <1>3, <1>4, <1>5, Steps DEF Acquire

(* A restore's own step keeps its account.                                 *)
LEMMA AccountsStep ==
    ASSUME IInv, NEW j \in Restores, Step(j)
    PROVE  Accounts(j)'
<1> USE DEF data, repo, choice, result, GoTo, Working
<1>0. TypeOK /\ Turns(j) /\ Accounts(j) /\ j \in Jobs /\ j \notin Backups
      BY Kinds DEF IInv
<1>1. CASE Select(j)
      BY <1>0, <1>1 DEF TypeOK, Turns, Accounts, Select, SelectBackup, SelectOne, SelectVolumes
<1>2. CASE Preflight(j)
  <2>1. CASE \E x \in Cands : Resolve(j, x) \/ ResolveFails(j, x)
        BY <1>0, <2>1 DEF TypeOK, Turns, Accounts, Resolve, ResolveFails
  <2>2. CASE Resolved(j)
        BY <1>0, <2>2 DEF TypeOK, Turns, Accounts, Resolved
  <2> QED BY <1>2, <2>1, <2>2 DEF Preflight
<1>3. CASE Ask(j)
      BY <1>0, <1>3 DEF TypeOK, Turns, Accounts, Ask, Confirm, Refuse
<1>4. CASE Loop(j)
  <2>1. CASE EndRestore(j)
        BY <1>0, <2>1 DEF TypeOK, Turns, Accounts, EndRestore
  <2>2. ASSUME NEW x \in Cands, Begin(j, x) PROVE Accounts(j)'
        BY <1>0, <2>2 DEF TypeOK, Turns, Accounts, Begin
  <2> QED BY <1>4, <2>1, <2>2 DEF Loop
<1>5. CASE Gives(j) \/ Partial(j)
  <2>1. /\ phase'[j] = "next" /\ phase[j] \in Working
        /\ UNCHANGED <<sel, left, now, good>>
        /\ bad'[j] = bad[j] \cup {now[j]}
        BY <1>0, <1>5 DEF TypeOK, Gives, DuplicateMount, SnapshotGone, CommandFails, Partial, PartialBackup, Fails
  <2> QED BY <1>0, <2>1 DEF Turns, Accounts
<1>6. CASE Takes(j) \/ Forget(j) \/ Prune(j) \/ CreateWorker(j)
  <2>1. phase[j] = "safety" /\ phase'[j] = "restore" /\ UNCHANGED <<sel, left, now, good, bad>>
        BY <1>0, <1>6 DEF TypeOK, Turns, Saving, Takes, SafetyBackup, BackUp, Forget, Prune, CreateWorker
  <2> QED BY <1>0, <2>1 DEF Accounts
<1>7. CASE Acquire(j) \/ Restore(j)
  <2>1. phase[j] \in Working /\ phase'[j] \in Working /\ UNCHANGED <<sel, left, now, good, bad>>
        BY <1>0, <1>7 DEF TypeOK, Acquire, AcquireRepo, AcquireSource, Restore
  <2> QED BY <1>0, <2>1 DEF Accounts
<1>8. CASE Sync(j)
  <2>1. /\ phase'[j] = "next" /\ phase[j] \in Working
        /\ UNCHANGED <<sel, left, now, bad>>
        /\ good'[j] = good[j] \cup {now[j]}
        BY <1>0, <1>8 DEF TypeOK, Sync
  <2> QED BY <1>0, <2>1 DEF Turns, Accounts
<1> QED BY <1>1, <1>2, <1>3, <1>4, <1>5, <1>6, <1>7, <1>8, Steps DEF Quiet

-------------------------------------------------------------------------------
(* The snapshots that a candidate's commands ask for are typed, and of its *)
(* volume.                                                                 *)
LEMMA MatchesFacts ==
    ASSUME IInv, NEW x \in Cands
    PROVE  /\ Matches(x) \subseteq Snapshot
           /\ \A sn \in Matches(x) : sn.volume = Vol(x)
           /\ Newest(Matches(x)) \subseteq Matches(x)
<1>1. App(x) \in Apps /\ snaps[App(x)] \subseteq Snapshot /\ FiledRight(App(x))
      BY CandFacts DEF IInv, TypeOK
<1> QED BY <1>1 DEF Matches, Newest, FiledRight

(* Resolving a candidate changes the plan for it alone.                    *)
LEMMA ResolvePlan ==
    ASSUME IInv, NEW j \in Restores, NEW x \in Cands, Resolve(j, x)
    PROVE  /\ Planned(j, x)'
           /\ \A y \in Cands : Planned(j, y) => Planned(j, y)'
<1>1. PICK sn \in Matches(x) : plan' = [plan EXCEPT ![j][x] = sn]
      BY MatchesFacts DEF Resolve
<1>2. plan'[j][x] = sn /\ \A y \in Cands : y # x => plan'[j][y] = plan[j][y]
      BY <1>1, Kinds DEF IInv, TypeOK
<1>3. sn \in Snapshot /\ sn.volume = Vol(x)
      BY <1>1, MatchesFacts
<1> QED BY <1>2, <1>3 DEF Planned

(* A restore's own step keeps what it resolved.                            *)
LEMMA PlansStep ==
    ASSUME IInv, NEW j \in Restores, Step(j)
    PROVE  Plans(j)'
<1> USE DEF data, repo, choice, result, GoTo, Working
<1>0. /\ TypeOK /\ Turns(j) /\ Accounts(j) /\ Plans(j) /\ j \in Jobs /\ j \notin Backups
      /\ left[j] \subseteq sel[j] /\ sel[j] \subseteq Cands
      BY Kinds DEF IInv, Turns, TypeOK
<1>1. CASE Select(j)
      BY <1>0, <1>1 DEF TypeOK, Plans, Select, SelectBackup, SelectOne, SelectVolumes
<1>2. CASE Preflight(j)
  <2>1. ASSUME NEW x \in Cands, Resolve(j, x) PROVE Plans(j)'
    <3>1. /\ phase[j] = "preflight" /\ phase' = phase
          /\ left'[j] = left[j] \ {x} /\ UNCHANGED <<sel, bad>>
          BY <1>0, <2>1 DEF TypeOK, Resolve
    <3>2. \A y \in sel'[j] \ (left'[j] \cup bad'[j]) : Planned(j, y)'
          BY <1>0, <2>1, <3>1, ResolvePlan DEF Plans
    <3> QED BY <3>1, <3>2 DEF Plans
  <2>2. ASSUME NEW x \in Cands, ResolveFails(j, x) PROVE Plans(j)'
    <3>1. /\ phase[j] = "preflight" /\ phase' = phase
          /\ left'[j] = left[j] \ {x} /\ bad'[j] = bad[j] \cup {x} /\ UNCHANGED <<sel, plan>>
          BY <1>0, <2>2 DEF TypeOK, ResolveFails
    <3> QED BY <1>0, <3>1 DEF Plans, Planned
  <2>3. CASE Resolved(j)
    <3>1. /\ phase[j] = "preflight" /\ left[j] = {} /\ left'[j] = sel[j] \ bad[j] /\ UNCHANGED <<sel, bad, plan>>
          /\ phase'[j] = (IF j \in All THEN "next" ELSE IF bad[j] = {} THEN "confirm" ELSE "failed")
          BY <1>0, <2>3 DEF TypeOK, Resolved
    <3> QED BY <1>0, <3>1 DEF Plans, Planned
  <2> QED BY <1>2, <2>1, <2>2, <2>3 DEF Preflight
<1>3. CASE Ask(j)
  <2>1. CASE Confirm(j)
    <3>1. /\ phase[j] = "confirm" /\ left'[j] = sel[j] /\ UNCHANGED <<sel, plan, bad>>
          /\ phase'[j] = (IF j \in All THEN "preflight" ELSE "next")
          BY <1>0, <2>1 DEF TypeOK, Confirm
    <3> QED BY <1>0, <3>1 DEF Plans, Planned
  <2>2. CASE Refuse(j)
        BY <1>0, <2>2 DEF TypeOK, Refuse, Plans
  <2> QED BY <1>3, <2>1, <2>2 DEF Ask
<1>4. CASE Loop(j)
  <2>1. CASE EndRestore(j)
        BY <1>0, <2>1 DEF TypeOK, EndRestore, Plans
  <2>2. ASSUME NEW x \in Cands, Begin(j, x) PROVE Plans(j)'
    <3>1. /\ phase[j] = "next" /\ phase'[j] = "repo" /\ now'[j] = x /\ x \in left[j]
          /\ left'[j] = left[j] \ {x} /\ UNCHANGED <<sel, plan>>
          BY <1>0, <2>2 DEF TypeOK, Begin
    <3> QED BY <1>0, <3>1 DEF Plans, Planned
  <2> QED BY <1>4, <2>1, <2>2 DEF Loop
<1>5. CASE Gives(j) \/ Partial(j) \/ Sync(j)
  <2>1. phase'[j] = "next" /\ phase[j] \in Working /\ UNCHANGED <<left, plan>>
        BY <1>0, <1>5 DEF TypeOK, Gives, DuplicateMount, SnapshotGone, CommandFails, Partial, PartialBackup,
           Fails, Sync
  <2> QED BY <1>0, <2>1 DEF Plans, Planned
<1>6. CASE Takes(j) \/ Forget(j) \/ Prune(j) \/ CreateWorker(j) \/ Acquire(j)
  <2>1. phase[j] \in Working /\ phase'[j] \in Working \ {"sync"} /\ UNCHANGED <<left, now, plan>>
        BY <1>0, <1>6 DEF TypeOK, Turns, Saving, Takes, SafetyBackup, BackUp, Forget, Prune, CreateWorker,
           Acquire, AcquireRepo, AcquireSource
  <2> QED BY <1>0, <2>1 DEF Plans, Planned
<1>7. CASE Restore(j)
  <2>1. /\ phase[j] = "restore" /\ phase'[j] = "sync" /\ UNCHANGED <<left, now, plan>>
        /\ stage'[j] = plan[j][now[j]]
        BY <1>0, <1>7 DEF TypeOK, Restore
  <2> QED BY <1>0, <2>1 DEF Plans, Planned
<1> QED BY <1>1, <1>2, <1>3, <1>4, <1>5, <1>6, <1>7, Steps DEF Quiet

-------------------------------------------------------------------------------
(* As many mount targets as sources: no two sources have the same one.     *)
LEMMA TargetsDiffer ==
    ASSUME TypeOK, NEW j \in Jobs, Cardinality(MountsOf(j)) = Cardinality(sel[j])
    PROVE  \A x, y \in sel[j] : x[2] = y[2] => x = y
<1> DEFINE f == [x \in sel[j] |-> <<Owner(j), x[2]>>]
<1>1. IsFiniteSet(sel[j])
      BY CandsFinite, FS_Subset DEF TypeOK
<1>2. f \in Surjection(sel[j], MountsOf(j))
      BY Fun_IsSurj DEF MountsOf
<1>3. f \in Injection(sel[j], MountsOf(j))
  <2> HIDE DEF f
  <2> QED BY <1>1, <1>2, FS_SurjSameCardinalityImpliesInj
<1>4. \A x, y \in sel[j] : f[x] = f[y] => x = y
  <2> HIDE DEF f
  <2> QED BY <1>3, Fun_InjectionProperties
<1> QED BY <1>4

(* A backup's own step keeps what it selected alike.                       *)
LEMMA AlikeStep ==
    ASSUME IInv, NEW j \in Backups, Step(j)
    PROVE  Alike(j)'
<1> USE DEF data, repo, choice, result, GoTo, Working, Saving
<1>0. TypeOK /\ Turns(j) /\ Alike(j) /\ j \in Jobs /\ j \notin Restores
      BY Kinds DEF IInv
<1>1. CASE Select(j)
  <2>1. SelectBackup(j)
        BY <1>0, <1>1, Kinds DEF Select, SelectOne, SelectVolumes
  <2>2. \E s \in SourceArgs(j) : sel'[j] = Matching(j, s)
        BY <1>0, <2>1 DEF SelectBackup, TypeOK
  <2>3. phase'[j] = "repo"
        BY <1>0, <2>1 DEF SelectBackup, TypeOK
  <2> QED BY <2>2, <2>3 DEF Alike
<1>2. CASE CreateWorker(j)
  <2>1. /\ phase[j] = "create" /\ phase'[j] = "backup" /\ UNCHANGED <<sel, now>>
        /\ Cardinality(MountsOf(j)) = Cardinality(sel[j])
        BY <1>0, <1>2 DEF CreateWorker, TypeOK
  <2> QED BY <1>0, <2>1, TargetsDiffer DEF Alike
<1>3. CASE Preflight(j) \/ Ask(j) \/ Loop(j) \/ SafetyBackup(j) \/ Restore(j) \/ Sync(j)
      BY <1>0, <1>3 DEF Turns, Preflight, Resolve, ResolveFails, Resolved, Ask, Confirm, Refuse, Loop, Begin,
         EndRestore, SafetyBackup, Restore, Sync
<1>4. CASE Gives(j) \/ Partial(j) \/ Prune(j)
  <2>1. phase'[j] \in {"failed", "done"}
        BY <1>0, <1>4 DEF TypeOK, Gives, DuplicateMount, SnapshotGone, CommandFails, Partial, PartialBackup,
           Fails, Prune
  <2> QED BY <2>1 DEF Alike
<1>5. ASSUME NEW x \in Cands, BackUp(j, x) PROVE Alike(j)'
  <2>1. /\ phase[j] = "backup" /\ left'[j] = left[j] \ {x} /\ UNCHANGED <<sel, now>>
        /\ phase'[j] = (IF Keep[Owner(j)] > 0 THEN "forget" ELSE IF left[j] = {x} THEN "prune" ELSE "backup")
        BY <1>0, <1>5 DEF TypeOK, BackUp
  <2> QED BY <1>0, <2>1 DEF Alike, Owner
<1>6. CASE Acquire(j)
  <2>1. phase[j] = "repo" /\ phase'[j] = "create" /\ UNCHANGED <<sel, now>>
        BY <1>0, <1>6 DEF TypeOK, Turns, Acquire, AcquireRepo, AcquireSource
  <2> QED BY <1>0, <2>1 DEF Alike
<1>7. CASE Forget(j)
  <2>1. /\ phase[j] = "forget" /\ phase'[j] = (IF left[j] = {} THEN "prune" ELSE "backup")
        /\ UNCHANGED <<sel, now, left>>
        BY <1>0, <1>7 DEF TypeOK, Forget
  <2> QED BY <1>0, <2>1 DEF Alike
<1> QED BY <1>1, <1>2, <1>3, <1>4, <1>5, <1>6, <1>7, Steps DEF Quiet, Takes

-------------------------------------------------------------------------------
(* What taking a snapshot does to the repositories.                        *)
LEMMA FilesAdds ==
    ASSUME TypeOK, NEW j \in Jobs, Turns(j), phase[j] \in Working, NEW x \in Cands, NEW b \in BOOLEAN,
           Files(j, x, b)
    PROVE  /\ snaps'[Repo(j)] = snaps[Repo(j)] \cup {Filed(taken + 1, j, Owner(j), x, content[Vol(x)], b)}
           /\ \A a \in Apps : a # Repo(j) => snaps'[a] = snaps[a]
           /\ taken' = taken + 1 /\ taken \in Nat
BY AtWork DEF TypeOK, Files, TakeSnapshot

(* A backup's snapshot of a source that its first container has too is of  *)
(* that container: otherwise the two would have had one mount target.      *)
LEMMA OwnCandidate ==
    ASSUME IInv, NEW j \in Backups, phase[j] \in Saving, NEW x \in sel[j], <<Owner(j), x[2]>> \in Cands
    PROVE  <<Owner(j), x[2]>> = x
<1> DEFINE y == <<Owner(j), x[2]>>
<1>0. j \in Jobs /\ j \notin All /\ phase[j] \in Working
      BY Kinds DEF Saving, Working
<1>1. PICK s \in SourceArgs(j) : sel[j] = Matching(j, s)
      BY <1>0 DEF IInv, Alike
<1>2. now[j] \in sel[j]
      BY <1>0 DEF IInv, Turns
<1>3. y \in Matching(j, s)
      BY <1>0, <1>1, <1>2 DEF Matching, App, Owner
<1> QED BY <1>1, <1>3 DEF IInv, Alike

(* A job's step keeps the repositories filed right.                        *)
LEMMA FiledRightStep ==
    ASSUME IInv, NEW j \in Jobs, Step(j), NEW a \in Apps
    PROVE  FiledRight(a)'
<1>0. TypeOK /\ Turns(j) /\ FiledRight(a) /\ (j \notin Backups => j \in Restores)
      BY Kinds DEF IInv
<1>1. \A sn \in snaps[a] : sn.time \in Nat
      BY <1>0 DEF TypeOK, Snapshot
<1>2. ASSUME NEW x \in Cands, NEW b \in BOOLEAN, Files(j, x, b), phase[j] \in Working,
             <<Owner(j), x[2]>> \in Cands => <<Owner(j), x[2]>> = x
      PROVE  FiledRight(a)'
  <2> DEFINE new == Filed(taken + 1, j, Owner(j), x, content[Vol(x)], b)
  <2>1. /\ \A sn \in snaps'[a] : sn \in snaps[a] \/ sn = new
        /\ taken' = taken + 1 /\ taken \in Nat
        BY <1>0, <1>2, FilesAdds
  <2>2. /\ new.time = taken + 1 /\ new.volume = Vol(x)
        /\ new.container = Owner(j) /\ new.source = x[2]
        BY DEF Filed
  <2> HIDE DEF new
  <2>3. ASSUME NEW sn \in snaps'[a]
        PROVE  /\ sn.time <= taken'
               /\ <<sn.container, sn.source>> \in Cands => sn.volume = Vol(<<sn.container, sn.source>>)
    <3>1. CASE sn \in snaps[a]
          BY <1>0, <1>1, <2>1, <3>1 DEF FiledRight
    <3>2. CASE sn = new
          BY <1>2, <2>1, <2>2, <3>2
    <3> QED BY <2>1, <3>1, <3>2
  <2> QED BY <2>3 DEF FiledRight
<1>3. CASE phase[j] = "safety" /\ \E b \in BOOLEAN : Files(j, now[j], b)
  <2>1. phase[j] \in Working /\ now[j] \in Cands
        BY <1>0, <1>3, AtWork DEF Working
  <2>2. <<Owner(j), now[j][2]>> = now[j]
        BY <2>1, CandFacts DEF Owner
  <2> QED BY <1>2, <1>3, <2>1, <2>2
<1>4. CASE phase[j] = "backup" /\ \E x \in left[j], b \in BOOLEAN : Files(j, x, b)
  <2>1. PICK x \in left[j], b \in BOOLEAN : Files(j, x, b)
        BY <1>4
  <2>2. j \in Backups /\ phase[j] \in Saving /\ phase[j] \in Working /\ x \in sel[j] /\ x \in Cands
        BY <1>0, <1>4, Kinds DEF Turns, TypeOK, Saving, Working
  <2> QED BY <1>2, <2>1, <2>2, OwnCandidate
<1>5. CASE /\ phase[j] = "forget" /\ taken' = taken
           /\ snaps' = [snaps EXCEPT ![Repo(j)] = @ \ Forgotten(@, Keep[Owner(j)])]
  <2>1. snaps'[a] \subseteq snaps[a]
        BY <1>0, <1>5 DEF TypeOK
  <2> QED BY <1>0, <1>5, <2>1 DEF FiledRight
<1>6. CASE snaps' = snaps /\ taken' = taken
      BY <1>0, <1>6 DEF FiledRight
<1> QED BY <1>3, <1>4, <1>5, <1>6, Snapshots

-------------------------------------------------------------------------------
(* Two jobs do not own one lock: those past AcquireRepo have different     *)
(* repositories, those that overwrite have different volumes.              *)
LEMMA Exclusive ==
    ASSUME IInv, NEW i \in Jobs, NEW j \in Jobs, i # j
    PROVE  /\ phase[i] \in InRepo /\ phase[j] \in InRepo => Repo(i) # Repo(j)
           /\ phase[i] \in AtVolume /\ phase[j] \in AtVolume => Vol(now[i]) # Vol(now[j])
BY DEF IInv, Held

(* Retention leaves the newest of a group.                                 *)
LEMMA NewestNotForgotten ==
    ASSUME NEW S, NEW n \in Nat, n > 0, NEW sn \in S,
           \A other \in S : SameGroup(sn, other) => ~(other.time > sn.time)
    PROVE  sn \notin Forgotten(S, n)
<1>1. {other \in S : SameGroup(sn, other) /\ other.time > sn.time} = {}
      OBVIOUS
<1>2. Cardinality({other \in S : SameGroup(sn, other) /\ other.time > sn.time}) = 0
      BY <1>1, FS_EmptySet
<1> QED BY <1>2 DEF Forgotten

(* A job's step leaves alone what another one, which owns its repository's *)
(* lock, has in there.                                                     *)
LEMMA RepoOfAnother ==
    ASSUME IInv, NEW j \in Jobs, Step(j), NEW i \in Jobs, i # j, phase[i] \in InRepo
    PROVE  snaps'[Repo(i)] = snaps[Repo(i)]
<1>0. TypeOK /\ Turns(j) /\ Turns(i)
      BY DEF IInv
<1>1. Repo(i) \in Apps /\ (phase[j] \in InRepo => Repo(i) # Repo(j))
      BY <1>0, AtWork, Exclusive DEF InRepo
<1>2. ASSUME phase[j] \in {"safety", "backup"}, NEW x \in Cands, NEW b \in BOOLEAN, Files(j, x, b)
      PROVE  snaps'[Repo(i)] = snaps[Repo(i)]
      BY <1>0, <1>1, <1>2, FilesAdds DEF InRepo, Working
<1>3. CASE phase[j] = "safety" /\ \E b \in BOOLEAN : Files(j, now[j], b)
      BY <1>0, <1>2, <1>3, AtWork DEF Working
<1>4. CASE phase[j] = "backup" /\ \E x \in left[j], b \in BOOLEAN : Files(j, x, b)
      BY <1>0, <1>2, <1>4 DEF TypeOK
<1>5. CASE /\ phase[j] = "forget" /\ taken' = taken
           /\ snaps' = [snaps EXCEPT ![Repo(j)] = @ \ Forgotten(@, Keep[Owner(j)])]
      BY <1>0, <1>1, <1>5 DEF InRepo, Working, TypeOK
<1> QED BY <1>3, <1>4, <1>5, Snapshots

-------------------------------------------------------------------------------
(* A backup of x saves x, and what was saved before stays saved.           *)
LEMMA SavedBackUp ==
    ASSUME IInv, NEW j \in Backups, NEW x \in Cands, BackUp(j, x)
    PROVE  Saved(j)'
<1> DEFINE new == Filed(taken + 1, j, Owner(j), x, content[Vol(x)], TRUE)
<1>0. TypeOK /\ j \in Jobs /\ Turns(j) /\ Alike(j) /\ Saved(j) /\ \A a \in Apps : FiledRight(a)
      BY Kinds DEF IInv
<1>1. /\ phase[j] = "backup" /\ phase[j] \in Saving /\ phase[j] \in Working
      /\ x \in left[j] /\ x \in sel[j] /\ UNCHANGED <<sel, now>> /\ left'[j] = left[j] \ {x}
      BY <1>0 DEF BackUp, GoTo, choice, TypeOK, Turns, Saving, Working
<1>2. Repo(j) \in Apps /\ Owner(j)' = Owner(j) /\ Repo(j)' = Repo(j)
      BY <1>0, <1>1, AtWork DEF Owner, Repo
<1>3. /\ snaps'[Repo(j)] = snaps[Repo(j)] \cup {new}
      /\ \A sn \in snaps[Repo(j)] : sn.time \in Nat /\ sn.time <= taken
      /\ taken \in Nat
  <2>1. Files(j, x, TRUE)
        BY DEF BackUp, Files
  <2>2. \A sn \in snaps[Repo(j)] : sn.time \in Nat /\ sn.time <= taken
    <3>1. snaps[Repo(j)] \subseteq Snapshot
          BY <1>0, <1>2 DEF TypeOK
    <3> QED BY <1>0, <1>2, <3>1 DEF FiledRight, Snapshot
  <2> QED BY <1>0, <1>1, <2>1, <2>2, FilesAdds
<1>4. /\ new.time = taken + 1 /\ new.by = j /\ new.complete /\ new.volume = Vol(x)
      /\ new.container = Owner(j) /\ new.source = x[2]
      BY DEF Filed
<1> HIDE DEF new
<1>5. SavedBy(j, x)'
  <2>1. \A other \in snaps'[Repo(j)] : other.time <= new.time
        BY <1>3, <1>4
  <2> QED BY <1>2, <1>3, <1>4, <2>1 DEF SavedBy
<1>6. ASSUME NEW y \in sel[j] \ left[j] PROVE SavedBy(j, y)'
  <2>1. PICK sn \in snaps[Repo(j)] :
            /\ sn.by = j /\ sn.complete /\ sn.volume = Vol(y)
            /\ sn.container = Owner(j) /\ sn.source = y[2]
            /\ \A other \in snaps[Repo(j)] : SameGroup(sn, other) => other.time <= sn.time
        BY <1>0, <1>1 DEF Saved, SavedBy
  <2>2. x[2] # y[2]
        BY <1>0, <1>1 DEF Alike
  <2>3. ~SameGroup(sn, new)
        BY <1>4, <2>1, <2>2 DEF SameGroup
  <2>4. \A other \in snaps'[Repo(j)] : SameGroup(sn, other) => other.time <= sn.time
        BY <1>3, <2>1, <2>3
  <2> QED BY <1>2, <1>3, <2>1, <2>4 DEF SavedBy
<1>7. \A y \in sel'[j] \ left'[j] : y = x \/ y \in sel[j] \ left[j]
      BY <1>1
<1> QED BY <1>5, <1>6, <1>7 DEF Saved

(* What a backup's retention removes is none of what it saved.             *)
LEMMA SavedForget ==
    ASSUME IInv, NEW j \in Backups, Forget(j)
    PROVE  Saved(j)'
<1>0. TypeOK /\ j \in Jobs /\ Turns(j) /\ Alike(j) /\ Saved(j)
      BY Kinds DEF IInv
<1>1. /\ phase[j] = "forget" /\ phase[j] \in Saving /\ phase[j] \in Working
      /\ UNCHANGED <<sel, now, left>>
      /\ snaps' = [snaps EXCEPT ![Repo(j)] = @ \ Forgotten(@, Keep[Owner(j)])]
      BY DEF Forget, GoTo, choice, Saving, Working
<1>2. Repo(j) \in Apps /\ Owner(j) \in Containers /\ Owner(j)' = Owner(j) /\ Repo(j)' = Repo(j)
      BY <1>0, <1>1, AtWork DEF Owner, Repo
<1>3. snaps'[Repo(j)] = snaps[Repo(j)] \ Forgotten(snaps[Repo(j)], Keep[Owner(j)])
      BY <1>0, <1>1, <1>2 DEF TypeOK
<1>4. Keep[Owner(j)] \in Nat /\ Keep[Owner(j)] > 0
      BY <1>0, <1>1, <1>2, RepositoryAssumption DEF Alike
<1>5. \A sn \in snaps[Repo(j)] : sn.time \in Nat
      BY <1>0, <1>2 DEF TypeOK, Snapshot
<1>6. ASSUME NEW y \in sel[j] \ left[j] PROVE SavedBy(j, y)'
  <2>1. PICK sn \in snaps[Repo(j)] :
            /\ sn.by = j /\ sn.complete /\ sn.volume = Vol(y)
            /\ sn.container = Owner(j) /\ sn.source = y[2]
            /\ \A other \in snaps[Repo(j)] : SameGroup(sn, other) => other.time <= sn.time
        BY <1>0, <1>1, <1>6 DEF Saved, SavedBy
  <2>2. \A other \in snaps[Repo(j)] : SameGroup(sn, other) => ~(other.time > sn.time)
        BY <1>5, <2>1
  <2>3. sn \notin Forgotten(snaps[Repo(j)], Keep[Owner(j)])
        BY <1>4, <2>2, NewestNotForgotten
  <2> QED BY <1>2, <1>3, <2>1, <2>3 DEF SavedBy
<1> QED BY <1>1, <1>6 DEF Saved

(* A backup's own step keeps what it saved.                                *)
LEMMA SavedStep ==
    ASSUME IInv, NEW j \in Backups, Step(j)
    PROVE  Saved(j)'
<1> USE DEF data, repo, choice, result, GoTo, Saving
<1>0. TypeOK /\ Turns(j) /\ j \in Jobs /\ j \notin Restores
      BY Kinds DEF IInv
<1>1. CASE Select(j) \/ Acquire(j)
  <2>1. phase'[j] \in {"new", "repo", "confirm", "preflight", "create", "source", "safety", "restore"}
        BY <1>0, <1>1 DEF TypeOK, Select, SelectBackup, SelectOne, SelectVolumes, Acquire, AcquireRepo,
           AcquireSource
  <2> QED BY <2>1 DEF Saved
<1>2. CASE CreateWorker(j)
  <2>1. left'[j] = sel'[j]
        BY <1>0, <1>2 DEF CreateWorker, TypeOK
  <2> QED BY <2>1 DEF Saved
<1>3. CASE Preflight(j) \/ Ask(j) \/ Loop(j) \/ SafetyBackup(j) \/ Restore(j) \/ Sync(j)
      BY <1>0, <1>3 DEF Turns, Preflight, Resolve, ResolveFails, Resolved, Ask, Confirm, Refuse, Loop, Begin,
         EndRestore, SafetyBackup, Restore, Sync
<1>4. CASE Gives(j) \/ Partial(j) \/ Prune(j)
  <2>1. phase'[j] \in {"failed", "done"}
        BY <1>0, <1>4 DEF TypeOK, Gives, DuplicateMount, SnapshotGone, CommandFails, Partial, PartialBackup,
           Fails, Prune
  <2> QED BY <2>1 DEF Saved
<1> QED BY <1>1, <1>2, <1>3, <1>4, SavedBackUp, SavedForget, Steps DEF Quiet, Takes

-------------------------------------------------------------------------------
(* A restore's own step keeps the saved copy of what it will overwrite.    *)
LEMMA SafeStep ==
    ASSUME IInv, NEW j \in Restores, Step(j)
    PROVE  Safe(j)'
<1> USE DEF data, repo, choice, result, GoTo
<1>0. TypeOK /\ Turns(j) /\ j \in Jobs
      BY Kinds DEF IInv
<1>1. CASE SafetyBackup(j)
  <2> DEFINE new == Filed(taken + 1, j, Owner(j), now[j], content[Vol(now[j])], TRUE)
  <2>1. phase[j] \in Working /\ UNCHANGED <<content, now>> /\ Files(j, now[j], TRUE)
        BY <1>1 DEF SafetyBackup, Working, Files
  <2>2. now[j] \in Cands /\ <<Owner(j), now[j][2]>> = now[j]
        BY <1>0, <2>1, AtWork, CandFacts DEF Owner
  <2>3. new \in snaps'[Repo(j)]
        BY <1>0, <2>1, <2>2, FilesAdds
  <2>4. /\ new.complete /\ new.volume = Vol(now[j]) /\ new.version = content[Vol(now[j])]
        /\ new.container = Owner(j) /\ new.source = now[j][2]
        BY DEF Filed
  <2> HIDE DEF new
  <2>5. new \in Matches(now[j])'
        BY <2>1, <2>2, <2>3, <2>4 DEF Matches, Repo
  <2> QED BY <2>1, <2>4, <2>5 DEF Safe
<1>2. CASE AcquireSource(j)
      BY <1>0, <1>2 DEF TypeOK, AcquireSource, Safe
<1>3. CASE Quiet(j) \/ Gives(j) \/ Partial(j) \/ AcquireRepo(j) \/ (\E x \in Cands : BackUp(j, x))
           \/ Forget(j) \/ Prune(j) \/ Restore(j) \/ Sync(j)
  <2>1. phase'[j] # "restore"
    <3>1. CASE Quiet(j)
          BY <1>0, <3>1 DEF TypeOK, Turns, Quiet, Select, SelectBackup, SelectOne, SelectVolumes, Preflight, Resolve,
             ResolveFails, Resolved, Ask, Confirm, Refuse, Loop, Begin, EndRestore, CreateWorker
    <3>2. CASE Gives(j) \/ Partial(j)
          BY <1>0, <3>2 DEF TypeOK, Gives, DuplicateMount, SnapshotGone, CommandFails, Partial, PartialBackup, Fails
    <3>3. CASE AcquireRepo(j) \/ (\E x \in Cands : BackUp(j, x)) \/ Forget(j) \/ Prune(j) \/ Restore(j) \/ Sync(j)
          BY <1>0, <3>3 DEF TypeOK, AcquireRepo, BackUp, Forget, Prune, Restore, Sync
    <3> QED BY <1>3, <3>1, <3>2, <3>3
  <2> QED BY <2>1 DEF Safe
<1> QED BY <1>1, <1>2, <1>3, Steps DEF Takes, Acquire

-------------------------------------------------------------------------------
(* A job's step keeps what the invariant says of the others.               *)
LEMMA OthersStep ==
    ASSUME IInv, NEW j \in Jobs, Step(j), NEW i \in Jobs, i # j
    PROVE  /\ Turns(i)' /\ Held(i)'
           /\ i \in Backups => Alike(i)' /\ Saved(i)'
           /\ i \in Restores => Accounts(i)' /\ Plans(i)' /\ Safe(i)'
<1>0. /\ TypeOK /\ Turns(i) /\ Held(i)
      /\ i \in Backups => Alike(i) /\ Saved(i)
      /\ i \in Restores => Accounts(i) /\ Plans(i) /\ Safe(i)
      BY DEF IInv
<1>1. /\ phase'[i] = phase[i] /\ sel'[i] = sel[i] /\ left'[i] = left[i] /\ now'[i] = now[i]
      /\ plan'[i] = plan[i] /\ stage'[i] = stage[i] /\ good'[i] = good[i] /\ bad'[i] = bad[i]
      /\ \A k \in LockKeys : lock[k] = i => lock'[k] = i
      BY <1>0, Others
<1>2. Owner(i)' = Owner(i) /\ Repo(i)' = Repo(i)
      BY <1>1 DEF Owner, Repo
<1>3. phase[i] \in InRepo => snaps'[Repo(i)] = snaps[Repo(i)]
      BY RepoOfAnother
<1>4. Turns(i)'
      BY <1>0, <1>1 DEF Turns
<1>5. Held(i)'
  <2>1. phase[i] \in InRepo => <<"repo", Repo(i)>> \in LockKeys
        BY <1>0, AtWork DEF InRepo
  <2>2. phase[i] \in AtVolume => <<"source", Vol(now[i])>> \in LockKeys
        BY <1>0, AtWork DEF AtVolume, Working
  <2> QED BY <1>0, <1>1, <1>2, <2>1, <2>2 DEF Held
<1>6. ASSUME i \in Backups PROVE Alike(i)' /\ Saved(i)'
  <2>1. Alike(i)'
        BY <1>0, <1>1, <1>2, <1>6 DEF Alike
  <2>2. ASSUME phase[i] \in Saving, NEW x \in sel[i] \ left[i] PROVE SavedBy(i, x)'
    <3>1. SavedBy(i, x) /\ snaps'[Repo(i)] = snaps[Repo(i)]
          BY <1>0, <1>3, <1>6, <2>2 DEF Saved, Saving, InRepo, Working
    <3> QED BY <1>2, <3>1 DEF SavedBy
  <2> QED BY <1>1, <2>1, <2>2 DEF Saved
<1>7. ASSUME i \in Restores PROVE Accounts(i)' /\ Plans(i)'
      BY <1>0, <1>1, <1>7 DEF Accounts, Plans, Planned
<1>8. ASSUME i \in Restores PROVE Safe(i)'
  <2> SUFFICES ASSUME phase[i] = "restore", i \notin SkipSafety
               PROVE  \E sn \in Matches(now[i])' :
                          sn.complete /\ sn.volume = Vol(now[i]) /\ sn.version = content'[Vol(now[i])]
      BY <1>1 DEF Safe
  <2>1. PICK sn \in Matches(now[i]) : sn.complete /\ sn.volume = Vol(now[i]) /\ sn.version = content[Vol(now[i])]
        BY <1>0, <1>8 DEF Safe
  <2>2. phase[i] \in InRepo /\ phase[i] \in AtVolume /\ phase[i] \in Working
        BY DEF InRepo, AtVolume, Working
  <2>3. content'[Vol(now[i])] = content[Vol(now[i])]
    <3>1. phase[j] \in {"restore", "sync"} => Vol(now[i]) # Vol(now[j])
          BY <2>2, Exclusive DEF AtVolume
    <3>2. Vol(now[i]) \in Volumes
          BY <1>0, <2>2, AtWork
    <3> QED BY <1>0, <3>1, <3>2, Contents
  <2>4. sn \in Matches(now[i])'
        BY <1>1, <1>3, <2>1, <2>2 DEF Matches, Repo
  <2> QED BY <2>1, <2>3, <2>4
<1> QED BY <1>4, <1>5, <1>6, <1>7, <1>8

(* So does an application's write.                                         *)
LEMMA WriteStep ==
    ASSUME IInv, NEW v \in Volumes, Write(v)
    PROVE  IInv'
<1> USE DEF repo, choice, result
<1>0. /\ UNCHANGED <<snaps, taken, lock, phase, sel, left, now, plan, stage, good, bad>>
      /\ content' = [content EXCEPT ![v] = written + 1]
      /\ \A j \in Restores : Overwriting(j) => Vol(now[j]) # v
      BY DEF Write
<1>1. TypeOK'
      BY TypeOKWrite DEF IInv
<1>2. \A a \in Apps : FiledRight(a)'
      BY <1>0 DEF IInv, FiledRight
<1>3. \A j \in Jobs : Turns(j)' /\ Held(j)'
      BY <1>0 DEF IInv, Turns, Held, Repo
<1>4. \A j \in Backups : Alike(j)' /\ Saved(j)'
      BY <1>0 DEF IInv, Alike, Saved, SavedBy, Owner, Repo
<1>5. \A j \in Restores : Accounts(j)' /\ Plans(j)'
      BY <1>0 DEF IInv, Accounts, Plans, Planned
<1>6. ASSUME NEW j \in Restores PROVE Safe(j)'
  <2> SUFFICES ASSUME phase[j] = "restore", j \notin SkipSafety
               PROVE  \E sn \in Matches(now[j])' :
                          sn.complete /\ sn.volume = Vol(now[j]) /\ sn.version = content'[Vol(now[j])]
      BY <1>0 DEF Safe
  <2>1. PICK sn \in Matches(now[j]) : sn.complete /\ sn.volume = Vol(now[j]) /\ sn.version = content[Vol(now[j])]
        BY DEF IInv, Safe
  <2>2. content'[Vol(now[j])] = content[Vol(now[j])]
    <3>1. Vol(now[j]) # v
          BY <1>0 DEF Overwriting
    <3>2. Vol(now[j]) \in Volumes
          BY AtWork, Kinds DEF IInv, Working
    <3> QED BY <1>0, <3>1, <3>2 DEF IInv, TypeOK
  <2>3. sn \in Matches(now[j])'
        BY <1>0, <2>1 DEF Matches
  <2> QED BY <2>1, <2>2, <2>3
<1> QED BY <1>1, <1>2, <1>3, <1>4, <1>5, <1>6 DEF IInv

(* The inductive invariant holds at first.                                 *)
LEMMA IInvInit == Init => IInv
<1> SUFFICES ASSUME Init PROVE IInv
    OBVIOUS
<1>1. TypeOK
      BY TypeOKInit
<1>2. ASSUME NEW a \in Apps PROVE FiledRight(a)
  <2>1. PICK S \in SUBSET Cands :
            snaps = [b \in Apps |-> {Filed(0, Nobody, x[1], x, 0, TRUE) : x \in {y \in S : App(y) = b}}]
        BY DEF Init
  <2>2. ASSUME NEW x \in Cands
        PROVE  /\ Filed(0, Nobody, x[1], x, 0, TRUE).time = 0
               /\ Filed(0, Nobody, x[1], x, 0, TRUE).volume = Vol(x)
               /\ <<Filed(0, Nobody, x[1], x, 0, TRUE).container, Filed(0, Nobody, x[1], x, 0, TRUE).source>> = x
        BY CandFacts DEF Filed
  <2>3. taken = 0
        BY DEF Init
  <2>4. \A sn \in snaps[a] : \E x \in Cands : sn = Filed(0, Nobody, x[1], x, 0, TRUE)
        BY <2>1
  <2>5. ASSUME NEW sn \in snaps[a]
        PROVE  sn.time = 0 /\ \E x \in Cands : sn.volume = Vol(x) /\ <<sn.container, sn.source>> = x
        BY <2>2, <2>4
  <2> QED BY <2>3, <2>5 DEF FiledRight
<1>3. \A j \in Jobs : phase[j] = "new" /\ sel[j] = {} /\ left[j] = {} /\ good[j] = {} /\ bad[j] = {}
      BY DEF Init
<1>4. \A j \in Jobs : Turns(j) /\ Held(j)
      BY <1>3 DEF Turns, Held, Working, InRepo, AtVolume, Saving
<1>5. \A j \in Backups : Alike(j) /\ Saved(j)
      BY <1>3, Kinds DEF Alike, Saved, Working, Saving
<1>6. \A j \in Restores : Accounts(j) /\ Plans(j) /\ Safe(j)
      BY <1>3, Kinds DEF Accounts, Plans, Safe, Working
<1> QED BY <1>1, <1>2, <1>4, <1>5, <1>6 DEF IInv

(* And it is kept.                                                         *)
LEMMA IInvStep == IInv /\ [Next]_vars => IInv'
<1> SUFFICES ASSUME IInv, [Next]_vars PROVE IInv'
    OBVIOUS
<1>1. ASSUME NEW j \in Jobs, Step(j) PROVE IInv'
  <2>1. TypeOK' /\ \A a \in Apps : FiledRight(a)'
        BY <1>1, TypeOKStep, FiledRightStep
  <2>2. /\ Turns(j)' /\ Held(j)'
        /\ j \in Backups => Alike(j)' /\ Saved(j)'
        /\ j \in Restores => Accounts(j)' /\ Plans(j)' /\ Safe(j)'
        BY <1>1, TurnsStep, HeldStep, AlikeStep, SavedStep, AccountsStep, PlansStep, SafeStep
  <2>3. \A i \in Jobs : i # j =>
            /\ Turns(i)' /\ Held(i)'
            /\ i \in Backups => Alike(i)' /\ Saved(i)'
            /\ i \in Restores => Accounts(i)' /\ Plans(i)' /\ Safe(i)'
        BY <1>1, OthersStep
  <2> QED BY <2>1, <2>2, <2>3, Kinds DEF IInv
<1>2. ASSUME NEW v \in Volumes, Write(v) PROVE IInv'
      BY <1>2, WriteStep
<1>3. CASE UNCHANGED vars
  <2>1. TypeOK'
        BY <1>3 DEF vars, IInv, TypeOK
  <2>2. \A a \in Apps : FiledRight(a)'
        BY <1>3 DEF vars, IInv, FiledRight
  <2>3. \A j \in Jobs : Turns(j)' /\ Held(j)'
        BY <1>3 DEF vars, IInv, Turns, Held, Repo
  <2>4. \A j \in Backups : Alike(j)' /\ Saved(j)'
        BY <1>3 DEF vars, IInv, Alike, Saved, SavedBy, Owner, Repo
  <2>5. \A j \in Restores : Accounts(j)' /\ Plans(j)' /\ Safe(j)'
        BY <1>3 DEF vars, IInv, Accounts, Plans, Planned, Safe, Matches
  <2> QED BY <2>1, <2>2, <2>3, <2>4, <2>5 DEF IInv
<1> QED BY <1>1, <1>2, <1>3 DEF Next, Step

(* The inductive invariant: how the phases relate a job's selection, its   *)
(* locks, its plan, the snapshots and the volumes.                         *)
THEOREM Invariant == Spec => []IInv
BY IInvInit, IInvStep, PTL DEF Spec

(* The variables keep their types, whatever the jobs do.                   *)
THEOREM TypeCorrect == Spec => []TypeOK
<1>1. IInv => TypeOK
      BY DEF IInv
<1> QED BY <1>1, Invariant, PTL

(* A restore that succeeds restored all it selected, and one of all        *)
(* volumes that fails after the confirmation reports each of them as       *)
(* restored or as failed (app.go:401-443).                                 *)
THEOREM Accounted == Spec => []AccountsForAll
<1>1. IInv => AccountsForAll
      BY DEF IInv, Accounts, AccountsForAll
<1> QED BY <1>1, Invariant, PTL

-------------------------------------------------------------------------------
(* Any step is a job's, a write or none.                                   *)
LEMMA NextSteps ==
    [Next]_vars => (\E j \in Jobs : Step(j)) \/ (\E v \in Volumes : Write(v)) \/ UNCHANGED vars
BY DEF Next, Step

(* Only Sync adds to what a restore restored.                              *)
LEMMA GoodSteps ==
    ASSUME TypeOK, NEW j \in Jobs, Step(j), ~Sync(j)
    PROVE  good'[j] = good[j]
<1> USE DEF data, repo, choice, result
<1>1. CASE Quiet(j)
      BY <1>1 DEF Quiet, Select, SelectBackup, SelectOne, SelectVolumes, Preflight, Resolve, ResolveFails,
         Resolved, Ask, Confirm, Refuse, Loop, Begin, EndRestore, CreateWorker
<1>2. CASE Gives(j) \/ Partial(j) \/ Takes(j) \/ Acquire(j)
      BY <1>2 DEF Gives, DuplicateMount, SnapshotGone, CommandFails, Partial, PartialBackup, Takes,
         SafetyBackup, BackUp, Acquire, AcquireRepo, AcquireSource
<1>3. CASE Forget(j) \/ Prune(j) \/ Restore(j)
      BY <1>3 DEF Forget, Prune, Restore
<1> QED BY <1>1, <1>2, <1>3, Steps

(* A volume that a restore reports as restored holds the version of the    *)
(* snapshot that was resolved for it before the locks were taken, and that *)
(* snapshot was taken of the same volume (app.go:371, command.go:62).      *)
THEOREM Planning == Spec => RestoresItsPlan
<1>1. ASSUME IInv, [Next]_vars, NEW j \in Restores, NEW x \in good'[j] \ good[j]
      PROVE  content'[Vol(x)] = plan[j][x].version /\ plan[j][x].volume = Vol(x)
  <2>0. TypeOK /\ Turns(j) /\ Plans(j) /\ j \in Jobs
        BY <1>1, Kinds DEF IInv
  <2>1. CASE Sync(j)
    <3>1. /\ phase[j] = "sync" /\ good'[j] = good[j] \cup {now[j]}
          /\ content' = [content EXCEPT ![Vol(now[j])] = stage[j].version]
          BY <2>0, <2>1 DEF Sync, GoTo, TypeOK
    <3>2. phase[j] \in Working
          BY <3>1 DEF Working
    <3>3. x = now[j] /\ Vol(x) \in Volumes
          BY <1>1, <2>0, <3>1, <3>2, AtWork
    <3>4. content'[Vol(x)] = stage[j].version
          BY <2>0, <3>1, <3>3 DEF TypeOK
    <3> QED BY <2>0, <3>1, <3>2, <3>3, <3>4 DEF Plans, Planned
  <2>2. CASE ~Sync(j)
    <3>1. good'[j] = good[j]
      <4>1. ASSUME NEW i \in Jobs, Step(i) PROVE good'[j] = good[j]
            BY <2>0, <2>2, <4>1, Others, GoodSteps
      <4>2. ASSUME NEW v \in Volumes, Write(v) PROVE good'[j] = good[j]
            BY <4>2 DEF Write, result
      <4> QED BY <1>1, <4>1, <4>2, NextSteps DEF vars
    <3> QED BY <1>1, <3>1
  <2> QED BY <2>1, <2>2
<1>2. IInv /\ [Next]_vars =>
          [\A j \in Restores : \A x \in good'[j] \ good[j] :
              /\ content'[Vol(x)] = plan[j][x].version
              /\ plan[j][x].volume = Vol(x)]_vars
      BY <1>1
<1> QED BY <1>2, Invariant, PTL DEF Spec, RestoresItsPlan

(* A restore begins to overwrite a volume only with the snapshot at hand   *)
(* and, unless the user waived it, what the volume holds saved under its   *)
(* name: no other job took either away since (app.go:556).                 *)
THEOREM SafeOverwriting == Spec => OverwritesWhatIsSaved
<1>1. ASSUME IInv, [Next]_vars, NEW j \in Restores, phase[j] = "restore", phase'[j] = "sync"
      PROVE  plan[j][now[j]] \in snaps[Repo(j)]
  <2>0. TypeOK /\ j \in Jobs
        BY <1>1, Kinds DEF IInv
  <2>1. ~UNCHANGED vars /\ \A v \in Volumes : ~Write(v)
        BY <1>1 DEF vars, Write
  <2>2. \A i \in Jobs : i # j => ~Step(i)
        BY <1>1, <2>0, Others
  <2>3. Step(j)
        BY <1>1, <2>1, <2>2, NextSteps
  <2> USE <1>1, <2>0 DEF GoTo
  <2>4. ~Quiet(j)
        BY DEF Quiet, Select, SelectBackup, SelectOne, SelectVolumes, Preflight, Resolve, ResolveFails,
           Resolved, Ask, Confirm, Refuse, Loop, Begin, EndRestore, CreateWorker
  <2>5. ~Gives(j) /\ ~Partial(j)
        BY DEF TypeOK, Gives, DuplicateMount, SnapshotGone, CommandFails, Partial, PartialBackup, Fails
  <2>6. ~Takes(j) /\ ~Acquire(j) /\ ~Forget(j) /\ ~Prune(j) /\ ~Sync(j)
        BY DEF Takes, SafetyBackup, BackUp, Acquire, AcquireRepo, AcquireSource, Forget, Prune, Sync
  <2>7. Restore(j)
        BY <2>3, <2>4, <2>5, <2>6, Steps
  <2> QED BY <2>7 DEF Restore
<1>2. ASSUME IInv, NEW j \in Restores, phase[j] = "restore", j \notin SkipSafety
      PROVE  \E sn \in Matches(now[j]) :
                 sn.complete /\ sn.volume = Vol(now[j]) /\ sn.version = content[Vol(now[j])]
      BY <1>2 DEF IInv, Safe
<1>3. IInv /\ [Next]_vars =>
          [\A j \in Restores : phase[j] = "restore" /\ phase'[j] = "sync" =>
              /\ plan[j][now[j]] \in snaps[Repo(j)]
              /\ j \notin SkipSafety =>
                    \E sn \in Matches(now[j]) :
                        /\ sn.complete
                        /\ sn.volume = Vol(now[j])
                        /\ sn.version = content[Vol(now[j])]]_vars
      BY <1>1, <1>2
<1> QED BY <1>3, Invariant, PTL DEF Spec, OverwritesWhatIsSaved

(* A backup's own step to its end is Prune.                                *)
LEMMA BackupEnds ==
    ASSUME IInv, [Next]_vars, NEW j \in Backups, Ends(j)
    PROVE  Prune(j)
<1>0. TypeOK /\ Turns(j) /\ j \in Jobs /\ j \notin Restores /\ phase[j] # "done" /\ phase'[j] = "done"
      BY Kinds DEF IInv, Ends
<1>1. ~UNCHANGED vars /\ \A v \in Volumes : ~Write(v)
      BY <1>0 DEF vars, Write
<1>2. \A i \in Jobs : i # j => ~Step(i)
      BY <1>0, Others
<1>3. Step(j)
      BY <1>1, <1>2, NextSteps
<1> USE <1>0 DEF GoTo
<1>4. ~Quiet(j)
      BY DEF TypeOK, Turns, Saving, Quiet, Select, SelectBackup, SelectOne, SelectVolumes, Preflight, Resolve,
         ResolveFails, Resolved, Ask, Confirm, Refuse, Loop, Begin, EndRestore, CreateWorker
<1>5. ~Gives(j) /\ ~Partial(j)
      BY DEF TypeOK, Gives, DuplicateMount, SnapshotGone, CommandFails, Partial, PartialBackup, Fails
<1>6. ~Takes(j) /\ ~Acquire(j) /\ ~Forget(j) /\ ~Restore(j) /\ ~Sync(j)
      BY DEF TypeOK, Takes, SafetyBackup, BackUp, Acquire, AcquireRepo, AcquireSource, Forget, Restore, Sync
<1> QED BY <1>3, <1>4, <1>5, <1>6, Steps

(* A backup that succeeds leaves a whole snapshot of its own of every      *)
(* source it selected: while it owns the repository's lock no forget,      *)
(* others' or its own, takes them away (daemon.go:222-232).                *)
THEOREM SavesAll == Spec => SavesEverySource
<1>1. ASSUME IInv, [Next]_vars, NEW j \in Backups, Ends(j), NEW x \in sel[j]
      PROVE  \E sn \in snaps'[Repo(j)] : sn.by = j /\ sn.complete /\ sn.volume = Vol(x) /\ sn.source = x[2]
  <2>1. Prune(j)
        BY <1>1, BackupEnds
  <2>2. phase[j] = "prune" /\ snaps' = snaps
        BY <2>1 DEF Prune, GoTo, repo
  <2>3. SavedBy(j, x)
        BY <1>1, <2>2 DEF IInv, Alike, Saved, Saving
  <2> QED BY <2>2, <2>3 DEF SavedBy
<1>2. IInv /\ [Next]_vars =>
          [\A j \in Backups : Ends(j) =>
              \A x \in sel[j] : \E sn \in snaps'[Repo(j)] :
                  sn.by = j /\ sn.complete /\ sn.volume = Vol(x) /\ sn.source = x[2]]_vars
      BY <1>1
<1> QED BY <1>2, Invariant, PTL DEF Spec, SavesEverySource

-------------------------------------------------------------------------------
(* What retention forgets has a newer snapshot in its group that it keeps. *)
LEMMA ForgottenHasNewer ==
    ASSUME NEW S \in SUBSET Snapshot, NEW t \in Nat, \A sn \in S : sn.time <= t,
           NEW n \in Nat, n > 0, NEW sn \in Forgotten(S, n)
    PROVE  \E other \in S \ Forgotten(S, n) : SameGroup(sn, other) /\ other.time > sn.time
<1> DEFINE G == {other \in S : SameGroup(sn, other) /\ other.time > sn.time}
<1>1. \A other \in S : other.time \in Nat
      BY DEF Snapshot
<1>2. sn \in S /\ G # {}
  <2>1. sn \in S /\ Cardinality(G) >= n
        BY DEF Forgotten
  <2>2. G = {} => Cardinality(G) = 0
        BY FS_EmptySet
  <2> QED BY <2>1, <2>2
<1>3. PICK other \in G : \A later \in G : later.time <= other.time
  <2>1. \A later \in G : later.time \in Nat /\ later.time <= t
        BY <1>1
  <2> HIDE DEF G
  <2> QED BY <1>2, <2>1, NewestExists
<1>4. \A later \in S : SameGroup(other, later) => ~(later.time > other.time)
  <2> SUFFICES ASSUME NEW later \in S, SameGroup(other, later), later.time > other.time PROVE FALSE
      OBVIOUS
  <2>1. later.time \in Nat /\ other.time \in Nat /\ sn.time \in Nat
        BY <1>1, <1>2, <1>3
  <2>2. SameGroup(sn, later)
        BY <1>3 DEF SameGroup
  <2>3. later \in G
        BY <1>3, <2>1, <2>2
  <2> QED BY <1>3, <2>1, <2>3
<1>5. other \notin Forgotten(S, n)
      BY <1>3, <1>4, NewestNotForgotten
<1> QED BY <1>3, <1>5

(* Retention never removes the newest snapshot filed under a container and *)
(* source, whichever job's retention it is (command.go:51).                *)
THEOREM Retention == Spec => NewestIsKept
<1>1. ASSUME IInv, [Next]_vars, NEW a \in Apps, NEW sn \in snaps[a] \ snaps'[a]
      PROVE  \E other \in snaps'[a] :
                 /\ other.time > sn.time
                 /\ <<other.container, other.source>> = <<sn.container, sn.source>>
  <2>0. TypeOK
        BY <1>1 DEF IInv
  <2>1. ~UNCHANGED vars /\ \A v \in Volumes : ~Write(v)
        BY <1>1 DEF vars, Write, repo
  <2>2. PICK j \in Jobs : Step(j)
        BY <1>1, <2>1, NextSteps
  <2>3. Turns(j) /\ (j \notin Backups => j \in Restores) /\ (j \in Backups => Alike(j)) /\ FiledRight(a)
        BY <1>1, Kinds DEF IInv
  <2>4. ASSUME phase[j] \in Working, NEW x \in Cands, NEW b \in BOOLEAN, Files(j, x, b) PROVE FALSE
    <3>1. snaps[a] \subseteq snaps'[a]
          BY <2>0, <2>3, <2>4, FilesAdds
    <3> QED BY <1>1, <3>1
  <2>5. ~(phase[j] = "safety" /\ \E b \in BOOLEAN : Files(j, now[j], b))
        BY <2>0, <2>3, <2>4, AtWork DEF Working
  <2>6. ~(phase[j] = "backup" /\ \E x \in left[j], b \in BOOLEAN : Files(j, x, b))
        BY <2>0, <2>4 DEF TypeOK, Working
  <2>7. /\ phase[j] = "forget"
        /\ snaps' = [snaps EXCEPT ![Repo(j)] = @ \ Forgotten(@, Keep[Owner(j)])]
        BY <1>1, <2>2, <2>5, <2>6, Snapshots
  <2>8. Owner(j) \in Containers /\ Repo(j) \in Apps
        BY <2>0, <2>3, <2>7, AtWork DEF Working
  <2>9. Keep[Owner(j)] \in Nat /\ Keep[Owner(j)] > 0
        BY <2>3, <2>7, <2>8, RepositoryAssumption DEF Turns, Saving, Alike
  <2>10. a = Repo(j) /\ snaps'[a] = snaps[a] \ Forgotten(snaps[a], Keep[Owner(j)])
        BY <1>1, <2>0, <2>7, <2>8 DEF TypeOK
  <2>11. snaps[a] \in SUBSET Snapshot /\ taken \in Nat /\ \A s \in snaps[a] : s.time <= taken
        BY <2>0, <2>3 DEF TypeOK, FiledRight
  <2>12. sn \in Forgotten(snaps[a], Keep[Owner(j)])
        BY <1>1, <2>10
  <2>13. PICK other \in snaps[a] \ Forgotten(snaps[a], Keep[Owner(j)]) :
             SameGroup(sn, other) /\ other.time > sn.time
        BY <2>9, <2>11, <2>12, ForgottenHasNewer
  <2> QED BY <2>10, <2>13 DEF SameGroup
<1>2. IInv /\ [Next]_vars =>
          [\A a \in Apps : \A sn \in snaps[a] \ snaps'[a] :
              \E other \in snaps'[a] :
                  /\ other.time > sn.time
                  /\ <<other.container, other.source>> = <<sn.container, sn.source>>]_vars
      BY <1>1
<1> QED BY <1>2, Invariant, PTL DEF Spec, NewestIsKept

-------------------------------------------------------------------------------
(* What retention counts: of each group, which is of one host, it keeps at *)
(* most n.  The snapshots of a group were taken at different times.        *)
Stamped(S) ==
    /\ IsFiniteSet(S)
    /\ \A sn, other \in S : SameGroup(sn, other) /\ sn.time = other.time => sn = other

AtMost(S, n, c, s) ==
    \A sn \in S : sn.container = c /\ sn.source = s =>
        Cardinality({other \in S : SameGroup(sn, other)}) <= n

(* Of what a backup with a retention has dealt with, no more is kept than  *)
(* that allows, until the next snapshot.                                   *)
Trimmed(j) ==
    phase[j] \in {"backup", "prune"} /\ Keep[Owner(j)] > 0 =>
        \A x \in sel[j] \ left[j] : AtMost(snaps[Repo(j)], Keep[Owner(j)], Owner(j), x[2])

(* After a backup with keep-last=n there are at most n snapshots of each   *)
(* source it backed up from each host that restic saw (command.go:51).     *)
KeepsNOfEachHost ==
    [][\A j \in Backups : Ends(j) /\ Keep[Owner(j)] > 0 =>
          \A x \in sel[j] : AtMost(snaps'[Repo(j)], Keep[Owner(j)], Owner(j), x[2])]_vars

(* No more than n of a group have fewer than n later ones.                 *)
LEMMA KeepsN ==
    ASSUME NEW S \in SUBSET Snapshot, Stamped(S), NEW n \in Nat, NEW one
    PROVE  Cardinality({sn \in S \ Forgotten(S, n) : SameGroup(one, sn)}) <= n
<1> DEFINE K == {sn \in S \ Forgotten(S, n) : SameGroup(one, sn)}
           Later(sn) == {other \in S : SameGroup(sn, other) /\ other.time > sn.time}
           rank == [sn \in K |-> Cardinality(Later(sn))]
<1>1. ASSUME NEW sn \in S PROVE IsFiniteSet(Later(sn)) /\ Cardinality(Later(sn)) \in Nat
  <2>1. Later(sn) \subseteq S /\ IsFiniteSet(S)
        BY DEF Stamped
  <2> HIDE DEF Later
  <2> QED BY <2>1, FS_Subset, FS_CardinalityType
<1>2. ASSUME NEW sn \in K PROVE rank[sn] \in 0 .. n - 1
  <2>1. sn \in S /\ ~(Cardinality(Later(sn)) >= n)
        BY DEF Forgotten
  <2>2. rank[sn] = Cardinality(Later(sn))
        OBVIOUS
  <2> HIDE DEF Later, rank, K
  <2> QED BY <1>1, <2>1, <2>2
<1>3. ASSUME NEW sn \in K, NEW other \in K, sn.time < other.time PROVE rank[sn] # rank[other]
  <2>1. /\ sn \in S /\ other \in S /\ SameGroup(sn, other) /\ sn.time \in Nat /\ other.time \in Nat
        /\ \A x \in S : x.time \in Nat /\ (SameGroup(other, x) => SameGroup(sn, x))
        BY DEF SameGroup, Snapshot
  <2>2. Later(other) \subseteq Later(sn) /\ other \in Later(sn) /\ other \notin Later(other)
        BY <1>3, <2>1
  <2>3. Later(other) # Later(sn)
        BY <2>2
  <2>4. rank[sn] = Cardinality(Later(sn)) /\ rank[other] = Cardinality(Later(other))
        OBVIOUS
  <2> HIDE DEF Later, rank, K
  <2> QED BY <1>1, <2>1, <2>2, <2>3, <2>4, FS_Subset
<1>4. ASSUME NEW sn \in K, NEW other \in K, rank[sn] = rank[other] PROVE sn = other
  <2>1. sn \in S /\ other \in S /\ SameGroup(sn, other) /\ sn.time \in Nat /\ other.time \in Nat
        BY DEF SameGroup, Snapshot
  <2> HIDE DEF rank, K
  <2>2. sn.time = other.time
        BY <1>3, <1>4, <2>1
  <2> QED BY <2>1, <2>2 DEF Stamped
<1>5. rank \in Injection(K, 0 .. n - 1)
  <2>1. rank \in [K -> 0 .. n - 1]
        BY <1>2
  <2> HIDE DEF rank, K
  <2> QED BY <1>4, <2>1, Fun_IsInj
<1>6. IsFiniteSet(0 .. n - 1) /\ Cardinality(0 .. n - 1) = n
      BY FS_Interval
<1> HIDE DEF rank, K
<1>7. Cardinality(K) <= n
      BY <1>5, <1>6, FS_Injection
<1> QED BY <1>7 DEF K

(* A repository is stamped when it is set up and stays so: a new snapshot  *)
(* is later than all there are.                                            *)
LEMMA StampedInit == Init => \A a \in Apps : Stamped(snaps[a])
<1> SUFFICES ASSUME Init, NEW a \in Apps PROVE Stamped(snaps[a])
    OBVIOUS
<1>1. PICK S \in SUBSET Cands :
          snaps = [b \in Apps |-> {Filed(0, Nobody, x[1], x, 0, TRUE) : x \in {y \in S : App(y) = b}}]
      BY DEF Init
<1> DEFINE X == {y \in S : App(y) = a}
           first(x) == Filed(0, Nobody, x[1], x, 0, TRUE)
           f == [x \in X |-> first(x)]
<1>2. snaps[a] = {first(x) : x \in X}
      BY <1>1
<1>3. f \in Surjection(X, {first(x) : x \in X})
      BY Fun_IsSurj
<1>4. IsFiniteSet(X) /\ X \subseteq Cands
  <2>1. X \subseteq Cands
        OBVIOUS
  <2> HIDE DEF X
  <2> QED BY <2>1, CandsFinite, FS_Subset
<1>5. IsFiniteSet(snaps[a])
  <2> HIDE DEF f, X
  <2> QED BY <1>2, <1>3, <1>4, FS_Surjection
<1>6. ASSUME NEW x \in X, NEW y \in X, SameGroup(first(x), first(y)) PROVE x = y
  <2>1. x[1] = y[1] /\ x[2] = y[2]
        BY <1>6 DEF SameGroup, Filed
  <2> QED BY <1>4, <2>1, CandFacts
<1> QED BY <1>2, <1>5, <1>6 DEF Stamped

(* A job's step keeps the repositories stamped.                            *)
LEMMA StampedStep ==
    ASSUME IInv, NEW j \in Jobs, Step(j), NEW a \in Apps, Stamped(snaps[a])
    PROVE  Stamped(snaps'[a])
<1>0. TypeOK /\ Turns(j) /\ FiledRight(a)
      BY DEF IInv
<1>1. \A sn \in snaps[a] : sn.time \in Nat /\ sn.time <= taken
  <2>1. snaps[a] \subseteq Snapshot
        BY <1>0 DEF TypeOK
  <2>2. \A sn \in Snapshot : sn.time \in Nat
        BY DEF Snapshot
  <2>3. \A sn \in snaps[a] : sn.time <= taken
        BY <1>0 DEF FiledRight
  <2> QED BY <2>1, <2>2, <2>3
<1>2. ASSUME NEW x \in Cands, NEW b \in BOOLEAN, Files(j, x, b), phase[j] \in Working
      PROVE  Stamped(snaps'[a])
  <2> DEFINE new == Filed(taken + 1, j, Owner(j), x, content[Vol(x)], b)
  <2>1. (snaps'[a] = snaps[a] \/ snaps'[a] = snaps[a] \cup {new}) /\ taken \in Nat
        BY <1>0, <1>2, FilesAdds
  <2>2. new.time = taken + 1
        BY DEF Filed
  <2> HIDE DEF new
  <2>3. \A sn \in snaps[a] : sn.time # new.time
        BY <1>1, <2>1, <2>2
  <2>4. IsFiniteSet(snaps[a] \cup {new})
        BY FS_AddElement DEF Stamped
  <2> QED BY <2>1, <2>3, <2>4 DEF Stamped
<1>3. CASE phase[j] = "safety" /\ \E b \in BOOLEAN : Files(j, now[j], b)
  <2>1. phase[j] \in Working
        BY <1>3 DEF Working
  <2> QED BY <1>0, <1>2, <1>3, <2>1, AtWork
<1>4. CASE phase[j] = "backup" /\ \E x \in left[j], b \in BOOLEAN : Files(j, x, b)
  <2>1. phase[j] \in Working /\ left[j] \subseteq Cands
        BY <1>0, <1>4 DEF Working, TypeOK
  <2> QED BY <1>2, <1>4, <2>1
<1>5. CASE snaps' = [snaps EXCEPT ![Repo(j)] = @ \ Forgotten(@, Keep[Owner(j)])]
  <2>1. snaps'[a] \subseteq snaps[a]
        BY <1>0, <1>5 DEF TypeOK
  <2>2. IsFiniteSet(snaps'[a])
        BY <2>1, FS_Subset DEF Stamped
  <2> QED BY <2>1, <2>2 DEF Stamped
<1> QED BY <1>3, <1>4, <1>5, Snapshots

(* A backup's own step keeps what it dealt with trimmed.                   *)
LEMMA TrimmedStep ==
    ASSUME IInv, NEW j \in Backups, Step(j), \A a \in Apps : Stamped(snaps[a]), Trimmed(j)
    PROVE  Trimmed(j)'
<1> USE DEF data, repo, choice, result, GoTo
<1>0. TypeOK /\ Turns(j) /\ Alike(j) /\ j \in Jobs /\ j \notin Restores
      BY Kinds DEF IInv
<1>1. CASE Select(j) \/ Acquire(j) \/ Gives(j) \/ Partial(j) \/ Prune(j)
  <2>1. phase'[j] \notin {"backup", "prune"}
    <3>1. CASE Select(j) \/ Acquire(j)
          BY <1>0, <3>1 DEF TypeOK, Select, SelectBackup, SelectOne, SelectVolumes, Acquire, AcquireRepo,
             AcquireSource
    <3>2. CASE Gives(j) \/ Partial(j) \/ Prune(j)
          BY <1>0, <3>2 DEF TypeOK, Gives, DuplicateMount, SnapshotGone, CommandFails, Partial, PartialBackup,
             Fails, Prune
    <3> QED BY <1>1, <3>1, <3>2
  <2> QED BY <2>1 DEF Trimmed
<1>2. CASE CreateWorker(j)
  <2>1. left'[j] = sel'[j]
        BY <1>0, <1>2 DEF CreateWorker, TypeOK
  <2> QED BY <2>1 DEF Trimmed
<1>3. CASE Preflight(j) \/ Ask(j) \/ Loop(j) \/ SafetyBackup(j) \/ Restore(j) \/ Sync(j)
      BY <1>0, <1>3 DEF Turns, Saving, Preflight, Resolve, ResolveFails, Resolved, Ask, Confirm, Refuse, Loop,
         Begin, EndRestore, SafetyBackup, Restore, Sync
<1>4. ASSUME NEW x \in Cands, BackUp(j, x) PROVE Trimmed(j)'
  <2>1. Owner(j)' = Owner(j) /\ (Keep[Owner(j)] > 0 => phase'[j] = "forget")
        BY <1>0, <1>4 DEF BackUp, TypeOK, Owner
  <2> QED BY <2>1 DEF Trimmed
<1>5. CASE Forget(j)
  <2>1. /\ phase[j] \in Working /\ UNCHANGED now
        /\ snaps' = [snaps EXCEPT ![Repo(j)] = @ \ Forgotten(@, Keep[Owner(j)])]
        BY <1>5 DEF Forget, Working
  <2>2. Repo(j) \in Apps /\ Keep[Owner(j)] \in Nat /\ Owner(j)' = Owner(j) /\ Repo(j)' = Repo(j)
        BY <1>0, <2>1, AtWork, RepositoryAssumption DEF Owner, Repo
  <2> DEFINE S == snaps[Repo(j)]
             n == Keep[Owner(j)]
  <2>3. snaps'[Repo(j)] = S \ Forgotten(S, n) /\ S \in SUBSET Snapshot /\ Stamped(S)
        BY <1>0, <2>1, <2>2 DEF TypeOK
  <2> HIDE DEF S, n
  <2>4. \A sn : Cardinality({other \in S \ Forgotten(S, n) : SameGroup(sn, other)}) <= n
        BY <2>2, <2>3, KeepsN DEF n
  <2>5. \A c, s : AtMost(snaps'[Repo(j)], n, c, s)
        BY <2>3, <2>4 DEF AtMost
  <2> QED BY <2>2, <2>5 DEF Trimmed, n
<1> QED BY <1>1, <1>2, <1>3, <1>4, <1>5, Steps DEF Quiet, Takes

(* Of each source, and each host that restic saw, a backup with            *)
(* keep-last=n leaves at most n snapshots, whatever the other jobs file.   *)
THEOREM RetentionPerHost == Spec => KeepsNOfEachHost
<1> DEFINE Inv == (\A a \in Apps : Stamped(snaps[a])) /\ \A j \in Backups : Trimmed(j)
<1>1. Init => Inv
  <2>1. Init => \A j \in Backups : Trimmed(j)
        BY Kinds DEF Init, Trimmed
  <2> QED BY <2>1, StampedInit
<1>2. ASSUME IInv, Inv, [Next]_vars PROVE Inv'
  <2>1. ASSUME NEW i \in Jobs, Step(i) PROVE Inv'
    <3>1. \A a \in Apps : Stamped(snaps'[a])
          BY <1>2, <2>1, StampedStep
    <3>2. ASSUME NEW j \in Backups PROVE Trimmed(j)'
      <4>1. CASE i = j
            BY <1>2, <2>1, <3>2, <4>1, TrimmedStep
      <4>2. CASE i # j
        <5>1. TypeOK /\ j \in Jobs
              BY <1>2, Kinds DEF IInv
        <5>2. phase'[j] = phase[j] /\ sel'[j] = sel[j] /\ left'[j] = left[j] /\ now'[j] = now[j]
              BY <2>1, <4>2, <5>1, Others
        <5>3. Owner(j)' = Owner(j) /\ Repo(j)' = Repo(j)
              BY <5>2 DEF Owner, Repo
        <5>4. phase[j] \in {"backup", "prune"} => snaps'[Repo(j)] = snaps[Repo(j)]
              BY <1>2, <2>1, <4>2, <5>1, RepoOfAnother DEF InRepo, Working
        <5> QED BY <1>2, <5>2, <5>3, <5>4 DEF Trimmed
      <4> QED BY <4>1, <4>2
    <3> QED BY <3>1, <3>2
  <2>2. ASSUME UNCHANGED vars \/ \E v \in Volumes : Write(v) PROVE Inv'
    <3>1. UNCHANGED <<snaps, phase, sel, left, now>>
          BY <2>2 DEF vars, Write, repo, choice
    <3> QED BY <1>2, <3>1 DEF Trimmed, Owner, Repo
  <2> QED BY <1>2, <2>1, <2>2, NextSteps
<1>3. ASSUME IInv, Inv, [Next]_vars, NEW j \in Backups, Ends(j), Keep[Owner(j)] > 0, NEW x \in sel[j]
      PROVE  AtMost(snaps'[Repo(j)], Keep[Owner(j)], Owner(j), x[2])
  <2>1. phase[j] = "prune" /\ snaps' = snaps
        BY <1>3, BackupEnds DEF Prune, GoTo, repo
  <2>2. x \in sel[j] \ left[j]
        BY <1>3, <2>1 DEF IInv, Alike
  <2> QED BY <1>3, <2>1, <2>2 DEF Trimmed
<1>4. IInv /\ Inv /\ [Next]_vars =>
          [\A j \in Backups : Ends(j) /\ Keep[Owner(j)] > 0 =>
              \A x \in sel[j] : AtMost(snaps'[Repo(j)], Keep[Owner(j)], Owner(j), x[2])]_vars
      BY <1>3
<1> HIDE DEF Inv
<1> QED BY <1>1, <1>2, <1>4, Invariant, PTL DEF Spec, KeepsNOfEachHost

(* Where restic sees one host, that is what README.md:206 says of          *)
(* keep-last=n.                                                            *)
THEOREM RetentionOfOneHost ==
    ASSUME \A i, j \in Jobs \cup {Nobody} : HostOf[i] = HostOf[j]
    PROVE  Spec => KeepsLastN
<1>1. ASSUME IInv', NEW j \in Backups, NEW x,
             AtMost(snaps'[Repo(j)], Keep[Owner(j)], Owner(j), x[2]),
             Keep[Owner(j)] \in Nat, Repo(j) \in Apps
      PROVE  Cardinality({sn \in snaps'[Repo(j)] : <<sn.container, sn.source>> = <<Owner(j), x[2]>>})
                 <= Keep[Owner(j)]
  <2> DEFINE S == snaps'[Repo(j)]
             G == {sn \in S : <<sn.container, sn.source>> = <<Owner(j), x[2]>>}
  <2>1. \A sn \in S : sn.by \in Jobs \cup {Nobody}
        BY <1>1 DEF IInv, TypeOK, Snapshot
  <2>2. CASE G = {}
    <3>1. Cardinality(G) = 0
          BY <2>2, FS_EmptySet
    <3> HIDE DEF G
    <3>2. Cardinality(G) <= Keep[Owner(j)]
          BY <1>1, <3>1
    <3> QED BY <3>2 DEF G
  <2>3. ASSUME NEW sn \in G PROVE Cardinality(G) <= Keep[Owner(j)]
    <3>1. G = {other \in S : SameGroup(sn, other)}
          BY <2>1, <2>3 DEF SameGroup
    <3> QED BY <1>1, <2>3, <3>1 DEF AtMost
  <2> QED BY <2>2, <2>3
<1>2. ASSUME IInv, IInv', NEW j \in Backups, Ends(j), [Next]_vars
      PROVE  Keep[Owner(j)] \in Nat /\ Repo(j) \in Apps
  <2>1. phase[j] \in Working /\ TypeOK /\ Turns(j) /\ j \in Jobs
        BY <1>2, BackupEnds, Kinds DEF Prune, GoTo, Working, IInv
  <2> QED BY <2>1, AtWork, RepositoryAssumption
<1>3. IInv /\ IInv' /\ [Next]_vars /\
          [\A j \in Backups : Ends(j) /\ Keep[Owner(j)] > 0 =>
              \A x \in sel[j] : AtMost(snaps'[Repo(j)], Keep[Owner(j)], Owner(j), x[2])]_vars
      => [\A j \in Backups : Ends(j) /\ Keep[Owner(j)] > 0 =>
              \A x \in sel[j] :
                  Cardinality({sn \in snaps'[Repo(j)] : <<sn.container, sn.source>> = <<Owner(j), x[2]>>})
                      <= Keep[Owner(j)]]_vars
      BY <1>1, <1>2
<1> QED BY <1>3, RetentionPerHost, Invariant, PTL DEF Spec, KeepsNOfEachHost, KeepsLastN
===============================================================================
