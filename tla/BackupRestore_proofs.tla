-------------------------- MODULE BackupRestore_proofs --------------------------
(***************************************************************************)
(* BackupRestore for every set of jobs, containers, volumes, processes,    *)
(* repositories and backends, and everything the environment may do.       *)
(***************************************************************************)
EXTENDS BackupRestore, FiniteSetTheorems, TLAPS

-------------------------------------------------------------------------------
(* The keys of a job are lock keys, and those of different kinds differ.   *)
LEMMA KeyFacts ==
    ASSUME NEW j \in Jobs
    PROVE  /\ RepoKey(j) \in LockKeys /\ ContainerKey(j) \in LockKeys
           /\ j \in Restores => SourceKey(j) \in LockKeys
           /\ \A i \in Jobs : /\ RepoKey(i) # ContainerKey(j)
                              /\ RepoKey(i) # SourceKey(j)
                              /\ SourceKey(i) # ContainerKey(j)
<1>1. RepoKey(j) \in LockKeys /\ ContainerKey(j) \in LockKeys
      BY BackupRestoreAssumption DEF RepoKey, ContainerKey, LockKeys
<1>2. ASSUME j \in Restores PROVE SourceKey(j) \in LockKeys
  <2>1. \E v \in Volumes : SourcesOf[j] = {v}
        BY <1>2, BackupRestoreAssumption
  <2> DEFINE x == CHOOSE v \in Volumes : SourcesOf[j] = {v}
  <2>2. x \in Volumes /\ SourceKey(j) = <<"source", x>>
        BY <2>1 DEF SourceKey
  <2> HIDE DEF x
  <2> QED BY <2>2 DEF LockKeys
<1>3. \A i \in Jobs : /\ RepoKey(i) # ContainerKey(j)
                      /\ RepoKey(i) # SourceKey(j)
                      /\ SourceKey(i) # ContainerKey(j)
      BY DEF RepoKey, ContainerKey, SourceKey
<1> QED BY <1>1, <1>2, <1>3

(* A subset of slot holders that fit fits.                                 *)
LEMMA SameCardinality == ASSUME NEW S PROVE Slots!Cardinality(S) = Cardinality(S)
BY DEF Slots!Cardinality, Cardinality

(* Fewer holders fit where more did: every limit counts only the holders   *)
(* that are left.                                                          *)
LEMMA FitsSubset ==
    ASSUME NEW H \in SUBSET Jobs, Slots!Fits(H), NEW G \in SUBSET H
    PROVE  Slots!Fits(G)
<1> SUFFICES ASSUME NEW d \in G
             PROVE  Cardinality({c \in G : Limit[c] <= Limit[d]}) <= Limit[d]
    BY SameCardinality DEF Slots!Fits
<1> DEFINE A == {c \in G : Limit[c] <= Limit[d]}
           B == {c \in H : Limit[c] <= Limit[d]}
<1>1. Cardinality(B) <= Limit[d]
      BY SameCardinality DEF Slots!Fits
<1>2. IsFiniteSet(B) /\ A \subseteq B
  <2>1. B \subseteq Jobs /\ IsFiniteSet(Jobs)
        BY BackupRestoreAssumption
  <2> QED BY <2>1, FS_Subset
<1>3. Cardinality(A) <= Cardinality(B) /\ Cardinality(A) \in Nat /\ Cardinality(B) \in Nat
      BY <1>2, FS_Subset, FS_CardinalityType
<1>4. Limit[d] \in Nat
      BY BackupRestoreAssumption
<1> QED BY <1>1, <1>3, <1>4

-------------------------------------------------------------------------------
(* What GoTo, Fails and Blame write.                                       *)
LEMMA GoToCells ==
    ASSUME TypeOK, NEW j \in Jobs, NEW from, NEW to \in Phases, GoTo(j, from, to)
    PROVE  /\ phase[j] = from
           /\ phase' \in [Jobs -> Phases]
           /\ phase'[j] = to
           /\ \A i \in Jobs \ {j} : phase'[i] = phase[i]
BY DEF TypeOK, GoTo

(* What Blame does to each container.                                      *)
LEMMA BlameCells ==
    ASSUME TypeOK, NEW o \in Jobs \cup {Nobody}, NEW c \in Boxes, Blame(o, c)
    PROVE  /\ downBy' \in [Containers -> Jobs \cup {Nobody}]
           /\ \A d \in Containers : downBy'[d] = IF d = c THEN o ELSE downBy[d]
BY DEF TypeOK, Blame

(* The initial states are type correct.                                    *)
LEMMA TypeOKInit == Init => TypeOK
BY DEF Init, TypeOK, Phases, Boxes, Locks!Init, Slots!Init

(* Every action of a job, a process or a user keeps the types.             *)
LEMMA TypeOKStep == TypeOK /\ [Next]_vars => TypeOK'
<1> SUFFICES ASSUME TypeOK, [Next]_vars PROVE TypeOK'
    OBVIOUS
<1> USE BackupRestoreAssumption DEF TypeOK, Phases, Boxes, GoTo, Fails, held, docker, plan
<1>1. ASSUME NEW j \in Jobs, Discover(j) PROVE TypeOK'
  <2>1. CASE List(j)
        BY <2>1 DEF List
  <2>2. CASE Inspect(j)
        BY <2>2 DEF Inspect
  <2>3. CASE Confirm(j)
        BY <2>3 DEF Confirm
  <2> QED BY <1>1, <2>1, <2>2, <2>3 DEF Discover
<1>2. ASSUME NEW j \in Jobs, Acquire(j) PROVE TypeOK'
  <2>1. CASE AcquireRepo(j)
        BY <2>1 DEF AcquireRepo, Locks!Acquire
  <2>2. CASE AcquireSource(j)
        BY <2>2 DEF AcquireSource, Locks!Acquire
  <2>3. CASE AcquireSlot(j)
    <3>1. slots' \in [Backends -> SUBSET Jobs]
          BY <2>3 DEF AcquireSlot, Slots!Acquire
    <3>2. phase' \in [Jobs -> Phases] /\ UNCHANGED <<lock, docker, plan, err, signalled>>
          BY <2>3 DEF AcquireSlot
    <3> QED BY <3>1, <3>2
  <2>4. CASE AcquireContainer(j)
    <3>1. ContainerOf[j] \in Boxes
          OBVIOUS
    <3>2. todo' \in [Jobs -> SUBSET Boxes]
          BY <2>4, <3>1 DEF AcquireContainer
    <3>3. phase' \in [Jobs -> Phases] /\ lock' \in [LockKeys -> Jobs \cup {Nobody}]
          BY <2>4 DEF AcquireContainer, Locks!Acquire
    <3> QED BY <2>4, <3>2, <3>3 DEF AcquireContainer
  <2> QED BY <1>2, <2>1, <2>2, <2>3, <2>4 DEF Acquire
<1>3. ASSUME NEW j \in Jobs, GiveUp(j) PROVE TypeOK'
      BY <1>3 DEF GiveUp
<1>4. ASSUME NEW j \in Jobs, Quiesce(j) PROVE TypeOK'
  <2>1. CASE ListUsers(j)
        BY <2>1 DEF ListUsers, SourceUsers, Users
  <2>2. CASE ListFails(j)
        BY <2>2 DEF ListFails
  <2>3. ASSUME NEW c \in Boxes, Stop(j, c) PROVE TypeOK'
        BY <2>3 DEF Stop, Blame
  <2>4. ASSUME NEW c \in Boxes, StopFails(j, c) PROVE TypeOK'
    <3>1. phase' \in [Jobs -> Phases] /\ todo' \in [Jobs -> SUBSET Boxes] /\ err' \subseteq Jobs
          BY <2>4 DEF StopFails
    <3>2. up' \subseteq Boxes /\ lost' \in [Jobs -> SUBSET Containers]
          BY <2>4 DEF StopFails
    <3>3. downBy' \in [Containers -> Jobs \cup {Nobody}]
          BY <2>4, BlameCells DEF StopFails
    <3>4. UNCHANGED <<held, workers, seen, stopped, signalled>>
          BY <2>4 DEF StopFails
    <3> QED BY <3>1, <3>2, <3>3, <3>4
  <2> QED BY <1>4, <2>1, <2>2, <2>3, <2>4 DEF Quiesce
<1>5. ASSUME NEW j \in Jobs, Work(j) PROVE TypeOK'
  <2>1. CASE CreateWorker(j)
        BY <2>1 DEF CreateWorker
  <2>2. CASE CreateFails(j)
        BY <2>2 DEF CreateFails
  <2>3. CASE WorkSucceeds(j)
        BY <2>3 DEF WorkSucceeds
  <2>4. CASE WorkFails(j)
        BY <2>4 DEF WorkFails
  <2>5. CASE RemoveWorker(j)
        BY <2>5 DEF RemoveWorker
  <2> QED BY <1>5, <2>1, <2>2, <2>3, <2>4, <2>5 DEF Work
<1>6. ASSUME NEW j \in Jobs, Resume(j) PROVE TypeOK'
  <2>1. CASE Restarted(j)
        BY <2>1 DEF Restarted
  <2>2. ASSUME NEW c \in Boxes, Start(j, c) PROVE TypeOK'
        BY <2>2 DEF Start, Blame
  <2>3. ASSUME NEW c \in Boxes, StartFails(j, c) PROVE TypeOK'
        BY <2>3 DEF StartFails
  <2> QED BY <1>6, <2>1, <2>2, <2>3 DEF Resume
<1>7. ASSUME NEW j \in Jobs, Unwind(j) PROVE TypeOK'
  <2>1. phase' \in [Jobs -> Phases] /\ UNCHANGED <<docker, plan, err, signalled>>
        BY <1>7 DEF Unwind
  <2>2. lock' \in [LockKeys -> Jobs \cup {Nobody}]
        BY <1>7 DEF Unwind, Locks!Release
  <2>3. slots' \in [Backends -> SUBSET Jobs]
        BY <1>7 DEF Unwind, Slots!Release
  <2> QED BY <2>1, <2>2, <2>3
<1>8. ASSUME NEW p \in Procs, Signal(p) PROVE TypeOK'
      BY <1>8 DEF Signal
<1>9. ASSUME NEW p \in Procs, Die(p) PROVE TypeOK'
      BY <1>9 DEF Die, Begun, Locks!ReleaseAll, Slots!ReleaseAll
<1>10. ASSUME NEW c \in Containers, UserStop(c) PROVE TypeOK'
      BY <1>10 DEF UserStop
<1>11. ASSUME NEW c \in Containers, UserStart(c) PROVE TypeOK'
      BY <1>11 DEF UserStart, Blame
<1>12. CASE UNCHANGED vars
      BY <1>12 DEF vars
<1> QED BY <1>1, <1>2, <1>3, <1>4, <1>5, <1>6, <1>7, <1>8, <1>9, <1>10, <1>11, <1>12
        DEF Next, Crash, DaemonExits

(* Every variable keeps its type.                                          *)
THEOREM TypeCorrect == Spec => []TypeOK
<1> QED BY TypeOKInit, TypeOKStep, PTL DEF Spec

-------------------------------------------------------------------------------
(* LocksMatch is inductive.                                                *)
LEMMA LocksInit == Init => LocksMatch
<1> SUFFICES ASSUME Init PROVE LocksMatch
    OBVIOUS
<1>1. HoldsWhatItNeeds /\ HoldsNothingElse
      BY BackupRestoreAssumption
      DEF Init, HoldsWhatItNeeds, HoldsNothingElse, Locked, Locks!Init, Slots!Init
<1>2. SlotsFit
      BY DEF Init, SlotsFit, Slots!Init, Slots!Fits
<1> QED BY <1>1, <1>2 DEF LocksMatch

(* No step makes a backend's holders exceed a limit: only AcquireSlot adds *)
(* one, and it checks.                                                     *)
LEMMA SlotsFitStep == TypeOK /\ SlotsFit /\ [Next]_vars => SlotsFit'
<1> SUFFICES ASSUME TypeOK, SlotsFit, [Next]_vars, NEW b \in Backends
             PROVE  Slots!Fits(slots'[b])
    BY DEF SlotsFit, Slots!Fits
<1>1. CASE slots' = slots
      BY <1>1 DEF SlotsFit
<1>2. ASSUME NEW j \in Jobs, Slots!Acquire(j, BackendOf[j]) PROVE Slots!Fits(slots'[b])
      BY <1>2 DEF SlotsFit, Slots!Acquire, TypeOK
<1>3. ASSUME slots' \in [Backends -> SUBSET Jobs], slots'[b] \subseteq slots[b]
      PROVE  Slots!Fits(slots'[b])
      BY <1>3, FitsSubset DEF SlotsFit, TypeOK
<1>4. ASSUME NEW j \in Jobs, Slots!Release(j, BackendOf[j]) PROVE Slots!Fits(slots'[b])
      BY <1>3, <1>4 DEF Slots!Release, TypeOK
<1>5. ASSUME NEW C \in SUBSET Jobs, Slots!ReleaseAll(C) PROVE Slots!Fits(slots'[b])
      BY <1>3, <1>5 DEF Slots!ReleaseAll, TypeOK
<1>6. ASSUME NEW j \in Jobs, AcquireSlot(j) PROVE Slots!Fits(slots'[b])
      BY <1>1, <1>2, <1>6 DEF AcquireSlot
<1>7. ASSUME NEW j \in Jobs, Unwind(j) PROVE Slots!Fits(slots'[b])
      BY <1>1, <1>4, <1>7 DEF Unwind
<1>8. ASSUME NEW p \in Procs, Die(p) PROVE Slots!Fits(slots'[b])
      BY <1>5, <1>8 DEF Die, Begun
<1> QED BY <1>1, <1>6, <1>7, <1>8
        DEF Next, Discover, Acquire, Quiesce, Work, Resume, Crash, DaemonExits, vars, held,
            List, Inspect, Confirm, AcquireRepo, AcquireSource, AcquireContainer, GiveUp,
            ListUsers, ListFails, Stop, StopFails, CreateWorker, CreateFails, WorkSucceeds,
            WorkFails, RemoveWorker, Start, StartFails, Restarted, Signal, UserStop, UserStart

(* A step of job j that leaves the locks and the slots alone: j goes on    *)
(* with what it holds, or it needs nothing any more.                       *)
LEMMA SameHoldings ==
    ASSUME TypeOK, TypeOK', HoldsWhatItNeeds, HoldsNothingElse, UNCHANGED <<lock, slots>>,
           NEW j \in Jobs, \A i \in Jobs \ {j} : phase'[i] = phase[i] /\ (i \in seen' <=> i \in seen),
           \/ phase'[j] = phase[j] /\ seen' = seen
           \/ phase[j] \in {"new", "listed"} /\ phase'[j] \in {"listed", "repo"}
           \/ phase'[j] = "unwind" /\ Live(j)
           \/ phase[j] \in Locked /\ phase'[j] \in Locked /\ seen' = seen
    PROVE  HoldsWhatItNeeds' /\ HoldsNothingElse'
<1> USE BackupRestoreAssumption DEF TypeOK, Locked
<1>1. HoldsWhatItNeeds'
      BY DEF HoldsWhatItNeeds, HasSlot, RepoKey, SourceKey, ContainerKey, Live, Ended
<1>2. \A i \in Jobs : Live(i) => Live(i)'
      BY DEF Live, Ended
<1>3. HoldsNothingElse'
      BY <1>2 DEF HoldsNothingElse, StopsContainer
<1> QED BY <1>1, <1>3

(* Acquire changes the owner of one free key.                              *)
LEMMA AcquireCells ==
    ASSUME TypeOK, NEW j \in Jobs, NEW k \in LockKeys, Locks!Acquire(j, k)
    PROVE  /\ lock[k] = Nobody /\ lock'[k] = j
           /\ \A x \in LockKeys \ {k} : lock'[x] = lock[x]
BY DEF TypeOK, Locks!Acquire

(* Release changes the owner of one key, its caller's.                     *)
LEMMA ReleaseCells ==
    ASSUME TypeOK, NEW j \in Jobs, NEW k \in LockKeys, Locks!Release(j, k)
    PROVE  /\ lock[k] = j /\ lock'[k] = Nobody
           /\ \A x \in LockKeys \ {k} : lock'[x] = lock[x]
BY DEF TypeOK, Locks!Release

(* The keys of one kind: whose they are.                                   *)
LEMMA OwnKeys ==
    ASSUME NEW j \in Jobs
    PROVE  /\ RepoKey(j) \in Keys(j) /\ ContainerKey(j) \in Keys(j)
           /\ j \in Restores => SourceKey(j) \in Keys(j)
           /\ \A k \in Keys(j) :
                 k \in {RepoKey(j), ContainerKey(j)} \/ (j \in Restores /\ k = SourceKey(j))
BY KeyFacts DEF Keys

(* A job that takes one of its own keys still holds nothing else.          *)
LEMMA TakesLock ==
    ASSUME TypeOK, TypeOK', HoldsNothingElse, NEW j \in Jobs, NEW key \in LockKeys,
           key \in Keys(j), lock'[key] = j, \A x \in LockKeys \ {key} : lock'[x] = lock[x],
           UNCHANGED <<slots, seen>>,
           \A i \in Jobs \ {j} : phase'[i] = phase[i],
           phase'[j] \in {"source", "slot", "stop"},
           phase'[j] = "source" => j \in Restores
    PROVE  HoldsNothingElse'
<1>1. \A i \in Jobs : Live(i) => Live(i)'
      BY DEF Live, Ended
<1>2. Live(j)'
      BY DEF Live, Ended
<1>3. \A i \in Jobs : phase'[i] = "source" => i \in Restores
      BY DEF HoldsNothingElse
<1>4. \A i \in Jobs : phase'[i] = "container" => StopsContainer(i)'
      BY DEF HoldsNothingElse, StopsContainer
<1>5. ASSUME NEW x \in LockKeys, lock'[x] # Nobody PROVE Live(lock[x])' /\ x \in Keys(lock[x])'
  <2>1. CASE x = key
        BY <2>1, <1>2 DEF Keys
  <2>2. CASE x # key
    <3>1. /\ lock'[x] = lock[x] /\ lock[x] # Nobody /\ lock[x] \in Jobs
          /\ Live(lock[x]) /\ x \in Keys(lock[x])
          BY <1>5, <2>2 DEF HoldsNothingElse, TypeOK
    <3> QED BY <3>1, <1>1 DEF Keys
  <2> QED BY <2>1, <2>2
<1>6. \A b \in Backends : \A i \in slots'[b] : Live(i)' /\ b = BackendOf[i]
      BY <1>1 DEF HoldsNothingElse, TypeOK
<1> QED BY <1>3, <1>4, <1>5, <1>6 DEF HoldsNothingElse

(* LocksMatch is inductive relative to the types: one step per action, the *)
(* conjuncts it can disturb below.                                         *)
LEMMA LocksStep ==
    TypeOK /\ TypeOK' /\ LocksMatch /\ [Next]_vars => HoldsWhatItNeeds' /\ HoldsNothingElse'
<1> DEFINE Held == HoldsWhatItNeeds /\ HoldsNothingElse
<1> SUFFICES ASSUME TypeOK, TypeOK', Held, [Next]_vars PROVE Held'
    BY DEF LocksMatch
<1> USE DEF held, docker, plan, Live, Ended, Locked
<1>1. ASSUME NEW j \in Jobs, Discover(j) PROVE Held'
      BY <1>1, SameHoldings DEF Discover, List, Inspect, Confirm, GoTo, TypeOK
<1>2. ASSUME NEW j \in Jobs, GiveUp(j) PROVE Held'
      BY <1>2, SameHoldings DEF GiveUp, Fails, GoTo, TypeOK
<1>3. ASSUME NEW j \in Jobs, Quiesce(j) PROVE Held'
      BY <1>3, SameHoldings DEF Quiesce, ListUsers, ListFails, Stop, StopFails, Fails, GoTo, TypeOK
<1>4. ASSUME NEW j \in Jobs, Work(j) PROVE Held'
      BY <1>4, SameHoldings
      DEF Work, CreateWorker, CreateFails, WorkSucceeds, WorkFails, RemoveWorker, Fails, GoTo, TypeOK
<1>5. ASSUME NEW j \in Jobs, Resume(j) PROVE Held'
      BY <1>5, SameHoldings DEF Resume, Start, StartFails, Restarted, GoTo, TypeOK
<1>6. ASSUME NEW j \in Jobs, Acquire(j) PROVE Held'
  <2> USE BackupRestoreAssumption, KeyFacts, OwnKeys DEF HasSlot
  <2>1. CASE AcquireRepo(j)
    <3>1. /\ lock[RepoKey(j)] = Nobody /\ lock'[RepoKey(j)] = j
          /\ \A x \in LockKeys \ {RepoKey(j)} : lock'[x] = lock[x]
          BY <2>1, AcquireCells DEF AcquireRepo
    <3>2. HoldsWhatItNeeds'
          BY <2>1, <3>1 DEF AcquireRepo, GoTo, HoldsWhatItNeeds, TypeOK
    <3>3. HoldsNothingElse'
          BY <2>1, <3>1, TakesLock DEF AcquireRepo, GoTo, TypeOK
    <3> QED BY <3>2, <3>3
  <2>2. CASE AcquireSource(j)
    <3>1. j \in Restores
          BY <2>2 DEF AcquireSource, GoTo, HoldsNothingElse
    <3>2. /\ lock[SourceKey(j)] = Nobody /\ lock'[SourceKey(j)] = j
          /\ \A x \in LockKeys \ {SourceKey(j)} : lock'[x] = lock[x]
          BY <2>2, <3>1, AcquireCells DEF AcquireSource
    <3>3. HoldsWhatItNeeds'
          BY <2>2, <3>2 DEF AcquireSource, GoTo, HoldsWhatItNeeds, TypeOK
    <3>4. HoldsNothingElse'
          BY <2>2, <3>1, <3>2, TakesLock DEF AcquireSource, GoTo, TypeOK
    <3> QED BY <3>3, <3>4
  <2>3. CASE AcquireSlot(j)
    <3>1. HoldsWhatItNeeds'
          BY <2>3 DEF AcquireSlot, GoTo, Slots!Acquire, HoldsWhatItNeeds, StopsContainer, TypeOK
    <3>2. HoldsNothingElse'
          BY <2>3 DEF AcquireSlot, GoTo, Slots!Acquire, HoldsNothingElse, StopsContainer, TypeOK
    <3> QED BY <3>1, <3>2
  <2>4. CASE AcquireContainer(j)
    <3>1. j \in StopMode /\ j \in seen /\ j \notin Restores
          BY <2>4 DEF AcquireContainer, GoTo, HoldsNothingElse, StopsContainer
    <3>2. /\ lock[ContainerKey(j)] = Nobody /\ lock'[ContainerKey(j)] = j
          /\ \A x \in LockKeys \ {ContainerKey(j)} : lock'[x] = lock[x]
          BY <2>4, AcquireCells DEF AcquireContainer
    <3>3. HoldsWhatItNeeds'
          BY <2>4, <3>1, <3>2 DEF AcquireContainer, GoTo, HoldsWhatItNeeds, TypeOK
    <3>4. HoldsNothingElse'
          BY <2>4, <3>2, TakesLock DEF AcquireContainer, GoTo, TypeOK
    <3> QED BY <3>3, <3>4
  <2> QED BY <1>6, <2>1, <2>2, <2>3, <2>4 DEF Acquire
<1>7. ASSUME NEW j \in Jobs, Unwind(j) PROVE Held'
  <2> USE BackupRestoreAssumption
  <2>1. /\ phase[j] = "unwind"
        /\ seen' = seen
        /\ phase' \in [Jobs -> Phases]
        /\ \A i \in Jobs \ {j} : phase'[i] = phase[i]
        /\ phase'[j] \in {"unwind", "done"}
        BY <1>7 DEF Unwind, TypeOK
  <2>2. \A k \in LockKeys : lock'[k] = lock[k] \/ (lock[k] = j /\ lock'[k] = Nobody)
    <3>1. \/ lock' = lock
          \/ \E x \in LockKeys : Locks!Release(j, x)
          BY <1>7, KeyFacts DEF Unwind
    <3>2. ASSUME NEW x \in LockKeys, Locks!Release(j, x)
          PROVE  \A k \in LockKeys : lock'[k] = lock[k] \/ (lock[k] = j /\ lock'[k] = Nobody)
          BY <3>2, ReleaseCells
    <3> QED BY <3>1, <3>2
  <2>3. \A b \in Backends : slots'[b] = slots[b] \/ slots'[b] = slots[b] \ {j}
        BY <1>7 DEF Unwind, Slots!Release, TypeOK
  <2>4. \A i \in Jobs \ {j} : HasSlot(i)' <=> HasSlot(i)
        BY <2>3 DEF HasSlot
  <2>5. ASSUME phase'[j] = "done"
        PROVE  /\ \A k \in LockKeys : lock'[k] # j
               /\ \A b \in Backends : j \notin slots'[b]
    <3>1. phase' # phase
          BY <2>1, <2>5
    <3>2. /\ lock[ContainerKey(j)] # j /\ ~HasSlot(j)
          /\ j \in Restores => lock[SourceKey(j)] # j
          /\ Locks!Release(j, RepoKey(j)) \/ (lock[RepoKey(j)] # j /\ lock' = lock)
          /\ slots' = slots
          BY <1>7, <3>1, KeyFacts DEF Unwind, HasLock
    <3>3. lock'[RepoKey(j)] # j
          BY <3>2, KeyFacts, ReleaseCells
    <3>4. \A k \in LockKeys : lock'[k] # j
          BY <2>2, <3>2, <3>3, OwnKeys DEF HoldsNothingElse
    <3>5. \A b \in Backends : j \notin slots'[b]
          BY <3>2 DEF HoldsNothingElse, HasSlot
    <3> QED BY <3>4, <3>5
  <2>6. HoldsWhatItNeeds'
        BY KeyFacts, <2>1, <2>2, <2>4 DEF HoldsWhatItNeeds
  <2>7. HoldsNothingElse'
    <3>1. /\ \A i \in Jobs : phase'[i] = "source" => i \in Restores
          /\ \A i \in Jobs : phase'[i] = "container" => StopsContainer(i)'
          BY <2>1 DEF HoldsNothingElse, StopsContainer
    <3>2. \A k \in LockKeys : (lock[k] # Nobody => Live(lock[k]) /\ k \in Keys(lock[k]))'
          BY <2>1, <2>2, <2>5 DEF HoldsNothingElse, TypeOK
    <3>3. \A b \in Backends : \A i \in slots'[b] : Live(i)' /\ b = BackendOf[i]
      <4>1. \A b \in Backends : slots'[b] \subseteq slots[b] /\ slots[b] \subseteq Jobs
        <5>1. \A b \in Backends : slots'[b] \subseteq slots[b]
              BY <2>3
        <5>2. \A b \in Backends : slots[b] \subseteq Jobs
              BY DEF TypeOK
        <5> QED BY <5>1, <5>2
      <4>2. \A b \in Backends : \A i \in slots[b] : Live(i) /\ b = BackendOf[i]
            BY DEF HoldsNothingElse
      <4>3. \A i \in Jobs \ {j} : Live(i) => Live(i)'
            BY <2>1 DEF Live, Ended
      <4>4. \A b \in Backends : j \in slots'[b] => Live(j)'
            BY <2>1, <2>5 DEF Live, Ended
      <4> QED BY <4>1, <4>2, <4>3, <4>4
    <3> QED BY <3>1, <3>2, <3>3 DEF HoldsNothingElse
  <2> QED BY <2>6, <2>7
<1>8. ASSUME NEW p \in Procs, Die(p) PROVE Held'
  <2> USE BackupRestoreAssumption, KeyFacts DEF TypeOK, HasSlot
  <2>1. HoldsWhatItNeeds'
        BY <1>8 DEF Die, Begun, Locks!ReleaseAll, Slots!ReleaseAll, HoldsWhatItNeeds
  <2>2. HoldsNothingElse'
        BY <1>8 DEF Die, Begun, Locks!ReleaseAll, Slots!ReleaseAll, HoldsNothingElse, Keys, StopsContainer, plan
  <2> QED BY <2>1, <2>2
<1>9. CASE UNCHANGED <<phase, lock, slots, seen>>
      BY <1>9 DEF HoldsWhatItNeeds, HoldsNothingElse, HasSlot, StopsContainer
<1> QED BY <1>1, <1>2, <1>3, <1>4, <1>5, <1>6, <1>7, <1>8, <1>9
        DEF Next, Crash, DaemonExits, Signal, UserStop, UserStart, vars

-------------------------------------------------------------------------------
(* StopsMatch is inductive, given the types and LocksMatch.                *)
LEMMA StopsInit == Init => StopsMatch
BY BackupRestoreAssumption DEF Init, StopsMatch, StoppedStaysDown, Locked, Live, Ended, Writing, Backups, StopsContainer

(* A job that has stopped nothing yet, or nothing any more, and touches no *)
(* container keeps StopsMatch.                                             *)
LEMMA QuietStep ==
    ASSUME TypeOK, TypeOK', StopsMatch, NEW j \in Jobs,
           UNCHANGED <<up, downBy, lost, seen, stopped>>, err \subseteq err',
           \A i \in Jobs \ {j} : phase'[i] = phase[i] /\ todo'[i] = todo[i],
           phase[j] \notin {"stop", "create", "work", "remove", "start", "dead"},
           phase'[j] \notin {"work", "remove", "start"},
           phase'[j] = "list" => j \in Restores,
           phase'[j] \in {"stop", "create"} => j \notin Backups \/ (phase'[j] = "create" /\ ~StopsContainer(j))
    PROVE  StopsMatch'
<1>1. stopped[j] = {} /\ stopped'[j] = {}
      BY DEF StopsMatch, Locked
<1>2. \A i \in Jobs : phase'[i] \notin (Locked \ {"list"}) \cup {"dead"} => stopped'[i] = {}
      BY <1>1 DEF StopsMatch
<1>3. \A i \in Jobs : phase'[i] = "list" => i \in Restores
      BY DEF StopsMatch
<1>4. \A i \in Backups : phase'[i] = "stop" => StopsContainer(i)' /\ todo'[i] = {ContainerOf[i]}
      BY DEF StopsMatch, StopsContainer, Backups
<1>5. \A i \in Jobs : Writing(i)' \/ phase'[i] = "create" =>
         (StopsContainer(i)' => ContainerOf[i] \in stopped'[i])
      BY BackupRestoreAssumption DEF Backups, StopsMatch, StopsContainer, Writing
<1>6. \A i \in Jobs, c \in Containers : downBy'[c] = i =>
         phase'[i] = "dead" \/ c \in stopped'[i] \cup lost'[i]
      BY DEF StopsMatch
<1>7. \A i \in Jobs : lost'[i] # {} => i \in err'
      BY DEF StopsMatch
<1>8. \A i \in Jobs : Live(i)' =>
         \A c \in stopped'[i] \cap Containers : c \notin up' /\ downBy'[c] = i
      BY <1>1 DEF StopsMatch, StoppedStaysDown, Live
<1> QED BY <1>2, <1>3, <1>4, <1>5, <1>6, <1>7, <1>8 DEF StopsMatch, StoppedStaysDown

(* StopsMatch is inductive relative to the types and LocksMatch, which     *)
(* keeps other jobs away from a container that one job has stopped.        *)
LEMMA StopsStep ==
    TypeOK /\ TypeOK' /\ LocksMatch /\ StopsMatch /\ [Next]_vars => StopsMatch'
<1> SUFFICES ASSUME TypeOK, TypeOK', HoldsNothingElse, StopsMatch, [Next]_vars PROVE StopsMatch'
    BY DEF LocksMatch
<1> USE BackupRestoreAssumption
    DEF TypeOK, held, docker, plan, Live, Ended, Locked, Writing, Boxes, Backups,
        StopsMatch, StoppedStaysDown, StopsContainer, GoTo, Fails
<1>1. ASSUME NEW j \in Jobs, Discover(j) PROVE StopsMatch'
  <2>1. CASE List(j)
        BY <2>1 DEF List
  <2>2. CASE Inspect(j)
        BY <2>2 DEF Inspect
  <2>3. CASE Confirm(j)
        BY <2>3 DEF Confirm
  <2> QED BY <1>1, <2>1, <2>2, <2>3 DEF Discover
<1>2. ASSUME NEW j \in Jobs, AcquireRepo(j) \/ AcquireSource(j) \/ AcquireSlot(j) PROVE StopsMatch'
  <2>1. CASE AcquireRepo(j)
        BY <2>1 DEF AcquireRepo
  <2>2. CASE AcquireSource(j)
        BY <2>2 DEF AcquireSource
  <2>3. CASE AcquireSlot(j)
        BY <2>3 DEF AcquireSlot
  <2> QED BY <1>2, <2>1, <2>2, <2>3
<1>3. ASSUME NEW j \in Jobs, AcquireContainer(j) PROVE StopsMatch'
      BY <1>3 DEF AcquireContainer, HoldsNothingElse
<1>4. ASSUME NEW j \in Jobs, GiveUp(j) PROVE StopsMatch'
      BY <1>4 DEF GiveUp
<1>5. ASSUME NEW j \in Jobs, ListUsers(j) \/ ListFails(j) PROVE StopsMatch'
  <2>1. CASE ListUsers(j)
    <3>1. j \in Restores /\ phase[j] = "list" /\ phase'[j] \in {"create", "stop"}
          BY <2>1 DEF ListUsers
    <3>2. /\ \A i \in Jobs \ {j} : phase'[i] = phase[i] /\ todo'[i] = todo[i]
          /\ UNCHANGED <<up, downBy, lost, seen, stopped, err>>
          BY <2>1 DEF ListUsers
    <3> HIDE DEF TypeOK, StopsMatch
    <3> QED BY <3>1, <3>2, QuietStep
  <2>2. CASE ListFails(j)
        BY <2>2 DEF ListFails
  <2> QED BY <1>5, <2>1, <2>2
<1>6. ASSUME NEW j \in Jobs, NEW c \in Boxes, Stop(j, c) PROVE StopsMatch'
      BY <1>6 DEF Stop, Blame
<1>7. ASSUME NEW j \in Jobs, NEW c \in Boxes, StopFails(j, c) PROVE StopsMatch'
      BY <1>7 DEF StopFails, Blame
<1>8. ASSUME NEW j \in Jobs, CreateWorker(j) \/ CreateFails(j) PROVE StopsMatch'
      BY <1>8 DEF CreateWorker, CreateFails
<1>9. ASSUME NEW j \in Jobs, WorkSucceeds(j) \/ WorkFails(j) \/ RemoveWorker(j) PROVE StopsMatch'
  <2>1. CASE WorkSucceeds(j)
        BY <2>1 DEF WorkSucceeds
  <2>2. CASE WorkFails(j)
        BY <2>2 DEF WorkFails
  <2>3. CASE RemoveWorker(j)
        BY <2>3 DEF RemoveWorker
  <2> QED BY <1>9, <2>1, <2>2, <2>3
<1>10. ASSUME NEW j \in Jobs, NEW c \in Boxes, Start(j, c) PROVE StopsMatch'
      BY <1>10 DEF Start, Blame
<1>11. ASSUME NEW j \in Jobs, NEW c \in Boxes, StartFails(j, c) PROVE StopsMatch'
  <2>1. phase[j] = "start" /\ UNCHANGED <<phase, up, workers, seen, todo, downBy>> /\ err' = err \cup {j}
        BY <1>11 DEF StartFails
  <2>2. \A i \in Jobs \ {j} : stopped'[i] = stopped[i] /\ lost'[i] = lost[i]
        BY <1>11 DEF StartFails
  <2>3. stopped'[j] = stopped[j] \ {c} /\ lost'[j] = lost[j] \cup (({c} \cap Containers) \ up)
        BY <1>11 DEF StartFails
  <2> QED BY <2>1, <2>2, <2>3
<1>12. ASSUME NEW j \in Jobs, Restarted(j) PROVE StopsMatch'
      BY <1>12 DEF Restarted
<1>13. ASSUME NEW j \in Jobs, Unwind(j) PROVE StopsMatch'
  <2>1. /\ phase[j] = "unwind"
        /\ \A i \in Jobs \ {j} : phase'[i] = phase[i]
        /\ phase'[j] \in {"unwind", "done"}
        /\ UNCHANGED <<up, downBy, lost, seen, todo, stopped, err>>
        BY <1>13 DEF Unwind
  <2> HIDE DEF TypeOK, StopsMatch
  <2> QED BY <2>1, QuietStep
<1>14. ASSUME NEW p \in Procs, Die(p) PROVE StopsMatch'
      BY <1>14 DEF Die, Begun
<1>15. ASSUME NEW c \in Containers, UserStop(c) PROVE StopsMatch'
      BY <1>15 DEF UserStop
<1>16. ASSUME NEW c \in Containers, UserStart(c) PROVE StopsMatch'
      BY <1>16 DEF UserStart, Blame
<1>17. CASE UNCHANGED vars
      BY <1>17 DEF vars
<1>18. ASSUME NEW p \in Procs, Signal(p) PROVE StopsMatch'
      BY <1>18 DEF Signal
<1> HIDE DEF TypeOK, StopsMatch
<1> QED BY <1>1, <1>2, <1>3, <1>4, <1>5, <1>6, <1>7, <1>8, <1>9, <1>10, <1>11, <1>12, <1>13,
           <1>14, <1>15, <1>16, <1>17, <1>18
        DEF Next, Acquire, Quiesce, Work, Resume, Crash, DaemonExits

-------------------------------------------------------------------------------
(* What every job holds follows from how far it is.                        *)
THEOREM LocksInvariant == Spec => []LocksMatch
<1>1. TypeOK /\ TypeOK' /\ LocksMatch /\ [Next]_vars => LocksMatch'
      BY LocksStep, SlotsFitStep DEF LocksMatch
<1> QED BY <1>1, LocksInit, TypeCorrect, PTL DEF Spec

(* What every job has stopped follows from how far it is.                  *)
THEOREM StopsInvariant == Spec => []StopsMatch
<1> QED BY StopsInit, StopsStep, LocksInvariant, TypeCorrect, PTL DEF Spec

(* Two tasks of one repository never write at the same time.               *)
THEOREM RepositoryExclusive == Spec => []OneWriterPerRepository
<1>1. TypeOK /\ LocksMatch => OneWriterPerRepository
      BY DEF LocksMatch, HoldsWhatItNeeds, OneWriterPerRepository, Working, Writing, Locked, RepoKey
<1> QED BY <1>1, TypeCorrect, LocksInvariant, PTL

(* The restores of one source never overlap.                               *)
THEOREM SourceExclusive == Spec => []RestoresExclusive
<1>1. ASSUME NEW i, NEW j, SourcesOf[i] = SourcesOf[j] PROVE SourceKey(i) = SourceKey(j)
      BY <1>1, Zenon DEF SourceKey
<1>2. LocksMatch => RestoresExclusive
      BY <1>1 DEF LocksMatch, HoldsWhatItNeeds, RestoresExclusive, Restoring, Locked
<1> QED BY <1>2, LocksInvariant, PTL

(* The writers of a backend never exceed the limit of any of them.         *)
THEOREM Limited == Spec => []WritersWithinLimit
<1>1. TypeOK /\ LocksMatch => WritersWithinLimit
  <2> SUFFICES ASSUME TypeOK, LocksMatch, NEW b \in Backends
               PROVE  Slots!Fits({j \in Working : BackendOf[j] = b /\ Limit[j] > 0})
      BY DEF WritersWithinLimit
  <2> DEFINE W == {j \in Working : BackendOf[j] = b /\ Limit[j] > 0}
  <2>1. W \subseteq slots[b]
        BY DEF LocksMatch, HoldsWhatItNeeds, HasSlot, Working, Writing, Locked
  <2>2. slots[b] \in SUBSET Jobs /\ Slots!Fits(slots[b])
        BY DEF TypeOK, LocksMatch, SlotsFit
  <2> QED BY <2>1, <2>2, FitsSubset
<1> QED BY <1>1, TypeCorrect, LocksInvariant, PTL

(* A container stays down while the job that stopped it runs.              *)
THEOREM StaysDown == Spec => []StoppedStaysDown
<1>1. StopsMatch => StoppedStaysDown
      BY DEF StopsMatch
<1> QED BY <1>1, StopsInvariant, PTL

(* A stop-before-backup backup works on a container that is down.          *)
THEOREM Quiesced == Spec => []BackupQuiesced
<1>1. TypeOK /\ StopsMatch => BackupQuiesced
      BY BackupRestoreAssumption
      DEF TypeOK, StopsMatch, StoppedStaysDown, BackupQuiesced, Writing, Live, Ended
<1> QED BY <1>1, TypeCorrect, StopsInvariant, PTL

(* A job that ended left no container down but those it reports.           *)
THEOREM Restarts == Spec => []NothingLeftDown
<1>1. TypeOK /\ StopsMatch => NothingLeftDown
      BY DEF TypeOK, StopsMatch, NothingLeftDown, Locked
<1> QED BY <1>1, TypeCorrect, StopsInvariant, PTL

-------------------------------------------------------------------------------
(* The boxes that use a volume, whenever they exist, and those that a job  *)
(* ever stops or starts.                                                   *)
MayUse(v) == {c \in Containers : v \in MountsOf[c]} \cup {i \in Jobs : v \in SourcesOf[i]}
MayTouch(j) ==
    {j} \cup IF j \in Restores THEN UNION {MayUse(v) : v \in SourcesOf[j]} ELSE {ContainerOf[j]}

(* No volume is shared across repositories: whoever can bring up a user of *)
(* a source works on the repository that the source is restored from.      *)
OwnRepositories ==
    \A j \in Jobs, r \in Restores : \A v \in SourcesOf[r] :
        MayTouch(j) \cap MayUse(v) # {} => RepoOf[j] = RepoOf[r]

(* A job stops and starts what is its business.  A restore has still to    *)
(* stop the users of its source that are up, and later there are none.     *)
QuietFor(j) ==
    /\ todo[j] \cup stopped[j] \subseteq MayTouch(j)
    /\ j \in Restores /\ phase[j] = "stop" => SourceUsers(j) \cap up \subseteq todo[j]
    /\ j \in Restores /\ phase[j] \in {"create", "work"} => SourceUsers(j) \cap up \subseteq {j}

Quiet == \A j \in Jobs : QuietFor(j)

(* What comes up is no user of a source that another job restores.         *)
LEMMA KeepsAway ==
    ASSUME OwnRepositories, LocksMatch, NEW j \in Jobs, phase[j] \in Locked,
           NEW r \in Restores \ {j}, phase[r] \in Locked, NEW v \in SourcesOf[r]
    PROVE  MayTouch(j) \cap MayUse(v) = {}
<1>1. r \in Jobs
      BY BackupRestoreAssumption
<1>2. lock[RepoKey(j)] = j /\ lock[RepoKey(r)] = r
      BY <1>1 DEF LocksMatch, HoldsWhatItNeeds
<1>3. RepoOf[j] # RepoOf[r]
      BY <1>2 DEF RepoKey
<1> QED BY <1>3 DEF OwnRepositories

(* A source has no new user when all that comes up, or is created, is no   *)
(* user of it.                                                             *)
LEMMA NoNewUser ==
    ASSUME TypeOK, TypeOK', NEW r \in Restores, NEW X,
           up' \subseteq up \cup X, workers' \subseteq workers \cup X,
           \A v \in SourcesOf[r] : X \cap MayUse(v) = {}
    PROVE  SourceUsers(r)' \cap up' \subseteq SourceUsers(r) \cap up
<1> SUFFICES ASSUME NEW v \in SourcesOf[r], NEW c \in Users(v)' \cap up'
             PROVE  c \in Users(v) \cap up
    BY DEF SourceUsers
<1>1. c \in MayUse(v)
      BY DEF Users, MayUse, TypeOK
<1>2. c \notin X
      BY <1>1
<1> QED BY <1>2 DEF Users

(* A step of job j leaves the other jobs as quiet as they were, provided   *)
(* that it brings up nothing but what j touches, with the locks of j.      *)
LEMMA OthersQuiet ==
    ASSUME OwnRepositories, TypeOK, TypeOK', LocksMatch, Quiet, NEW j \in Jobs, NEW X,
           X = {} \/ (X \subseteq MayTouch(j) /\ phase[j] \in Locked),
           up' \subseteq up \cup X, workers' \subseteq workers \cup X,
           \A i \in Jobs \ {j} : phase'[i] = phase[i] /\ todo'[i] = todo[i] /\ stopped'[i] = stopped[i],
           QuietFor(j)'
    PROVE  Quiet'
<1> SUFFICES ASSUME NEW i \in Jobs \ {j} PROVE QuietFor(i)'
    BY DEF Quiet
<1>1. todo'[i] \cup stopped'[i] \subseteq MayTouch(i)
      BY DEF Quiet, QuietFor
<1>2. ASSUME i \in Restores, phase[i] \in {"stop", "create", "work"}
      PROVE  SourceUsers(i)' \cap up' \subseteq SourceUsers(i) \cap up
  <2>1. \A v \in SourcesOf[i] : X \cap MayUse(v) = {}
        BY <1>2, KeepsAway DEF Locked
  <2> QED BY <1>2, <2>1, NoNewUser
<1>3. i \in Restores /\ phase'[i] = "stop" => SourceUsers(i)' \cap up' \subseteq todo'[i]
      BY <1>2 DEF Quiet, QuietFor
<1>4. i \in Restores /\ phase'[i] \in {"create", "work"} => SourceUsers(i)' \cap up' \subseteq {i}
      BY <1>2 DEF Quiet, QuietFor
<1> QED BY <1>1, <1>3, <1>4 DEF QuietFor, MayTouch, MayUse

(* So it does when j is not a restore that needs quiet itself.             *)
LEMMA StepQuiet ==
    ASSUME OwnRepositories, TypeOK, TypeOK', LocksMatch, Quiet, NEW j \in Jobs,
           up' \subseteq up, workers' \subseteq workers,
           \A i \in Jobs \ {j} : phase'[i] = phase[i] /\ todo'[i] = todo[i] /\ stopped'[i] = stopped[i],
           todo'[j] \subseteq todo[j], stopped'[j] \subseteq stopped[j] \cup todo[j],
           j \in Restores => phase'[j] \notin {"stop", "create", "work"}
    PROVE  Quiet'
<1>1. QuietFor(j)'
      BY DEF Quiet, QuietFor, MayTouch, MayUse
<1> QED BY <1>1, OthersQuiet

(* Quiet is inductive relative to the types, the locks and what every job  *)
(* has stopped, when nobody else starts containers.                        *)
LEMMA QuietInductive ==
    ASSUME OwnRepositories, "user" \notin Env,
           TypeOK, TypeOK', LocksMatch, StopsMatch, Quiet, [Next]_vars
    PROVE  Quiet'
<1> USE BackupRestoreAssumption DEF docker, plan, held, GoTo, Fails
<1>1. ASSUME NEW j \in Jobs, Discover(j) \/ GiveUp(j) \/ Restarted(j) \/ Unwind(j) \/ ListFails(j)
      PROVE  Quiet'
  <2>1. /\ UNCHANGED <<up, workers, todo, stopped>>
        /\ \A i \in Jobs \ {j} : phase'[i] = phase[i]
        /\ phase'[j] \in {"listed", "repo", "unwind", "done"}
        BY <1>1 DEF Discover, List, Inspect, Confirm, GiveUp, Restarted, Unwind, ListFails, TypeOK
  <2> QED BY <2>1, StepQuiet
<1>2. ASSUME NEW j \in Jobs, AcquireRepo(j) \/ AcquireSource(j) \/ AcquireSlot(j) PROVE Quiet'
  <2>1. /\ UNCHANGED <<up, workers, todo, stopped>>
        /\ \A i \in Jobs \ {j} : phase'[i] = phase[i]
        /\ j \in Restores => phase'[j] \in {"source", "slot", "list"}
        BY <1>2 DEF AcquireRepo, AcquireSource, AcquireSlot, TypeOK
  <2> QED BY <2>1, StepQuiet
<1>3. ASSUME NEW j \in Jobs, AcquireContainer(j) PROVE Quiet'
  <2>1. /\ UNCHANGED <<up, workers, stopped>>
        /\ \A i \in Jobs \ {j} : phase'[i] = phase[i] /\ todo'[i] = todo[i]
        /\ todo'[j] = {ContainerOf[j]}
        BY <1>3 DEF AcquireContainer, TypeOK
  <2>2. j \notin Restores
        BY <1>3 DEF AcquireContainer, LocksMatch, HoldsNothingElse, StopsContainer
  <2>3. QuietFor(j)'
        BY <2>1, <2>2 DEF Quiet, QuietFor, MayTouch
  <2> QED BY <2>1, <2>3, OthersQuiet
<1>4. ASSUME NEW j \in Jobs, ListUsers(j) PROVE Quiet'
  <2>1. /\ UNCHANGED <<up, workers, stopped>>
        /\ \A i \in Jobs \ {j} : phase'[i] = phase[i] /\ todo'[i] = todo[i]
        /\ todo'[j] = SourceUsers(j) \cap up
        /\ phase'[j] = IF SourceUsers(j) \cap up = {} THEN "create" ELSE "stop"
        BY <1>4 DEF ListUsers, TypeOK
  <2>2. j \in Restores
        BY <1>4 DEF ListUsers, StopsMatch
  <2>3. SourceUsers(j) \subseteq MayTouch(j) /\ SourceUsers(j)' = SourceUsers(j)
        BY <2>1, <2>2 DEF SourceUsers, Users, MayTouch, MayUse, TypeOK
  <2>4. QuietFor(j)'
        BY <2>1, <2>3 DEF Quiet, QuietFor, MayTouch, MayUse
  <2> QED BY <2>1, <2>4, OthersQuiet
<1>5. ASSUME NEW j \in Jobs, NEW c \in Boxes, Stop(j, c) PROVE Quiet'
  <2>1. /\ workers' = workers /\ up' = up \ {c} /\ c \in todo[j] /\ phase[j] = "stop"
        /\ \A i \in Jobs \ {j} : phase'[i] = phase[i] /\ todo'[i] = todo[i] /\ stopped'[i] = stopped[i]
        /\ todo'[j] = todo[j] \ {c} /\ stopped'[j] = stopped[j] \cup {c}
        /\ phase'[j] = IF todo[j] = {c} THEN "create" ELSE "stop"
        BY <1>5 DEF Stop, TypeOK
  <2>2. SourceUsers(j)' = SourceUsers(j)
        BY <2>1 DEF SourceUsers, Users
  <2>3. QuietFor(j)'
        BY <2>1, <2>2 DEF Quiet, QuietFor, MayTouch, MayUse
  <2> QED BY <2>1, <2>3, OthersQuiet
<1>6. ASSUME NEW j \in Jobs, NEW c \in Boxes, StopFails(j, c) PROVE Quiet'
  <2>1. /\ workers' = workers /\ up' \subseteq up /\ stopped' = stopped
        /\ \A i \in Jobs \ {j} : phase'[i] = phase[i] /\ todo'[i] = todo[i]
        /\ todo'[j] = {} /\ phase'[j] = "start"
        BY <1>6 DEF StopFails, TypeOK
  <2> QED BY <2>1, StepQuiet
<1>7. ASSUME NEW j \in Jobs, CreateWorker(j) \/ CreateFails(j) PROVE Quiet'
  <2>1. /\ up' \subseteq up \cup {j} /\ workers' \subseteq workers \cup {j}
        /\ UNCHANGED <<todo, stopped>>
        /\ \A i \in Jobs \ {j} : phase'[i] = phase[i]
        /\ phase[j] = "create" /\ phase'[j] \in {"work", "remove", "start"}
        BY <1>7 DEF CreateWorker, CreateFails, TypeOK
  <2>2. ASSUME j \in Restores PROVE SourceUsers(j)' \cap up' \subseteq {j}
    <3>1. SourceUsers(j)' \cap up' \subseteq (SourceUsers(j) \cap up) \cup {j}
          BY <2>1 DEF SourceUsers, Users
    <3> QED BY <2>1, <2>2, <3>1 DEF Quiet, QuietFor
  <2>3. QuietFor(j)'
        BY <2>1, <2>2 DEF Quiet, QuietFor, MayTouch, MayUse
  <2>4. {j} \subseteq MayTouch(j) /\ phase[j] \in Locked
        BY <2>1 DEF MayTouch, Locked
  <2> QED BY <2>1, <2>3, <2>4, OthersQuiet
<1>8. ASSUME NEW j \in Jobs, WorkSucceeds(j) \/ WorkFails(j) \/ RemoveWorker(j) PROVE Quiet'
  <2>1. /\ up' \subseteq up /\ workers' \subseteq workers /\ UNCHANGED <<todo, stopped>>
        /\ \A i \in Jobs \ {j} : phase'[i] = phase[i]
        /\ phase'[j] \in {"remove", "start"}
        BY <1>8 DEF WorkSucceeds, WorkFails, RemoveWorker, TypeOK
  <2> QED BY <2>1, StepQuiet
<1>9. ASSUME NEW j \in Jobs, NEW c \in Boxes, Start(j, c) \/ StartFails(j, c) PROVE Quiet'
  <2>1. /\ up' \subseteq up \cup {c} /\ UNCHANGED <<workers, todo, phase>> /\ c \in stopped[j]
        /\ \A i \in Jobs \ {j} : stopped'[i] = stopped[i]
        /\ stopped'[j] \subseteq stopped[j] /\ phase[j] = "start"
        BY <1>9 DEF Start, StartFails, TypeOK
  <2>2. QuietFor(j)'
        BY <2>1 DEF Quiet, QuietFor, MayTouch, MayUse
  <2>3. {c} \subseteq MayTouch(j) /\ phase[j] \in Locked
        BY <2>1 DEF Quiet, QuietFor, Locked
  <2> QED BY <2>1, <2>2, <2>3, OthersQuiet
<1>10. ASSUME NEW p \in Procs, Signal(p) \/ Die(p) PROVE Quiet'
  <2>1. /\ UNCHANGED <<up, workers, todo, stopped>>
        /\ \A j \in Jobs : phase'[j] \in {phase[j], "dead"}
        BY <1>10 DEF Signal, Die, TypeOK
  <2>2. \A j \in Jobs : SourceUsers(j)' = SourceUsers(j)
        BY <2>1 DEF SourceUsers, Users
  <2> QED BY <2>1, <2>2 DEF Quiet, QuietFor, MayTouch, MayUse
<1>11. ASSUME NEW c \in Containers, UserStop(c) \/ UserStart(c) PROVE Quiet'
       BY <1>11 DEF UserStop, UserStart
<1>12. CASE UNCHANGED vars
  <2>1. \A j \in Jobs : SourceUsers(j)' = SourceUsers(j)
        BY <1>12 DEF SourceUsers, Users, vars
  <2> QED BY <1>12, <2>1 DEF vars, Quiet, QuietFor, MayTouch, MayUse
<1> QED BY <1>1, <1>2, <1>3, <1>4, <1>5, <1>6, <1>7, <1>8, <1>9, <1>10, <1>11, <1>12
        DEF Next, Acquire, Quiesce, Work, Resume, Crash, DaemonExits

(* Nobody starts or runs on a source while a restore overwrites it, if     *)
(* nobody but Volust starts containers and no volume is shared across      *)
(* repositories: with any crash, signal or failure of Docker.  Shared      *)
(* volumes are not kept quiet (app.go:502).                                *)
THEOREM RestoresQuiesced ==
    ASSUME OwnRepositories, "user" \notin Env
    PROVE  Spec => []RestoreQuiesced
<1>1. Init => Quiet
      BY BackupRestoreAssumption DEF Init, Quiet, QuietFor
<1>2. TypeOK /\ TypeOK' /\ LocksMatch /\ StopsMatch /\ Quiet /\ [Next]_vars => Quiet'
      BY QuietInductive
<1>3. Quiet => RestoreQuiesced
      BY BackupRestoreAssumption DEF Quiet, QuietFor, RestoreQuiesced
<1> QED BY <1>1, <1>2, <1>3, TypeCorrect, LocksInvariant, StopsInvariant, PTL DEF Spec

-------------------------------------------------------------------------------
(* Job j waits for something that job i has.                               *)
WaitsFor(j, i) ==
    \/ phase[j] = "repo" /\ lock[RepoKey(j)] = i
    \/ phase[j] = "source" /\ lock[SourceKey(j)] = i
    \/ phase[j] = "slot" /\ Limit[j] > 0 /\ i \in slots[BackendOf[j]]
    \/ phase[j] = "container" /\ lock[ContainerKey(j)] = i

(* What job j waits for, if it waits, is free: it can go on.               *)
MayGoOn(j) ==
    /\ phase[j] = "repo" => lock[RepoKey(j)] = Nobody
    /\ phase[j] = "source" => lock[SourceKey(j)] = Nobody
    /\ phase[j] = "slot" => Limit[j] = 0 \/ (~HasSlot(j) /\ Slots!Fits(slots[BackendOf[j]] \cup {j}))
    /\ phase[j] = "container" => lock[ContainerKey(j)] = Nobody

(* How far a job has come in the one order in which jobs take what they    *)
(* need.                                                                   *)
Stage(j) ==
    IF phase[j] = "repo" THEN 0
    ELSE IF phase[j] = "source" THEN 1
    ELSE IF phase[j] = "slot" THEN 2
    ELSE IF phase[j] = "container" THEN 3 ELSE 4

(* No job has what it waits for, or what it will wait for later.           *)
OrderFor(j) ==
    /\ lock[RepoKey(j)] = j => phase[j] # "repo"
    /\ j \in Restores /\ lock[SourceKey(j)] = j => phase[j] \notin {"repo", "source"}
    /\ HasSlot(j) => phase[j] \notin {"repo", "source", "slot"}
    /\ lock[ContainerKey(j)] = j => phase[j] \notin {"repo", "source", "slot", "container"}

LocksInOrder == \A j \in Jobs : OrderFor(j)

(* Whoever waits, waits for jobs that run and have come further.           *)
WaitsForward == \A j, i \in Jobs : WaitsFor(j, i) => Live(i) /\ Stage(j) < Stage(i)

(* The jobs never wait for each other in a circle: when some run, one of   *)
(* them can go on.                                                         *)
NoDeadlock == (\E j \in Jobs : Live(j)) => \E j \in Jobs : Live(j) /\ MayGoOn(j)

(* A step of one job gives the others nothing.                             *)
LEMMA OthersOrder ==
    ASSUME TypeOK, NEW j \in Jobs, LocksInOrder,
           \A i \in Jobs \ {j} : /\ phase'[i] = phase[i]
                                 /\ \A k \in LockKeys : lock'[k] = i => lock[k] = i
                                 /\ HasSlot(i)' => HasSlot(i),
           OrderFor(j)'
    PROVE  LocksInOrder'
<1> SUFFICES ASSUME NEW i \in Jobs \ {j} PROVE OrderFor(i)'
    BY DEF LocksInOrder
<1>1. OrderFor(i) /\ RepoKey(i) \in LockKeys /\ ContainerKey(i) \in LockKeys
      BY KeyFacts DEF LocksInOrder
<1>2. i \in Restores => SourceKey(i) \in LockKeys
      BY KeyFacts
<1> QED BY <1>1, <1>2 DEF OrderFor, RepoKey, SourceKey, ContainerKey

(* A step that takes nothing keeps the order, when its job does not come   *)
(* to wait with something in its hands.                                    *)
LEMMA SameOrder ==
    ASSUME TypeOK, NEW j \in Jobs, LocksInOrder,
           \A i \in Jobs \ {j} : phase'[i] = phase[i],
           \A k \in LockKeys : lock'[k] \in {lock[k], Nobody},
           \A b \in Backends : slots'[b] \subseteq slots[b],
           \/ phase'[j] \notin {"repo", "source", "slot", "container"}
           \/ /\ lock[RepoKey(j)] # j /\ lock[ContainerKey(j)] # j /\ ~HasSlot(j)
              /\ j \in Restores => lock[SourceKey(j)] # j
    PROVE  LocksInOrder'
<1>1. /\ RepoKey(j) \in LockKeys /\ ContainerKey(j) \in LockKeys /\ BackendOf[j] \in Backends
      /\ j \in Restores => SourceKey(j) \in LockKeys
      BY KeyFacts, BackupRestoreAssumption
<1>2. \A i \in Jobs : /\ \A k \in LockKeys : lock'[k] = i => lock[k] = i
                      /\ HasSlot(i)' => HasSlot(i)
      BY BackupRestoreAssumption DEF HasSlot
<1>3. OrderFor(j)'
      BY <1>1, <1>2 DEF OrderFor, RepoKey, SourceKey, ContainerKey
<1> QED BY <1>2, <1>3, OthersOrder

(* Every job takes its repository first, then its source, its write slot   *)
(* and its container (app.go:499-509, daemon.go:198, 247, 268).            *)
LEMMA OrderStep ==
    ASSUME TypeOK, TypeOK', LocksMatch, LocksInOrder, [Next]_vars
    PROVE  LocksInOrder'
<1> USE DEF held, docker, plan
<1>1. ASSUME NEW j \in Jobs, Discover(j) PROVE LocksInOrder'
  <2>1. /\ UNCHANGED <<lock, slots>> /\ ~Live(j)
        /\ \A i \in Jobs \ {j} : phase'[i] = phase[i]
        BY <1>1 DEF Discover, List, Inspect, Confirm, GoTo, TypeOK, Live, Ended
  <2>2. /\ lock[RepoKey(j)] # j /\ lock[ContainerKey(j)] # j /\ ~HasSlot(j)
        /\ j \in Restores => lock[SourceKey(j)] # j
        BY <2>1, KeyFacts, BackupRestoreAssumption DEF LocksMatch, HoldsNothingElse, HasSlot
  <2> QED BY <2>1, <2>2, SameOrder
<1>2. ASSUME NEW j \in Jobs, GiveUp(j) \/ Quiesce(j) \/ Work(j) \/ Resume(j) PROVE LocksInOrder'
  <2>1. /\ UNCHANGED <<lock, slots>>
        /\ \A i \in Jobs \ {j} : phase'[i] = phase[i]
        /\ phase'[j] \notin {"repo", "source", "slot", "container"}
    <3>1. CASE GiveUp(j)
          BY <3>1 DEF GiveUp, Fails, GoTo, TypeOK
    <3>2. CASE Quiesce(j)
          BY <3>2 DEF Quiesce, ListUsers, ListFails, Stop, StopFails, Fails, GoTo, TypeOK
    <3>3. CASE Work(j)
          BY <3>3 DEF Work, CreateWorker, CreateFails, WorkSucceeds, WorkFails, RemoveWorker, Fails, GoTo, TypeOK
    <3>4. CASE Resume(j)
          BY <3>4 DEF Resume, Start, StartFails, Restarted, GoTo, TypeOK
    <3> QED BY <1>2, <3>1, <3>2, <3>3, <3>4
  <2> QED BY <2>1, SameOrder
<1>3. ASSUME NEW j \in Jobs, Unwind(j) PROVE LocksInOrder'
  <2>1. /\ \A i \in Jobs \ {j} : phase'[i] = phase[i]
        /\ phase'[j] \in {"unwind", "done"}
        BY <1>3 DEF Unwind, TypeOK
  <2>2. \A k \in LockKeys : lock'[k] \in {lock[k], Nobody}
    <3>1. \/ lock' = lock
          \/ \E x \in LockKeys : Locks!Release(j, x)
          BY <1>3, KeyFacts DEF Unwind
    <3>2. ASSUME NEW x \in LockKeys, Locks!Release(j, x)
          PROVE  \A k \in LockKeys : lock'[k] \in {lock[k], Nobody}
          BY <3>2, ReleaseCells
    <3> QED BY <3>1, <3>2
  <2>3. \A b \in Backends : slots'[b] \subseteq slots[b]
        BY <1>3 DEF Unwind, Slots!Release, TypeOK
  <2> QED BY <2>1, <2>2, <2>3, SameOrder
<1>4. ASSUME NEW j \in Jobs, NEW key \in Keys(j), key \in LockKeys, Locks!Acquire(j, key), slots' = slots,
             \A i \in Jobs \ {j} : phase'[i] = phase[i],
             \/ key = RepoKey(j) /\ phase[j] = "repo" /\ phase'[j] \in {"source", "slot"}
             \/ key = SourceKey(j) /\ phase[j] = "source" /\ phase'[j] = "slot"
             \/ phase'[j] = "stop"
      PROVE  LocksInOrder'
  <2>1. /\ lock[key] = Nobody /\ lock'[key] = j
        /\ \A x \in LockKeys \ {key} : lock'[x] = lock[x]
        BY <1>4, AcquireCells
  <2>2. OrderFor(j)'
    <3>1. /\ RepoKey(j) \in LockKeys /\ ContainerKey(j) \in LockKeys
          /\ j \in Restores => SourceKey(j) \in LockKeys
          /\ RepoKey(j) # ContainerKey(j) /\ RepoKey(j) # SourceKey(j) /\ SourceKey(j) # ContainerKey(j)
          BY KeyFacts
    <3>2. OrderFor(j)
          BY <1>4 DEF LocksInOrder
    <3>3. CASE key = RepoKey(j) /\ phase[j] = "repo" /\ phase'[j] \in {"source", "slot"}
          BY <1>4, <2>1, <3>1, <3>2, <3>3 DEF OrderFor, HasSlot
    <3>4. CASE key = SourceKey(j) /\ phase[j] = "source" /\ phase'[j] = "slot"
          BY <1>4, <2>1, <3>1, <3>2, <3>4 DEF OrderFor, HasSlot
    <3>5. CASE phase'[j] = "stop"
          BY <3>5 DEF OrderFor
    <3> QED BY <1>4, <3>3, <3>4, <3>5
  <2>3. \A i \in Jobs \ {j} : /\ \A k \in LockKeys : lock'[k] = i => lock[k] = i
                              /\ HasSlot(i)' => HasSlot(i)
        BY <1>4, <2>1 DEF HasSlot
  <2> QED BY <1>4, <2>2, <2>3, OthersOrder
<1>5. ASSUME NEW j \in Jobs, AcquireRepo(j) \/ AcquireSource(j) \/ AcquireContainer(j) PROVE LocksInOrder'
  <2> USE KeyFacts, OwnKeys
  <2>1. CASE AcquireRepo(j)
        BY <2>1, <1>4 DEF AcquireRepo, GoTo, TypeOK
  <2>2. CASE AcquireSource(j)
    <3>1. j \in Restores
          BY <2>2 DEF AcquireSource, GoTo, LocksMatch, HoldsNothingElse
    <3> QED BY <2>2, <3>1, <1>4 DEF AcquireSource, GoTo, TypeOK
  <2>3. CASE AcquireContainer(j)
        BY <2>3, <1>4 DEF AcquireContainer, GoTo, TypeOK
  <2> QED BY <1>5, <2>1, <2>2, <2>3
<1>6. ASSUME NEW j \in Jobs, AcquireSlot(j) PROVE LocksInOrder'
  <2>1. /\ lock' = lock /\ phase[j] = "slot" /\ phase'[j] \in {"list", "container", "create"}
        /\ \A i \in Jobs \ {j} : phase'[i] = phase[i]
        BY <1>6 DEF AcquireSlot, GoTo, TypeOK
  <2>2. \A b \in Backends : slots'[b] \subseteq slots[b] \cup {j}
        BY <1>6 DEF AcquireSlot, Slots!Acquire, TypeOK
  <2>3. \A i \in Jobs \ {j} : HasSlot(i)' => HasSlot(i)
        BY <2>2, BackupRestoreAssumption DEF HasSlot
  <2>4. OrderFor(j)'
        BY <1>6, <2>1 DEF LocksInOrder, OrderFor
  <2> QED BY <2>1, <2>3, <2>4, OthersOrder
<1>7. ASSUME NEW p \in Procs, Die(p) PROVE LocksInOrder'
  <2>1. /\ \A j \in Jobs : phase'[j] \in {phase[j], "dead"}
        /\ \A j \in Jobs, k \in LockKeys : lock'[k] = j => lock[k] = j
        /\ \A j \in Jobs : HasSlot(j)' => HasSlot(j)
        BY <1>7, BackupRestoreAssumption DEF Die, Locks!ReleaseAll, Slots!ReleaseAll, HasSlot, TypeOK
  <2> SUFFICES ASSUME NEW j \in Jobs PROVE OrderFor(j)'
      BY DEF LocksInOrder
  <2>2. /\ OrderFor(j) /\ RepoKey(j) \in LockKeys /\ ContainerKey(j) \in LockKeys
        /\ j \in Restores => SourceKey(j) \in LockKeys
        BY KeyFacts DEF LocksInOrder
  <2> QED BY <2>1, <2>2 DEF OrderFor, RepoKey, SourceKey, ContainerKey
<1>8. CASE UNCHANGED <<phase, lock, slots>>
      BY <1>8 DEF LocksInOrder, OrderFor, HasSlot, RepoKey, SourceKey, ContainerKey
<1> QED BY <1>1, <1>2, <1>3, <1>5, <1>6, <1>7, <1>8
        DEF Next, Acquire, Crash, DaemonExits, Signal, UserStop, UserStart, vars

(* A job waits only for jobs that are ahead of it: all take what they need *)
(* in one order, whichever processes they run in.                          *)
THEOREM OneOrder == Spec => [](LocksInOrder /\ WaitsForward)
<1>1. Init => LocksInOrder
      BY BackupRestoreAssumption DEF Init, LocksInOrder, OrderFor, HasSlot, Slots!Init
<1>2. TypeOK /\ TypeOK' /\ LocksMatch /\ LocksInOrder /\ [Next]_vars => LocksInOrder'
      BY OrderStep
<1>3. TypeOK /\ LocksMatch /\ LocksInOrder => WaitsForward
  <2> SUFFICES ASSUME TypeOK, LocksMatch, LocksInOrder, NEW j \in Jobs, NEW i \in Jobs, WaitsFor(j, i)
               PROVE  Live(i) /\ Stage(j) < Stage(i)
      BY DEF WaitsForward
  <2>1. OrderFor(i) /\ i # Nobody /\ Nobody \notin Jobs
        BY BackupRestoreAssumption DEF LocksInOrder
  <2>2. CASE phase[j] = "repo" /\ lock[RepoKey(j)] = i
    <3>1. Live(i) /\ RepoKey(j) \in Keys(i)
          BY <2>1, <2>2, KeyFacts DEF LocksMatch, HoldsNothingElse
    <3>2. RepoKey(i) = RepoKey(j)
          BY <3>1, KeyFacts DEF Keys
    <3> QED BY <2>1, <2>2, <3>1, <3>2 DEF OrderFor, Stage
  <2>3. CASE phase[j] = "source" /\ lock[SourceKey(j)] = i
    <3>1. j \in Restores
          BY <2>3 DEF LocksMatch, HoldsNothingElse
    <3>2. Live(i) /\ SourceKey(j) \in Keys(i)
          BY <2>1, <2>3, <3>1, KeyFacts DEF LocksMatch, HoldsNothingElse
    <3>3. i \in Restores /\ SourceKey(i) = SourceKey(j)
          BY <3>2, KeyFacts DEF Keys
    <3> QED BY <2>1, <2>3, <3>2, <3>3 DEF OrderFor, Stage
  <2>4. CASE phase[j] = "slot" /\ Limit[j] > 0 /\ i \in slots[BackendOf[j]]
    <3>1. Live(i) /\ HasSlot(i)
          BY <2>4, BackupRestoreAssumption DEF LocksMatch, HoldsNothingElse, HasSlot
    <3> QED BY <2>1, <2>4, <3>1 DEF OrderFor, Stage
  <2>5. CASE phase[j] = "container" /\ lock[ContainerKey(j)] = i
    <3>1. Live(i) /\ ContainerKey(j) \in Keys(i)
          BY <2>1, <2>5, KeyFacts DEF LocksMatch, HoldsNothingElse
    <3>2. ContainerKey(i) = ContainerKey(j)
          BY <3>1, KeyFacts DEF Keys
    <3> QED BY <2>1, <2>5, <3>1, <3>2 DEF OrderFor, Stage
  <2> QED BY <2>2, <2>3, <2>4, <2>5 DEF WaitsFor
<1> QED BY <1>1, <1>2, <1>3, TypeCorrect, LocksInvariant, PTL DEF Spec

(* A job that cannot go on waits for another one.                          *)
LEMMA WaitsForSome ==
    ASSUME TypeOK, LocksMatch, LocksInOrder, NEW j \in Jobs, ~MayGoOn(j)
    PROVE  \E i \in Jobs : WaitsFor(j, i)
<1>1. \A k \in LockKeys : lock[k] # Nobody => lock[k] \in Jobs
      BY DEF TypeOK
<1>2. CASE phase[j] = "slot"
  <2>1. Limit[j] > 0 /\ Limit[j] \in Nat
        BY <1>2, BackupRestoreAssumption DEF MayGoOn
  <2>2. ~Slots!Fits(slots[BackendOf[j]] \cup {j})
        BY <1>2 DEF MayGoOn, LocksInOrder, OrderFor
  <2>3. Slots!Fits({j})
    <3>1. {c \in {j} : Limit[c] <= Limit[j]} = {j}
          BY <2>1
    <3>2. Cardinality({j}) = 1
          BY FS_Singleton
    <3>3. Cardinality({c \in {j} : Limit[c] <= Limit[j]}) <= Limit[j]
          BY <2>1, <3>1, <3>2
    <3> QED BY <3>3, SameCardinality DEF Slots!Fits
  <2>4. slots[BackendOf[j]] # {} /\ slots[BackendOf[j]] \subseteq Jobs
        BY <2>2, <2>3, BackupRestoreAssumption DEF TypeOK
  <2> QED BY <1>2, <2>1, <2>4 DEF WaitsFor
<1>3. CASE phase[j] = "source"
  <2>1. j \in Restores
        BY <1>3 DEF LocksMatch, HoldsNothingElse
  <2> QED BY <1>1, <1>3, <2>1, KeyFacts DEF MayGoOn, WaitsFor
<1>4. CASE phase[j] \in {"repo", "container"}
      BY <1>1, <1>4, KeyFacts DEF MayGoOn, WaitsFor
<1> QED BY <1>2, <1>3, <1>4 DEF MayGoOn

(* The jobs never deadlock, over locks and write slots together: of those  *)
(* that run, the one that has come furthest can go on.                     *)
THEOREM DeadlockFree == Spec => []NoDeadlock
<1>1. ASSUME TypeOK, LocksMatch, LocksInOrder, WaitsForward, NEW j \in Jobs, Live(j)
      PROVE  \E i \in Jobs : Live(i) /\ MayGoOn(i)
  <2> DEFINE Someone == \E i \in Jobs : Live(i) /\ MayGoOn(i)
  <2>1. \A i \in Jobs : Live(i) /\ ~MayGoOn(i) => \E h \in Jobs : Live(h) /\ Stage(i) < Stage(h)
        BY <1>1, WaitsForSome DEF WaitsForward
  <2>2. \A i \in Jobs : Stage(i) \in 0 .. 4
        BY DEF Stage
  <2> HIDE DEF Someone
  <2>3. \A i \in Jobs : Live(i) /\ Stage(i) = 4 => Someone
        BY <2>1, <2>2 DEF Someone
  <2>4. \A i \in Jobs : Live(i) /\ Stage(i) >= 3 => Someone
        BY <2>1, <2>2, <2>3 DEF Someone
  <2>5. \A i \in Jobs : Live(i) /\ Stage(i) >= 2 => Someone
        BY <2>1, <2>2, <2>4 DEF Someone
  <2>6. \A i \in Jobs : Live(i) /\ Stage(i) >= 1 => Someone
        BY <2>1, <2>2, <2>5 DEF Someone
  <2>7. \A i \in Jobs : Live(i) => Someone
        BY <2>1, <2>2, <2>6 DEF Someone
  <2> QED BY <1>1, <2>7 DEF Someone
<1>2. TypeOK /\ LocksMatch /\ LocksInOrder /\ WaitsForward => NoDeadlock
      BY <1>1 DEF NoDeadlock
<1> QED BY <1>2, OneOrder, TypeCorrect, LocksInvariant, PTL

================================================================================
