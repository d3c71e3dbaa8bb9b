--------------------------- MODULE Scheduler_proofs ---------------------------
(***************************************************************************)
(* Scheduler for every set of containers and names and every bound: the    *)
(* type invariant; the map of entries and cron's table agree; a finished   *)
(* pass has scheduled what it found; and no pass takes the entry of a      *)
(* container away that was there all the time.  The last two rest on what  *)
(* a pass that is under way has done and has still to do.                  *)
(***************************************************************************)
EXTENDS Scheduler, TLAPS

USE SchedulerAssumption, NothingAssumption

-------------------------------------------------------------------------------
(* The key of a specification is one of the keys, and names its container. *)
LEMMA KeyIn ==
    ASSUME NEW f \in Specs
    PROVE  Key(f) \in Keys /\ Key(f)[1] = f.id
BY DEF Specs, Key, Keys, AppName, AppNames

(* What an inspection keeps is a specification of the container.           *)
LEMMA SeenIn ==
    ASSUME TypeOK, NEW c \in Containers
    PROVE  Seen(c) \in Specs /\ Seen(c).id = c
BY DEF TypeOK, Seen, Specs

(* The program starts with every variable in its type.                     *)
LEMMA TypeOKInit == Init => TypeOK
<1> SUFFICES ASSUME Init PROVE TypeOK
    OBVIOUS
<1>1. entries \in [Keys -> Ids \cup {0}] /\ cron \in [Ids -> Specs \cup {Nothing}]
      BY DEF Init, NoEntries, EmptyCron
<1>2. jobs \subseteq Specs /\ stopped \subseteq jobs
      BY DEF Init
<1>3. state \in [Containers -> {"new", "up", "down", "gone"}]
      BY DEF Init
<1>4. /\ todo = {} /\ found = {} /\ left = {} /\ current = {} /\ absent = {}
      /\ pc = "list" /\ cancelled = FALSE /\ started = FALSE /\ mode \in Modes
      BY DEF Init
<1>5. changes \in 0 .. MaxChanges /\ name \in [Containers -> Names]
      BY DEF Init
<1>6. unreadable \subseteq Containers
      BY DEF Init
<1> QED BY <1>1, <1>2, <1>3, <1>4, <1>5, <1>6 DEF TypeOK

(* The end of the process leaves its variables as they were at the start.  *)
LEMMA EndIsInit == TypeOK /\ End => TypeOK' /\ PassProgress' /\ EntriesMatchCron' /\ PassSeesAll'
<1> SUFFICES ASSUME TypeOK, End PROVE TypeOK' /\ PassProgress' /\ EntriesMatchCron' /\ PassSeesAll'
    OBVIOUS
<1>1. entries' \in [Keys -> Ids \cup {0}] /\ cron' \in [Ids -> Specs \cup {Nothing}]
      BY DEF End, NoEntries, EmptyCron
<1>2. TypeOK'
      BY <1>1 DEF End, TypeOK, docker
<1>3. PassProgress'
      BY DEF End, PassProgress, Valid
<1>4. EntriesMatchCron' /\ PassSeesAll'
      BY DEF End, EntriesMatchCron, PassSeesAll, NoEntries, EmptyCron, Scheduled
<1> QED BY <1>2, <1>3, <1>4

(* Every step of the program and of its surroundings keeps the types.      *)
LEMMA TypeOKStep == TypeOK /\ PassProgress /\ [Next]_vars => TypeOK'
<1> SUFFICES ASSUME TypeOK, PassProgress, [Next]_vars PROVE TypeOK'
    OBVIOUS
<1> USE DEF TypeOK, docker, pass, running
<1>1. CASE Discover
  <2>1. CASE List
        BY <2>1 DEF List, PassProgress
  <2>2. CASE Discovered
        BY <2>2 DEF Discovered, Valid
  <2>3. CASE DiscoveryFails
        BY <2>3, EndIsInit DEF DiscoveryFails
  <2>4. ASSUME NEW c \in Containers, Inspect(c) PROVE TypeOK'
        BY <2>4, SeenIn DEF Inspect
  <2> QED BY <1>1, <2>1, <2>2, <2>3, <2>4 DEF Discover
<1>2. CASE Pass
  <2>1. CASE Reconciled \/ PassDone
        BY <2>1 DEF Reconciled, PassDone
  <2>2. ASSUME NEW f \in left, Reconcile(f) PROVE TypeOK'
    <3>1. f \in Specs /\ Key(f) \in Keys
          BY KeyIn
    <3>2. current' \subseteq Keys
          BY <2>2, <3>1 DEF Reconcile
    <3>3. entries' \in [Keys -> Ids \cup {0}] /\ cron' \in [Ids -> Specs \cup {Nothing}]
          BY <2>2, <3>1 DEF Reconcile
    <3> QED BY <2>2, <3>2, <3>3 DEF Reconcile
  <2>3. ASSUME NEW f \in left, ExcludeFileFails(f) PROVE TypeOK'
        BY <2>3, EndIsInit DEF ExcludeFileFails
  <2>4. ASSUME NEW k \in Keys, Drop(k) PROVE TypeOK'
    <3>1. cron' \in [Ids -> Specs \cup {Nothing}]
          BY <2>4 DEF Drop
    <3>2. entries' \in [Keys -> Ids \cup {0}]
          BY <2>4 DEF Drop
    <3> QED BY <2>4, <3>1, <3>2 DEF Drop
  <2> QED BY <1>2, <2>1, <2>2, <2>3, <2>4 DEF Pass
<1>3. CASE Once
      BY <1>3, EndIsInit DEF Once, ScanDone, BackUp, BackUpFails
<1>4. CASE Tick \/ Signal \/ Restart
      BY <1>4 DEF Tick, Signal, Restart
<1>5. CASE ContextDone
      BY <1>5, EndIsInit DEF ContextDone
<1>6. ASSUME NEW i \in Ids, Fire(i) PROVE TypeOK'
      BY <1>6 DEF Fire
<1>7. ASSUME NEW f \in jobs, JobStops(f) \/ JobGivesUp(f) \/ JobEnds(f) PROVE TypeOK'
  <2>1. f \in Specs /\ f.id \in Containers
        BY DEF Specs
  <2>2. CASE JobStops(f)
        BY <2>1, <2>2 DEF JobStops, SetState, Misses, Hidden
  <2>3. CASE JobGivesUp(f)
        BY <2>1, <2>3 DEF JobGivesUp, SetState, Misses, Hidden
  <2>4. CASE JobEnds(f)
        BY <2>1, <2>4 DEF JobEnds, SetState
  <2> QED BY <1>7, <2>2, <2>3, <2>4
<1>8. ASSUME NEW c \in Containers, Remove(c) \/ Stop(c) \/ Start(c) \/ EditExcludes(c)
      PROVE TypeOK'
      BY <1>8 DEF Remove, Stop, Start, EditExcludes, Changed, SetState, Misses, Hidden, exists
<1>9. ASSUME NEW c \in Containers, NEW n \in Names, Create(c, n) \/ Rename(c, n)
      PROVE TypeOK'
      BY <1>9 DEF Create, Rename, Changed, SetState, Misses, exists
<1>10. CASE UNCHANGED vars
      BY <1>10 DEF vars
<1> QED
    BY <1>1, <1>2, <1>3, <1>4, <1>5, <1>6, <1>7, <1>8, <1>9, <1>10 DEF Next

-------------------------------------------------------------------------------
(* Nothing of a pass is done before the first.                             *)
LEMMA PassProgressInit == Init => PassProgress
BY DEF Init, PassProgress, Valid

(* A step that leaves the pass, its place and the entries alone.           *)
LEMMA PassUntouched ==
    ASSUME PassProgress, UNCHANGED <<pass, entries>>,
           pc' = pc \/ (pc \in {"wait", "ended"} /\ pc' = "list")
    PROVE  PassProgress'
BY DEF PassProgress, pass, Valid, Scheduled

(* Every step keeps what a pass has done and has still to do.              *)
LEMMA PassProgressStep == TypeOK /\ PassProgress /\ [Next]_vars => PassProgress'
<1> SUFFICES ASSUME TypeOK, PassProgress, [Next]_vars PROVE PassProgress'
    OBVIOUS
<1> USE DEF pass
<1>1. CASE Discover
  <2>1. CASE List
        BY <2>1 DEF List, PassProgress, Valid, Scheduled
  <2>2. CASE Discovered
        BY <2>2 DEF Discovered, PassProgress, Valid, Scheduled
  <2>3. CASE DiscoveryFails
        BY <2>3, EndIsInit DEF DiscoveryFails
  <2>4. ASSUME NEW c \in Containers, Inspect(c) PROVE PassProgress'
        BY <2>4 DEF Inspect, PassProgress, Valid, Scheduled
  <2> QED BY <1>1, <2>1, <2>2, <2>3, <2>4 DEF Discover
<1>2. CASE Pass
  <2>1. CASE Reconciled
        BY <2>1 DEF Reconciled, PassProgress, Valid, Scheduled
  <2>2. CASE PassDone
        BY <2>2 DEF PassDone, PassProgress, Valid, Scheduled
  <2>3. ASSUME NEW f \in left, Reconcile(f) PROVE PassProgress'
    <3>1. f \in Specs /\ Key(f) \in Keys
          BY KeyIn DEF TypeOK
    <3>2. pc = "reconcile" /\ pc' = pc /\ found' = found /\ left' = left \ {f}
          BY <2>3 DEF Reconcile
    <3>3. Valid' = Valid
          BY <3>2 DEF Valid
    <3>4. current' = {Key(g) : g \in Valid \ left}  \cup {Key(f)}
          BY <2>3, <3>2 DEF Reconcile, PassProgress
    <3>5. Valid \ left' = (Valid \ left) \cup {f}
          BY <3>2 DEF PassProgress
    <3>6. current' = {Key(g) : g \in Valid' \ left'}
          BY <3>3, <3>4, <3>5
    <3>7. current' \subseteq Scheduled'
      <4>1. \A k \in Keys : entries[k] # 0 \/ k = Key(f) => entries'[k] # 0
            BY <2>3, <3>1 DEF Reconcile, TypeOK, Ids
      <4>2. current' = current \cup {Key(f)} /\ current \subseteq Scheduled
            BY <2>3, <3>2 DEF Reconcile, PassProgress
      <4> QED BY <3>1, <4>1, <4>2 DEF Scheduled
    <3> QED BY <3>2, <3>3, <3>6, <3>7 DEF PassProgress
  <2>4. ASSUME NEW f \in left, ExcludeFileFails(f) PROVE PassProgress'
        BY <2>4, EndIsInit DEF ExcludeFileFails
  <2>5. ASSUME NEW k \in Keys, Drop(k) PROVE PassProgress'
    <3>1. pc = "drop" /\ pc' = pc /\ UNCHANGED <<found, left, current>> /\ k \notin current
          BY <2>5 DEF Drop
    <3>2. \A l \in Keys : l # k => entries'[l] = entries[l]
          BY <2>5 DEF Drop, TypeOK
    <3> QED BY <3>1, <3>2 DEF PassProgress, Valid, Scheduled
  <2> QED BY <1>2, <2>1, <2>2, <2>3, <2>4, <2>5 DEF Pass
<1>3. CASE Once
      BY <1>3, EndIsInit DEF Once, ScanDone, BackUp, BackUpFails, PassProgress, Valid
<1>4. CASE Tick \/ Signal \/ Restart
      BY <1>4, PassUntouched DEF Tick, Signal, Restart
<1>5. CASE ContextDone
      BY <1>5, EndIsInit DEF ContextDone
<1>6. ASSUME NEW i \in Ids, Fire(i) PROVE PassProgress'
      BY <1>6, PassUntouched DEF Fire
<1>7. ASSUME NEW f \in jobs, JobStops(f) \/ JobGivesUp(f) \/ JobEnds(f) PROVE PassProgress'
      BY <1>7, PassUntouched DEF JobStops, JobGivesUp, JobEnds
<1>8. ASSUME NEW c \in Containers, Remove(c) \/ Stop(c) \/ Start(c) \/ EditExcludes(c)
      PROVE PassProgress'
      BY <1>8, PassUntouched DEF Remove, Stop, Start, EditExcludes, Changed
<1>9. ASSUME NEW c \in Containers, NEW n \in Names, Create(c, n) \/ Rename(c, n)
      PROVE PassProgress'
      BY <1>9, PassUntouched DEF Create, Rename, Changed
<1>10. CASE UNCHANGED vars
      BY <1>10, PassUntouched DEF vars
<1> QED
    BY <1>1, <1>2, <1>3, <1>4, <1>5, <1>6, <1>7, <1>8, <1>9, <1>10 DEF Next

(* The variables keep their types, whatever Docker, the files, cron and    *)
(* the passes do.                                                          *)
THEOREM TypeCorrect == Spec => []TypeOK
<1>1. Spec => [](TypeOK /\ PassProgress)
      BY TypeOKInit, TypeOKStep, PassProgressInit, PassProgressStep, PTL DEF Spec
<1> QED BY <1>1, PTL

(* The inductive invariant of the pass.                                    *)
THEOREM PassInvariant == Spec => []PassProgress
<1>1. Spec => [](TypeOK /\ PassProgress)
      BY TypeOKInit, TypeOKStep, PassProgressInit, PassProgressStep, PTL DEF Spec
<1> QED BY <1>1, PTL

(* Between two passes the keys with an entry are those of the containers   *)
(* the last pass found (daemon.go:165-170).                                *)
THEOREM Scheduling == Spec => []ScheduleIsWhatWasFound
<1>1. PassProgress => ScheduleIsWhatWasFound
      BY DEF PassProgress, ScheduleIsWhatWasFound
<1> QED BY <1>1, PassInvariant, PTL

-------------------------------------------------------------------------------
(* At the start the map and cron's table are empty.                        *)
LEMMA EntriesInit == Init => EntriesMatchCron
BY DEF Init, EntriesMatchCron, NoEntries, EmptyCron, Scheduled

(* A new entry, and one removed, are so in both.                           *)
LEMMA EntriesStep == TypeOK /\ EntriesMatchCron /\ [Next]_vars => EntriesMatchCron'
<1> SUFFICES ASSUME TypeOK, EntriesMatchCron, [Next]_vars PROVE EntriesMatchCron'
    OBVIOUS
<1>1. CASE UNCHANGED <<entries, cron>>
      BY <1>1 DEF EntriesMatchCron, Scheduled
<1>2. ASSUME NEW f \in left, Reconcile(f), entries[Key(f)] = 0 PROVE EntriesMatchCron'
  <2>1. f \in Specs /\ Key(f) \in Keys
        BY KeyIn DEF TypeOK
  <2>2. PICK i \in Ids :
            /\ cron[i] = Nothing
            /\ entries[Key(f)] = 0
            /\ entries' = [entries EXCEPT ![Key(f)] = i]
            /\ cron' = [cron EXCEPT ![i] = f]
        BY <1>2 DEF Reconcile, NextId
  <2>3. /\ \A k \in Keys : entries'[k] = IF k = Key(f) THEN i ELSE entries[k]
        /\ \A j \in Ids : cron'[j] = IF j = i THEN f ELSE cron[j]
        BY <2>1, <2>2 DEF TypeOK
  <2>4. i # 0 /\ f # Nothing
        BY <2>1 DEF Ids
  <2>5. ASSUME NEW k \in Scheduled'
        PROVE  cron'[entries'[k]] # Nothing /\ Key(cron'[entries'[k]]) = k
    <3>1. CASE k = Key(f)
          BY <2>3, <2>4, <3>1 DEF Scheduled
    <3>2. CASE k # Key(f)
      <4>1. k \in Scheduled /\ entries'[k] = entries[k] /\ entries[k] \in Ids
            BY <2>3, <3>2 DEF Scheduled, TypeOK
      <4>2. entries[k] # i
            BY <2>2, <4>1 DEF EntriesMatchCron
      <4> QED BY <2>3, <4>1, <4>2 DEF EntriesMatchCron
    <3> QED BY <3>1, <3>2
  <2>6. ASSUME NEW j \in Ids, cron'[j] # Nothing
        PROVE  entries'[Key(cron'[j])] = j
    <3>1. CASE j = i
          BY <2>1, <2>3, <3>1
    <3>2. CASE j # i
      <4>1. cron'[j] = cron[j] /\ cron[j] \in Specs
            BY <2>3, <2>6, <3>2 DEF TypeOK
      <4>2. entries[Key(cron[j])] = j /\ j # 0
            BY <2>6, <4>1 DEF EntriesMatchCron, Ids
      <4>3. Key(cron[j]) # Key(f) /\ Key(cron[j]) \in Keys
            BY <2>2, <4>1, <4>2, KeyIn
      <4> QED BY <2>3, <4>1, <4>2, <4>3
    <3> QED BY <3>1, <3>2
  <2> QED BY <2>5, <2>6 DEF EntriesMatchCron
<1>3. ASSUME NEW k \in Keys, Drop(k) PROVE EntriesMatchCron'
  <2>1. entries[k] \in Ids /\ k \in Scheduled
        BY <1>3 DEF Drop, TypeOK, Scheduled
  <2>2. /\ \A l \in Keys : entries'[l] = IF l = k THEN 0 ELSE entries[l]
        /\ \A j \in Ids : cron'[j] = IF j = entries[k] THEN Nothing ELSE cron[j]
        BY <1>3, <2>1 DEF Drop, TypeOK
  <2>3. ASSUME NEW l \in Scheduled'
        PROVE  cron'[entries'[l]] # Nothing /\ Key(cron'[entries'[l]]) = l
    <3>1. l # k /\ l \in Scheduled /\ entries'[l] = entries[l] /\ entries[l] \in Ids
          BY <2>2 DEF Scheduled, TypeOK
    <3>2. entries[l] # entries[k]
          BY <2>1, <3>1 DEF EntriesMatchCron
    <3> QED BY <2>2, <3>1, <3>2 DEF EntriesMatchCron
  <2>4. ASSUME NEW j \in Ids, cron'[j] # Nothing
        PROVE  entries'[Key(cron'[j])] = j
    <3>1. j # entries[k] /\ cron'[j] = cron[j] /\ cron[j] \in Specs
          BY <2>2, <2>4 DEF TypeOK
    <3>2. entries[Key(cron[j])] = j /\ Key(cron[j]) \in Keys
          BY <2>4, <3>1, KeyIn DEF EntriesMatchCron
    <3> QED BY <2>2, <3>1, <3>2
  <2> QED BY <2>3, <2>4 DEF EntriesMatchCron
<1>4. CASE End
      BY <1>4, EndIsInit
<1>5. ASSUME ~End, \A f \in left : Reconcile(f) => entries[Key(f)] # 0, \A k \in Keys : ~Drop(k)
      PROVE  UNCHANGED <<entries, cron>>
      BY <1>5 DEF Next, vars, Discover, Pass, Once, List, Discovered, DiscoveryFails, Inspect,
         Reconcile, Reconciled, PassDone, ExcludeFileFails, ScanDone, BackUp, BackUpFails, Tick,
         ContextDone, Signal, Restart, Fire, JobStops, JobGivesUp, JobEnds, Create, Remove, Stop, Start,
         Rename, EditExcludes, Changed
<1> QED BY <1>1, <1>2, <1>3, <1>4, <1>5

(* The map of the daemon's loop and cron's table never drift apart         *)
(* (daemon.go:157-170).                                                    *)
THEOREM EntriesAgree == Spec => []EntriesMatchCron
<1> QED BY TypeCorrect, EntriesInit, EntriesStep, PTL DEF Spec

-------------------------------------------------------------------------------
(* Keys of two specifications of one container and name are one key.       *)
LEMMA SeenKey ==
    ASSUME TypeOK, NEW c \in Containers, name'[c] = name[c]
    PROVE  Key(Seen(c)') = Key(Seen(c)) /\ Key(Seen(c))' = Key(Seen(c))
BY DEF Key, Seen, AppName

(* At the start no pass is under way.                                      *)
LEMMA PassSeesInit == Init => PassSeesAll
BY DEF Init, PassSeesAll, NoEntries, Scheduled

(* A step that touches neither the pass nor the names.                     *)
LEMMA SightUntouched ==
    ASSUME TypeOK, PassSeesAll, UNCHANGED <<name, pass, entries, absent>>,
           pc' = pc \/ pc' \notin {"inspect", "reconcile", "drop"}
    PROVE  PassSeesAll'
<1>1. \A c \in Containers : Met(c)' <=> Met(c)
      BY SeenKey DEF Met, pass
<1> QED BY <1>1 DEF PassSeesAll, pass, Scheduled

(* Docker changes one container, which the pass may now miss unless it     *)
(* keeps its name.                                                         *)
LEMMA SightKept ==
    ASSUME TypeOK, PassSeesAll, NEW c \in Containers, UNCHANGED <<pc, pass, entries>>,
           pc \in {"inspect", "reconcile", "drop"} =>
               /\ absent \subseteq absent'
               /\ \A d \in Containers \ absent' : name'[d] = name[d]
    PROVE  PassSeesAll'
<1>1. pc \in {"inspect", "reconcile", "drop"} =>
          \A d \in Containers \ absent' : Met(d) => Met(d)'
      BY SeenKey DEF Met, pass
<1> QED BY <1>1 DEF PassSeesAll, pass, Scheduled

(* Every step of a pass meets what was there all the time.                 *)
LEMMA PassSeesStep == TypeOK /\ PassProgress /\ PassSeesAll /\ [Next]_vars => PassSeesAll'
<1> SUFFICES ASSUME TypeOK, PassProgress, PassSeesAll, [Next]_vars PROVE PassSeesAll'
    OBVIOUS
<1>1. CASE Discover
  <2>1. CASE List
        BY <2>1 DEF List, PassSeesAll, Scheduled
  <2>2. CASE Discovered
    <3>1. UNCHANGED <<name, found, entries, absent>> /\ pc = "inspect" /\ todo = {} /\ pc' \in {"scan", "reconcile"}
          BY <2>2 DEF Discovered, docker
    <3>2. \A c \in Containers : Met(c)' <=> Met(c)
          BY <3>1, SeenKey DEF Met
    <3> QED BY <3>1, <3>2 DEF PassSeesAll, Scheduled
  <2>3. CASE DiscoveryFails
        BY <2>3, EndIsInit DEF DiscoveryFails
  <2>4. ASSUME NEW c \in Containers, Inspect(c) PROVE PassSeesAll'
    <3>1. /\ UNCHANGED <<pc, name, entries, absent>>
          /\ pc = "inspect" /\ todo' = todo \ {c} /\ found' = found \cup {Seen(c)}
          BY <2>4 DEF Inspect, docker
    <3>2. \A d \in Containers : Met(d) => Met(d)'
          BY <3>1, SeenKey DEF Met
    <3>3. Met(c)'
          BY <3>1, SeenKey DEF Met
    <3> QED BY <3>1, <3>2, <3>3 DEF PassSeesAll, Scheduled
  <2> QED BY <1>1, <2>1, <2>2, <2>3, <2>4 DEF Discover
<1>2. CASE Pass
  <2>1. CASE Reconciled
    <3>1. UNCHANGED <<name, found, entries, absent>>
          BY <2>1 DEF Reconciled, docker, pass
    <3>2. \A c \in Containers : Met(c)' <=> Met(c)
          BY <3>1, SeenKey DEF Met
    <3> QED BY <2>1, <3>1, <3>2 DEF Reconciled, PassSeesAll, Scheduled
  <2>2. ASSUME NEW f \in left, Reconcile(f) PROVE PassSeesAll'
    <3>1. f \in Specs /\ Key(f) \in Keys /\ Key(f)[1] = f.id /\ f.id \notin Invalid
          BY KeyIn DEF TypeOK, PassProgress, Valid
    <3>2. UNCHANGED <<pc, name, found, absent>> /\ pc = "reconcile"
          BY <2>2 DEF Reconcile, docker
    <3>3. \A c \in Containers : Met(c)' <=> Met(c)
          BY <3>2, SeenKey DEF Met
    <3>4. Scheduled' \subseteq Scheduled \cup {Key(f)}
          BY <2>2, <3>1 DEF Reconcile, Scheduled, TypeOK
    <3> QED BY <3>1, <3>2, <3>3, <3>4 DEF PassSeesAll
  <2>3. ASSUME NEW f \in left, ExcludeFileFails(f) PROVE PassSeesAll'
        BY <2>3, EndIsInit DEF ExcludeFileFails
  <2>4. ASSUME NEW k \in Keys, Drop(k) PROVE PassSeesAll'
    <3>1. UNCHANGED <<pc, name, found, absent>> /\ pc = "drop"
          BY <2>4 DEF Drop, docker, pass
    <3>2. \A c \in Containers : Met(c)' <=> Met(c)
          BY <3>1, SeenKey DEF Met
    <3>3. Scheduled' \subseteq Scheduled
          BY <2>4 DEF Drop, Scheduled, TypeOK
    <3> QED BY <3>1, <3>2, <3>3 DEF PassSeesAll
  <2>5. CASE PassDone
        BY <2>5 DEF PassDone, PassSeesAll, Scheduled
  <2> QED BY <1>2, <2>1, <2>2, <2>3, <2>4, <2>5 DEF Pass
<1>3. CASE Once
      BY <1>3, EndIsInit DEF Once, ScanDone, BackUp, BackUpFails, PassSeesAll, Scheduled
<1>4. CASE Tick \/ Signal \/ Restart
      BY <1>4, SightUntouched DEF Tick, Signal, Restart, docker
<1>5. CASE ContextDone
      BY <1>5, EndIsInit DEF ContextDone
<1>6. ASSUME NEW i \in Ids, Fire(i) PROVE PassSeesAll'
      BY <1>6, SightUntouched DEF Fire, docker
<1>7. ASSUME NEW f \in jobs, JobStops(f) \/ JobGivesUp(f) \/ JobEnds(f) PROVE PassSeesAll'
  <2>1. f.id \in Containers
        BY DEF TypeOK, Specs
  <2> QED BY <1>7, <2>1, SightKept DEF JobStops, JobGivesUp, JobEnds, Misses
<1>8. ASSUME NEW c \in Containers, Remove(c) \/ Stop(c) \/ Start(c) \/ EditExcludes(c)
      PROVE PassSeesAll'
      BY <1>8, SightKept DEF Remove, Stop, Start, EditExcludes, Changed, Misses
<1>9. ASSUME NEW c \in Containers, NEW n \in Names, Create(c, n) \/ Rename(c, n)
      PROVE PassSeesAll'
  <2>1. pc \in {"inspect", "reconcile", "drop"} =>
            /\ absent \subseteq absent'
            /\ \A d \in Containers \ absent' : name'[d] = name[d]
        BY <1>9 DEF Create, Rename, Changed, Misses, TypeOK
  <2> QED BY <1>9, <2>1, SightKept DEF Create, Rename, Changed
<1>10. CASE UNCHANGED vars
      BY <1>10, SightUntouched DEF vars, docker
<1> QED
    BY <1>1, <1>2, <1>3, <1>4, <1>5, <1>6, <1>7, <1>8, <1>9, <1>10 DEF Next

(* A pass takes no entry away from a container that could be discovered,   *)
(* under the name in the key, from its list to its end (daemon.go:148-170).*)
THEOREM EntriesStay == Spec => NoEntryLost
<1> DEFINE Kept(k) == entries[k] # 0 /\ entries'[k] # entries[k] =>
                          k[1] \in absent \/ k # Key(Seen(k[1])) \/ pc' = "ended"
<1>1. ASSUME TypeOK, PassProgress, PassSeesAll, [Next]_vars, NEW k \in Keys
      PROVE  Kept(k)
  <2> SUFFICES ASSUME TypeOK, PassProgress, PassSeesAll, [Next]_vars,
                      entries[k] # 0, entries'[k] # entries[k],
                      k[1] \notin absent, k = Key(Seen(k[1])), pc' # "ended"
               PROVE  FALSE
      BY <1>1
  <2>1. CASE Drop(k)
    <3>1. pc = "drop" /\ k \notin current /\ k[1] \in Containers \ Invalid
          BY <2>1 DEF Drop, PassSeesAll, Scheduled, Keys
    <3>2. PICK f \in found : Key(f) = k
          BY <3>1 DEF PassSeesAll, Met
    <3>3. f \in Specs /\ f.id = k[1]
          BY <3>2, KeyIn DEF TypeOK
    <3>4. f \in Valid \ left
          BY <3>1, <3>3 DEF Valid, PassProgress
    <3> QED BY <3>1, <3>2, <3>4 DEF PassProgress
  <2>2. ASSUME NEW f \in left, Reconcile(f) PROVE FALSE
    <3>1. Key(f) \in Keys
          BY KeyIn DEF TypeOK
    <3> QED BY <2>2, <3>1 DEF Reconcile, TypeOK
  <2>3. ASSUME NEW l \in Keys, Drop(l), l # k PROVE FALSE
        BY <2>3 DEF Drop, TypeOK
  <2>4. ASSUME ~End, \A f \in left : ~Reconcile(f), \A l \in Keys : ~Drop(l)
        PROVE  entries' = entries
        BY <2>4 DEF Next, vars, Discover, Pass, Once, List, Discovered, DiscoveryFails, Inspect,
           Reconciled, PassDone, ExcludeFileFails, ScanDone, BackUp, BackUpFails, Tick, ContextDone,
           Signal, Restart, Fire, JobStops, JobGivesUp, JobEnds, Create, Remove, Stop, Start, Rename,
           EditExcludes, Changed
  <2> QED BY <2>1, <2>2, <2>3, <2>4 DEF End
<1>2. TypeOK /\ PassProgress /\ PassSeesAll /\ [Next]_vars => [\A k \in Keys : Kept(k)]_vars
      BY <1>1
<1>3. Spec => [](TypeOK /\ PassProgress /\ PassSeesAll)
  <2>1. Spec => []PassSeesAll
        BY TypeCorrect, PassInvariant, PassSeesInit, PassSeesStep, PTL DEF Spec
  <2> QED BY <2>1, TypeCorrect, PassInvariant, PTL
<1> QED BY <1>2, <1>3, PTL DEF Spec, NoEntryLost
===============================================================================
