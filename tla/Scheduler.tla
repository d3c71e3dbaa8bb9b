------------------------------- MODULE Scheduler -------------------------------
(***************************************************************************)
(* internal/daemon/daemon.go: RunScheduler and reconcileSchedules, and     *)
(* RunOnce, which shares their discovery.  A pass takes Docker's list of   *)
(* labelled containers, inspects them one by one, gives every valid one a  *)
(* cron entry if its schedule key has none, and removes the entries whose  *)
(* key the pass did not meet.  Containers come, go, stop, start and are    *)
(* renamed between any two steps; cron fires whenever it likes.            *)
(*                                                                         *)
(* The jobs are those of BackupRestore, with what the passes see of them:  *)
(* a container that is stopped for its backup and started again.           *)
(***************************************************************************)
EXTENDS Naturals, FiniteSets

CONSTANTS
    Containers,     \* the labelled containers that ever exist, by ID
    Names,          \* container names
    Invalid,        \* those whose labels or mounts do not parse
    Labeled,        \* those with a volust.name label
    Stops,          \* those to be stopped before their backup
    IncludeStopped, \* VOLUST_INCLUDE_STOPPED_CONTAINERS
    Modes,          \* how volust daemon is started: "daemon", "once"
    MaxEntries,     \* cron entries at one time
    MaxChanges,     \* changes in Docker and on disk
    CallsFail,      \* a call to Docker may fail for no reason modelled here
    Nothing         \* no cron entry

ASSUME SchedulerAssumption ==
    /\ Invalid \subseteq Containers /\ Labeled \subseteq Containers
    /\ Stops \subseteq Containers
    /\ IncludeStopped \in BOOLEAN /\ CallsFail \in BOOLEAN
    /\ Modes \subseteq {"daemon", "once"}
    /\ MaxEntries \in Nat /\ MaxChanges \in Nat

(* What is kept of a BackupSpec: the container's ID, its name and whether  *)
(* it ran when it was inspected.                                           *)
Specs == [id : Containers, container : Names, running : BOOLEAN]
Ids == 1 .. MaxEntries

ASSUME NothingAssumption == Nothing \notin Specs

(* scheduleKey: the other parts of the key never change for a container.   *)
AppNames == Names \cup Labeled
AppName(f) == IF f.id \in Labeled THEN f.id ELSE f.container
Key(f) == <<f.id, AppName(f)>>
Keys == Containers \X AppNames

VARIABLES
    state,        \* Docker: "new" before it is created, "up", "down", "gone"
    name,         \* name[c]: the name of container c
    unreadable,   \* the containers whose exclude file cannot be read
    changes,      \* how often the three above have changed
    mode,         \* how the process was started
    pc,           \* what it does next
    cancelled,    \* SIGINT or SIGTERM arrived
    todo,         \* listed and not yet inspected
    found,        \* inspected, as specifications
    left,         \* the found ones not yet handled
    current,      \* the keys this pass met
    entries,      \* entries[k]: the cron entry of key k, 0 for none
    cron,         \* cron[i]: what cron entry i runs
    started,      \* the cron scheduler runs
    jobs,         \* the specifications whose job, which will stop its
                  \* container, has been fired and has not ended
    stopped,      \* those of them whose job has stopped its container
    absent        \* the containers a pass may miss: at some moment since it
                  \* began they could not be discovered, or were renamed

docker == <<state, name, unreadable, changes>>
pass == <<todo, found, left, current>>
running == <<jobs, stopped>>
vars == <<docker, mode, pc, cancelled, pass, entries, cron, started, running, absent>>

(* The daemon's progress, its entries and Docker's state keep their types. *)
TypeOK ==
    /\ state \in [Containers -> {"new", "up", "down", "gone"}]
    /\ name \in [Containers -> Names]
    /\ unreadable \subseteq Containers
    /\ changes \in 0 .. MaxChanges
    /\ mode \in Modes
    /\ pc \in {"list", "inspect", "reconcile", "drop", "wait", "scan", "ended"}
    /\ cancelled \in BOOLEAN /\ started \in BOOLEAN
    /\ todo \subseteq Containers
    /\ found \subseteq Specs /\ left \subseteq found
    /\ current \subseteq Keys
    /\ entries \in [Keys -> Ids \cup {0}]
    /\ cron \in [Ids -> Specs \cup {Nothing}]
    /\ jobs \subseteq Specs /\ stopped \subseteq jobs
    /\ absent \subseteq Containers

exists == {c \in Containers : state[c] \in {"up", "down"}}
Discoverable(c) == c \in exists /\ (IncludeStopped \/ state[c] = "up")

(* Docker gives a name to one container at a time.                         *)
Free(n) == \A c \in exists : name[c] # n

NoEntries == [k \in Keys |-> 0]
EmptyCron == [i \in Ids |-> Nothing]

Init ==
    /\ state \in [Containers -> {"new", "up", "down"}]
    /\ name \in [Containers -> Names]
    /\ \A c, d \in exists : name[c] = name[d] => c = d
    /\ unreadable \in SUBSET (Containers \ Invalid)
    /\ changes = 0
    /\ mode \in Modes
    /\ pc = "list"
    /\ cancelled = FALSE /\ started = FALSE
    /\ todo = {} /\ found = {} /\ left = {} /\ current = {}
    /\ entries = NoEntries /\ cron = EmptyCron
    /\ jobs = {} /\ stopped = {}
    /\ absent = {}

-------------------------------------------------------------------------------
(* ListContainers: the list, with its status filter.                       *)
List ==
    /\ pc = "list"
    /\ pc' = "inspect"
    /\ todo' = {c \in Containers : Discoverable(c)}
    /\ found' = {} /\ current' = {}
    /\ absent' = {c \in Containers : ~Discoverable(c)}
    /\ UNCHANGED <<docker, mode, cancelled, left, entries, cron, started, running>>

Seen(c) == [id |-> c, container |-> name[c], running |-> state[c] = "up"]

Inspect(c) ==
    /\ pc = "inspect"
    /\ c \in todo \cap exists
    /\ todo' = todo \ {c}
    /\ found' = found \cup {Seen(c)}
    /\ UNCHANGED <<docker, mode, pc, cancelled, left, current, entries, cron, started, running, absent>>

(* The specifications that parse; the others are counted as skipped.       *)
Valid == {f \in found : f.id \notin Invalid}

Discovered ==
    /\ pc = "inspect"
    /\ todo = {}
    /\ pc' = IF mode = "once" THEN "scan" ELSE "reconcile"
    /\ left' = Valid
    /\ UNCHANGED <<docker, mode, cancelled, todo, found, current, entries, cron, started, running, absent>>

(* The process returns: deferred scheduler.Stop waits for no job, and the  *)
(* jobs end with the process, wherever they are.                           *)
End ==
    /\ pc' = "ended"
    /\ cancelled' = FALSE /\ started' = FALSE
    /\ todo' = {} /\ found' = {} /\ left' = {} /\ current' = {}
    /\ entries' = NoEntries /\ cron' = EmptyCron
    /\ jobs' = {} /\ stopped' = {}
    /\ absent' = {}
    /\ UNCHANGED <<docker, mode>>

(* A call fails: Docker no longer knows a container it listed, the context *)
(* is cancelled, or any other error.                                       *)
DiscoveryFails ==
    /\ pc \in {"list", "inspect"}
    /\ todo \ exists # {} \/ cancelled \/ CallsFail
    /\ End

(* cron numbers its entries on and on; here the first free number is next. *)
NextId(i) == cron[i] = Nothing /\ \A k \in Ids : k < i => cron[k] # Nothing

(* Mutant: a key that has its entry already is not noted as met.           *)
BugOnlyNewAreMet(f) ==
    /\ pc = "reconcile"
    /\ f \in left
    /\ f.id \notin unreadable
    /\ left' = left \ {f}
    /\ \/ /\ entries[Key(f)] # 0
          /\ UNCHANGED <<current, entries, cron>>
       \/ /\ entries[Key(f)] = 0
          /\ current' = current \cup {Key(f)}
          /\ \E i \in Ids :
                /\ NextId(i)
                /\ entries' = [entries EXCEPT ![Key(f)] = i]
                /\ cron' = [cron EXCEPT ![i] = f]
    /\ UNCHANGED <<docker, mode, pc, cancelled, todo, found, started, running, absent>>

(* reconcileSchedules, one container: LoadExcludeFiles, then a cron entry  *)
(* for a new key; the entry keeps the specification of this moment.        *)
Reconcile(f) ==
    /\ pc = "reconcile"
    /\ f \in left
    /\ f.id \notin unreadable
    /\ left' = left \ {f}
    /\ current' = current \cup {Key(f)}
    /\ \/ /\ entries[Key(f)] # 0
          /\ UNCHANGED <<entries, cron>>
       \/ /\ entries[Key(f)] = 0
          /\ \E i \in Ids :
                /\ NextId(i)
                /\ entries' = [entries EXCEPT ![Key(f)] = i]
                /\ cron' = [cron EXCEPT ![i] = f]
    /\ UNCHANGED <<docker, mode, pc, cancelled, todo, found, started, running, absent>>

ExcludeFileFails(f) ==
    /\ pc \in {"reconcile", "scan"}
    /\ f \in left
    /\ f.id \in unreadable
    /\ End

(* Mutant: the pass ends at the first container that has its entry.        *)
BugEndsAtKnown ==
    /\ pc = "reconcile"
    /\ left = {} \/ \E f \in found : Key(f) \in current
    /\ pc' = "drop"
    /\ UNCHANGED <<docker, mode, cancelled, pass, entries, cron, started, running, absent>>

Reconciled ==
    /\ pc = "reconcile"
    /\ left = {}
    /\ pc' = "drop"
    /\ UNCHANGED <<docker, mode, cancelled, pass, entries, cron, started, running, absent>>

(* Mutant: the entry leaves the map and stays in cron.                     *)
BugStaysInCron(k) ==
    /\ pc = "drop"
    /\ entries[k] # 0
    /\ k \notin current
    /\ entries' = [entries EXCEPT ![k] = 0]
    /\ UNCHANGED <<docker, mode, pc, cancelled, pass, cron, started, running, absent>>

(* Mutant: the entry leaves cron and stays in the map.                     *)
BugStaysInMap(k) ==
    /\ pc = "drop"
    /\ entries[k] # 0
    /\ k \notin current
    /\ cron' = [cron EXCEPT ![entries[k]] = Nothing]
    /\ pc' = "wait"
    /\ UNCHANGED <<docker, mode, cancelled, pass, entries, started, running, absent>>

Drop(k) ==
    /\ pc = "drop"
    /\ entries[k] # 0
    /\ k \notin current
    /\ cron' = [cron EXCEPT ![entries[k]] = Nothing]
    /\ entries' = [entries EXCEPT ![k] = 0]
    /\ UNCHANGED <<docker, mode, pc, cancelled, pass, started, running, absent>>

Scheduled == {k \in Keys : entries[k] # 0}

(* Mutant: a pass only adds.                                               *)
BugOnlyAdds ==
    /\ pc = "drop"
    /\ pc' = "wait"
    /\ started' = TRUE
    /\ absent' = {}
    /\ UNCHANGED <<docker, mode, cancelled, pass, entries, cron, running>>

PassDone ==
    /\ pc = "drop"
    /\ Scheduled \subseteq current
    /\ pc' = "wait"
    /\ started' = TRUE
    /\ absent' = {}
    /\ UNCHANGED <<docker, mode, cancelled, pass, entries, cron, running>>

Tick ==
    /\ pc = "wait"
    /\ pc' = "list"
    /\ UNCHANGED <<docker, mode, cancelled, pass, entries, cron, started, running, absent>>

ContextDone ==
    /\ pc = "wait" /\ cancelled
    /\ End

Hidden(c) == IF IncludeStopped THEN {} ELSE {c}
Misses(gone) ==
    absent' = IF pc \in {"inspect", "reconcile", "drop"} THEN absent \cup gone ELSE absent

(* cron starts the job of an entry.  One that stops nothing                *)
(* (shouldStopBeforeBackup) is no matter here; of those that wait for a    *)
(* job of their own specification the first stands for all.                *)
Fire(i) ==
    /\ started
    /\ cron[i] # Nothing
    /\ cron[i].running /\ cron[i].id \in Stops
    /\ jobs' = jobs \cup {cron[i]}
    /\ UNCHANGED <<docker, mode, pc, cancelled, pass, entries, cron, started, stopped, absent>>

SetState(c, new) == state' = [state EXCEPT ![c] = new]

(* StopContainer, under the container's lock.                              *)
JobStops(f) ==
    /\ f \in jobs
    /\ \A g \in stopped : g.id # f.id
    /\ state[f.id] = "up"
    /\ SetState(f.id, "down")
    /\ stopped' = stopped \cup {f}
    /\ Misses(Hidden(f.id))
    /\ UNCHANGED <<name, unreadable, changes, mode, pc, cancelled, pass, entries, cron, started, jobs>>

(* A lock's timeout, or an error of the stop, which may have happened.     *)
JobGivesUp(f) ==
    /\ f \in jobs \ stopped
    /\ jobs' = jobs \ {f}
    /\ \/ UNCHANGED <<state, absent>>
       \/ CallsFail /\ state[f.id] = "up" /\ SetState(f.id, "down") /\ Misses(Hidden(f.id))
    /\ UNCHANGED <<name, unreadable, changes, mode, pc, cancelled, pass, entries, cron, started, stopped>>

(* restartBackupContainer.                                                 *)
JobEnds(f) ==
    /\ f \in stopped
    /\ jobs' = jobs \ {f} /\ stopped' = stopped \ {f}
    /\ \/ state[f.id] = "down" /\ SetState(f.id, "up")
       \/ (state[f.id] # "down" \/ CallsFail) /\ UNCHANGED state
    /\ UNCHANGED <<name, unreadable, changes, mode, pc, cancelled, pass, entries, cron, started, absent>>

-------------------------------------------------------------------------------
(* RunOnce: the backups of the found containers, one after the other; the  *)
(* first error is returned at once.                                        *)
BackUp(f) ==
    /\ pc = "scan"
    /\ f \in left
    /\ f.id \notin unreadable
    /\ left' = left \ {f}
    /\ UNCHANGED <<docker, mode, pc, cancelled, todo, found, current, entries, cron, started, running, absent>>

BackUpFails(f) ==
    /\ pc = "scan"
    /\ f \in left
    /\ End

ScanDone ==
    /\ pc = "scan"
    /\ left = {}
    /\ End

-------------------------------------------------------------------------------
Signal ==
    /\ mode = "daemon" /\ pc # "ended"
    /\ ~cancelled
    /\ cancelled' = TRUE
    /\ UNCHANGED <<docker, mode, pc, pass, entries, cron, started, running, absent>>

(* The daemon's container is started again, by its restart policy.         *)
Restart ==
    /\ mode = "daemon" /\ pc = "ended"
    /\ pc' = "list"
    /\ UNCHANGED <<docker, mode, cancelled, pass, entries, cron, started, running, absent>>

(* Docker and the exclude directory change under the daemon.               *)
Changed(gone) ==
    /\ changes < MaxChanges
    /\ changes' = changes + 1
    /\ Misses(gone)
    /\ UNCHANGED <<mode, pc, cancelled, pass, entries, cron, started, running>>

Create(c, n) ==
    /\ state[c] = "new" /\ Free(n)
    /\ SetState(c, "up")
    /\ name' = [name EXCEPT ![c] = n]
    /\ Changed({c})
    /\ UNCHANGED unreadable

Remove(c) ==
    /\ c \in exists
    /\ SetState(c, "gone")
    /\ Changed({c})
    /\ UNCHANGED <<name, unreadable>>

Stop(c) ==
    /\ state[c] = "up"
    /\ SetState(c, "down")
    /\ Changed(Hidden(c))
    /\ UNCHANGED <<name, unreadable>>

Start(c) ==
    /\ state[c] = "down"
    /\ SetState(c, "up")
    /\ Changed({})
    /\ UNCHANGED <<name, unreadable>>

Rename(c, n) ==
    /\ c \in exists /\ Free(n)
    /\ name' = [name EXCEPT ![c] = n]
    /\ Changed({c})
    /\ UNCHANGED <<state, unreadable>>

EditExcludes(c) ==
    /\ c \notin Invalid
    /\ unreadable' = IF c \in unreadable THEN unreadable \ {c} ELSE unreadable \cup {c}
    /\ Changed({})
    /\ UNCHANGED <<state, name>>

-------------------------------------------------------------------------------
Discover == List \/ Discovered \/ DiscoveryFails \/ \E c \in Containers : Inspect(c)
Pass ==
    \/ Reconciled \/ PassDone
    \/ \E f \in left : Reconcile(f) \/ ExcludeFileFails(f)
    \/ \E k \in Keys : Drop(k)
Once == ScanDone \/ \E f \in left : BackUp(f) \/ BackUpFails(f)

Next ==
    \/ Discover \/ Pass \/ Once \/ Tick \/ ContextDone \/ Signal \/ Restart
    \/ \E i \in Ids : Fire(i)
    \/ \E f \in jobs : JobStops(f) \/ JobGivesUp(f) \/ JobEnds(f)
    \/ \E c \in Containers : Remove(c) \/ Stop(c) \/ Start(c) \/ EditExcludes(c)
    \/ \E c \in Containers, n \in Names : Create(c, n) \/ Rename(c, n)

(* The daemon's loop goes on, its ticker ticks, a job that stopped its     *)
(* container ends, and Docker starts the daemon again when it has ended    *)
(* (restart: unless-stopped).                                              *)
Fairness ==
    /\ WF_vars(Discover \/ Pass \/ Tick) /\ WF_vars(ContextDone) /\ WF_vars(Restart)
    /\ \A f \in Specs : WF_vars(JobEnds(f))

Spec == Init /\ [][Next]_vars
FairSpec == Spec /\ Fairness

-------------------------------------------------------------------------------
(* The map in the daemon's loop and cron's own table never drift apart: no *)
(* entry that nothing can remove any more, no key whose entry runs another *)
(* container's backup (daemon.go:157-170).                                 *)
EntriesMatchCron ==
    /\ \A k \in Scheduled : cron[entries[k]] # Nothing /\ Key(cron[entries[k]]) = k
    /\ \A i \in Ids : cron[i] # Nothing => entries[Key(cron[i])] = i

(* Between two passes the schedule is what the last pass found, no more    *)
(* and no less (daemon.go:165-170).                                        *)
ScheduleIsWhatWasFound ==
    pc = "wait" => Scheduled = {Key(f) : f \in Valid}

(* What makes it inductive: what a pass has still to do.                   *)
PassProgress ==
    /\ left \subseteq Valid
    /\ pc \in {"list", "inspect", "drop", "wait", "ended"} => left = {}
    /\ pc = "inspect" => current = {}
    /\ pc \in {"reconcile", "drop", "wait"} =>
          current = {Key(f) : f \in Valid \ left} /\ current \subseteq Scheduled
    /\ pc = "wait" => Scheduled \subseteq current

(* Where a pass has got with a container that was there all the time.      *)
Met(c) == \E f \in found : Key(f) = Key(Seen(c))

PassSeesAll ==
    /\ pc = "inspect" => \A c \in Containers \ absent : c \in todo \/ Met(c)
    /\ pc \in {"reconcile", "drop"} => \A c \in Containers \ absent : Met(c)
    /\ \A k \in Scheduled : k[1] \notin Invalid

(* A pass takes no entry away from a container that could be discovered,   *)
(* under the name in the key, from its list to its end (daemon.go:148-170).*)
NoEntryLost ==
    [][\A k \in Keys : entries[k] # 0 /\ entries'[k] # entries[k] =>
          k[1] \in absent \/ k # Key(Seen(k[1])) \/ pc' = "ended"]_vars

InCron(c) == \E i \in Ids : cron[i] # Nothing /\ cron[i].id = c
Goes == mode = "daemon" /\ pc # "ended"

(* What stays in Docker gets its schedule, and what has left loses it,     *)
(* unless the daemon ends again and again (daemon.go:114-129).             *)
Converges ==
    \A c \in Containers \ Invalid :
        /\ <>[](Goes /\ Discoverable(c)) => <>[]InCron(c)
        /\ <>[](Goes /\ ~Discoverable(c)) => <>[]~InCron(c)

(* A container that its own backups stop and start is dropped by the       *)
(* passes that do not find it, but it comes back: its backups never end    *)
(* for good (daemon.go:166).                                               *)
Comes(c) == Discoverable(c) \/ \E f \in stopped : f.id = c /\ state[c] = "down"

Rescheduled ==
    \A c \in Containers \ Invalid : <>[](Goes /\ Comes(c)) => []<>InCron(c)

(* README.md:209: Volust "automatically starts it again after the worker   *)
(* exits".                                                                 *)
StartedAgain == \A f \in Specs : f \in stopped ~> state[f.id] # "down"
================================================================================
