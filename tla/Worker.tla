-------------------------------- MODULE Worker --------------------------------
(***************************************************************************)
(* internal/docker/runtime.go: one call of runWorker, which creates a      *)
(* worker container, starts it, runs the commands of a WorkerSpec in it    *)
(* one after the other (execWorkerCommand) and removes it, through Docker, *)
(* whose containers and execs go on by themselves.                         *)
(*                                                                         *)
(* BackupRestore has this call as the steps of its action Work; Implements *)
(* below says so.                                                          *)
(***************************************************************************)
EXTENDS Naturals, Sequences

CONSTANTS
    WorkerSpecs, \* the workers that may be run, each with its commands
    Env          \* what may happen, see Hazards

Hazards == {"docker", "signal", "crash", "others", "early"}

(* Every caller passes at least one command.                               *)
ASSUME WorkerAssumption ==
    /\ \A w \in WorkerSpecs : Len(w.commands) \in Nat \ {0}
    /\ Env \subseteq Hazards

VARIABLES
    worker,    \* the WorkerSpec
    pc,        \* which call runWorker makes next
    step,      \* the command it is at
    result,    \* what it returns: "none" yet, "ok" or "error"
    cancelled, \* its context is cancelled
    box,       \* Docker: the worker container
    exec,      \* exec[i]: Docker: the exec of command i
    unread,    \* the commands whose exit code was read before it was known
    refused    \* Docker refused to remove the worker (history)

vars == <<worker, pc, step, result, cancelled, box, exec, unread, refused>>
docker == <<box, exec>>
history == <<unread, refused>>

Commands == 1 .. Len(worker.commands)
Boxes == {"none", "created", "leaked", "up", "down", "removed"}
Execs == {"none", "created", "running", "ok", "bad", "killed"}

(* The call's progress, the container and its execs keep their types.      *)
TypeOK ==
    /\ worker \in WorkerSpecs
    /\ pc \in {"create", "start", "exec", "run", "wait", "inspect", "remove", "returned", "dead"}
    /\ step \in Commands
    /\ result \in {"none", "ok", "error"}
    /\ cancelled \in BOOLEAN /\ refused \in BOOLEAN
    /\ box \in Boxes
    /\ exec \in [Commands -> Execs]
    /\ unread \subseteq Commands

Init ==
    /\ worker \in WorkerSpecs
    /\ pc = "create"
    /\ step = 1
    /\ result = "none"
    /\ cancelled = FALSE /\ refused = FALSE
    /\ box = "none"
    /\ exec = [i \in Commands |-> "none"]
    /\ unread = {}

(* raw, doJSON: a call fails with the context, with the connection or with *)
(* an error status; Docker may have done all the same what it was asked.   *)
CallFails == "docker" \in Env \/ cancelled

GoTo(from, to) == pc = from /\ pc' = to

Aborts(from) ==
    /\ GoTo(from, "remove")
    /\ result' = "error"
    /\ UNCHANGED <<worker, step, cancelled, history>>

(* The container goes down: its commands are killed.                       *)
Killed == [i \in Commands |-> IF exec[i] = "running" THEN "killed" ELSE exec[i]]

-------------------------------------------------------------------------------
Create ==
    /\ GoTo("create", "start")
    /\ box' = "created"
    /\ UNCHANGED <<worker, step, result, cancelled, exec, history>>

(* Nothing is removed: the removal is deferred once the ID is known.  A    *)
(* worker that nobody will start or remove has leaked.                     *)
CreateFails ==
    /\ CallFails
    /\ GoTo("create", "returned")
    /\ box' \in {"none", "leaked"}
    /\ result' = "error"
    /\ UNCHANGED <<worker, step, cancelled, exec, history>>

StartWorker ==
    /\ GoTo("start", "exec")
    /\ box' = "up"
    /\ UNCHANGED <<worker, step, result, cancelled, exec, history>>

(* Mutant: the removal is deferred after the start.                        *)
BugStartLeaves ==
    /\ CallFails
    /\ GoTo("start", "returned")
    /\ result' = "error"
    /\ box' \in {"created", "up"}
    /\ UNCHANGED <<worker, step, cancelled, exec, history>>

StartFails ==
    /\ CallFails
    /\ Aborts("start")
    /\ box' \in {"created", "up"}
    /\ UNCHANGED exec

CreateExec ==
    /\ box = "up"
    /\ GoTo("exec", "run")
    /\ exec' = [exec EXCEPT ![step] = "created"]
    /\ UNCHANGED <<worker, step, result, cancelled, box, history>>

CreateExecFails ==
    /\ box # "up" \/ CallFails
    /\ Aborts("exec")
    /\ UNCHANGED docker

StartExec ==
    /\ box = "up"
    /\ GoTo("run", "wait")
    /\ exec' = [exec EXCEPT ![step] = "running"]
    /\ UNCHANGED <<worker, step, result, cancelled, box, history>>

StartExecFails ==
    /\ Aborts("run")
    /\ \/ (box # "up" \/ CallFails) /\ UNCHANGED exec
       \/ box = "up" /\ CallFails /\ exec' = [exec EXCEPT ![step] = "running"]
    /\ UNCHANGED box

(* The output is read to its end.                                          *)
StreamEnds ==
    /\ exec[step] # "running" \/ "early" \in Env
    /\ GoTo("wait", "inspect")
    /\ UNCHANGED <<worker, step, result, cancelled, docker, history>>

WaitFails ==
    /\ "docker" \in Env
    /\ Aborts("wait")
    /\ UNCHANGED docker

(* Mutant: the output is read without the context.                         *)
BugWaitsOn == FALSE /\ UNCHANGED vars

(* The command goes on in the worker.                                      *)
WaitCancelled ==
    /\ cancelled
    /\ Aborts("wait")
    /\ UNCHANGED docker

(* Mutant: another command after the last one.                             *)
BugOneTooMany ==
    /\ UNCHANGED <<worker, cancelled, docker, history, result>>
    /\ step <= Len(worker.commands)
    /\ GoTo("inspect", "exec")
    /\ step' = step + 1

Advance ==
    /\ unread' = IF exec[step] = "running" THEN unread \cup {step} ELSE unread
    /\ \/ /\ step < Len(worker.commands)
          /\ GoTo("inspect", "exec")
          /\ step' = step + 1
          /\ UNCHANGED result
       \/ /\ step = Len(worker.commands)
          /\ GoTo("inspect", "remove")
          /\ result' = "ok"
          /\ UNCHANGED step
    /\ UNCHANGED <<worker, cancelled, docker, refused>>

(* Mutant: the exit code is not looked at.                                 *)
BugExitCodeIgnored == pc = "inspect" /\ Advance

(* ExitCode is 0; so it is decoded too while Docker has none to tell, of   *)
(* which the answer's Running would warn.                                  *)
Inspect ==
    /\ exec[step] \in {"ok", "running"}
    /\ Advance

InspectFails ==
    /\ exec[step] \in {"bad", "killed"} \/ box # "up" \/ CallFails
    /\ Aborts("inspect")
    /\ UNCHANGED docker

(* Mutant: the removal uses the job's context.                             *)
BugRemoveCancelled ==
    /\ GoTo("remove", "returned")
    /\ box' = IF cancelled THEN box ELSE "removed"
    /\ exec' = IF cancelled THEN exec ELSE Killed
    /\ UNCHANGED <<worker, step, result, cancelled, history>>

(* removeContainer: by force, with a context of its own, result ignored.   *)
Remove ==
    /\ GoTo("remove", "returned")
    /\ box' = "removed"
    /\ exec' = Killed
    /\ UNCHANGED <<worker, step, result, cancelled, history>>

RemoveFails ==
    /\ "docker" \in Env
    /\ GoTo("remove", "returned")
    /\ refused' = TRUE
    /\ UNCHANGED <<worker, step, result, cancelled, docker, unread>>

-------------------------------------------------------------------------------
(* A command ends in the worker.                                           *)
Exit(i) ==
    /\ exec[i] = "running"
    /\ \E code \in {"ok", "bad"} : exec' = [exec EXCEPT ![i] = code]
    /\ UNCHANGED <<worker, pc, step, result, cancelled, box, history>>

(* A restore of another application stops and starts the worker.           *)
OthersStop ==
    /\ "others" \in Env
    /\ box = "up"
    /\ box' = "down"
    /\ exec' = Killed
    /\ UNCHANGED <<worker, pc, step, result, cancelled, history>>

OthersStart ==
    /\ "others" \in Env
    /\ box = "down"
    /\ box' = "up"
    /\ UNCHANGED <<worker, pc, step, result, cancelled, exec, history>>

Returned == pc \in {"returned", "dead"}

Cancel ==
    /\ "signal" \in Env
    /\ ~cancelled /\ ~Returned
    /\ cancelled' = TRUE
    /\ UNCHANGED <<worker, pc, step, result, docker, history>>

(* The process that called runWorker dies.                                 *)
Crash ==
    /\ "crash" \in Env
    /\ ~Returned
    /\ pc' = "dead"
    /\ box' = IF box = "created" /\ pc = "start" THEN "leaked" ELSE box
    /\ UNCHANGED <<worker, step, result, cancelled, exec, history>>

-------------------------------------------------------------------------------
Answers ==
    \/ Create \/ CreateFails \/ StartWorker \/ StartFails
    \/ CreateExec \/ CreateExecFails \/ StartExec \/ StartExecFails
    \/ WaitCancelled \/ Inspect \/ InspectFails
    \/ Remove \/ RemoveFails

Next ==
    \/ Answers \/ StreamEnds \/ WaitFails
    \/ \E i \in Commands : Exit(i)
    \/ OthersStop \/ OthersStart \/ Cancel \/ Crash

(* Docker answers and ends the output of a command that ended, a cancelled *)
(* context ends a wait; nothing says that a command ever ends.             *)
Fairness == WF_vars(Answers) /\ WF_vars(exec[step] # "running" /\ StreamEnds)

Spec == Init /\ [][Next]_vars
FairSpec == Spec /\ Fairness

-------------------------------------------------------------------------------
Succeeded(i) == exec[i] = "ok" \/ i \in unread

(* No command begins before all the ones before it have succeeded: a       *)
(* restore never syncs over the volume after a failed safety backup or a   *)
(* failed restic, a backup never forgets after it failed; and success      *)
(* means that all of them have succeeded, whatever happened to the worker  *)
(* meanwhile (runtime.go:113-124).                                         *)
InOrder ==
    /\ \A i, k \in Commands : exec[i] # "none" /\ k < i => Succeeded(k)
    /\ result = "ok" => \A i \in Commands : Succeeded(i)

(* When runWorker has returned, with whatever result, no command of it     *)
(* goes on and its container is gone, unless Docker refused the removal;   *)
(* or it was never started, and the answer to its creation was lost        *)
(* (runtime.go:108).                                                       *)
CleanedUp ==
    pc = "returned" /\ ~refused =>
        /\ box \in {"none", "leaked", "removed"}
        /\ \A i \in Commands : exec[i] # "running"

(* What makes them inductive.                                              *)
Progress ==
    /\ pc = "create" => box = "none"
    /\ pc = "start" => box = "created"
    /\ pc \in {"create", "start"} => step = 1
    /\ pc \in {"create", "start", "exec"} => exec[step] = "none"
    /\ \A i \in Commands : i > step => exec[i] = "none"
    /\ \A i \in Commands : i < step => Succeeded(i)
    /\ \A i \in Commands : exec[i] = "running" => box = "up"
    /\ pc \in {"create", "start", "exec", "run", "wait", "inspect"} => result = "none"
    /\ pc = "run" => exec[step] = "created"
    /\ pc \in {"wait", "inspect"} => exec[step] \notin {"none", "created"}
    /\ result = "ok" => step = Len(worker.commands) /\ Succeeded(step)

(* Only a command that runs on for ever, under a context that nobody       *)
(* cancels, keeps runWorker, and with it the locks of its job              *)
(* (runtime.go:138).                                                       *)
OnlyCommandsBlock ==
    \/ <>Returned
    \/ <>[](pc = "wait" /\ exec[step] = "running" /\ ~cancelled)

-------------------------------------------------------------------------------
(* The call as BackupRestore has it: one job, whose phases from "create"   *)
(* to "start" are this call, and of whose locks and containers it knows    *)
(* nothing.                                                                *)
Job == "job"
Proc == "process"
Known == pc \notin {"create", "start"} /\ box \in {"created", "up", "down"}
Empty == [x \in {} |-> x]

Phase ==
    CASE pc \in {"create", "start"} -> "create"
      [] pc = "remove" -> "remove"
      [] pc = "returned" -> "start"
      [] pc = "dead" -> "dead"
      [] OTHER -> "work"

BR == INSTANCE BackupRestore WITH
    Jobs <- {Job}, Containers <- {}, Volumes <- {}, Procs <- {Proc}, Repos <- {},
    Backends <- {}, Nobody <- "nobody", Restores <- {}, StopMode <- {}, Daemons <- {Proc},
    ProcOf <- [j \in {Job} |-> Proc], RepoOf <- Empty, BackendOf <- Empty, Limit <- Empty,
    ContainerOf <- Empty, SourcesOf <- Empty, MountsOf <- Empty, IncludeStopped <- FALSE,
    phase <- [j \in {Job} |-> Phase],
    up <- IF Known /\ box = "up" THEN {Job} ELSE {},
    workers <- IF Known THEN {Job} ELSE {},
    err <- IF result = "error" THEN {Job} ELSE {},
    signalled <- IF cancelled /\ pc # "dead" THEN {Proc} ELSE {},
    lock <- Empty, slots <- Empty, seen <- {}, todo <- Empty, stopped <- Empty,
    downBy <- Empty, lost <- Empty

(* Every step of the call is one that BackupRestore allows a job between   *)
(* its locks and the restart of its containers, or none that it can see    *)
(* (daemon.go:247-257, app.go:556-563).                                    *)
ImplementsWork ==
    [][\/ BR!Work(Job) \/ BR!Signal(Proc) \/ BR!Crash(Proc)
       \/ OthersStop \/ OthersStart]_BR!vars
===============================================================================
