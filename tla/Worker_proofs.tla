----------------------------- MODULE Worker_proofs -----------------------------
(***************************************************************************)
(* Worker for any commands and whatever may happen: the type invariant;    *)
(* commands run in order, each after the success of all before it; a call  *)
(* that returns leaves nothing behind; and the call implements the action  *)
(* Work of BackupRestore.                                                  *)
(***************************************************************************)
EXTENDS Worker, TLAPS

USE WorkerAssumption

-------------------------------------------------------------------------------
(* There is a first command.                                               *)
LEMMA FirstCommand ==
    ASSUME worker \in WorkerSpecs
    PROVE  Len(worker.commands) \in Nat /\ 1 \in Commands
BY DEF Commands

(* What a stopped container does to its commands keeps their type.         *)
LEMMA KilledType ==
    ASSUME exec \in [Commands -> Execs]
    PROVE  /\ Killed \in [Commands -> Execs]
           /\ \A i \in Commands : Killed[i] # "running"
           /\ \A i \in Commands : Killed[i] = exec[i] \/ (exec[i] = "running" /\ Killed[i] = "killed")
BY DEF Killed, Execs

(* The call starts with every variable in its type.                        *)
LEMMA TypeOKInit == Init => TypeOK
BY FirstCommand DEF Init, TypeOK, Boxes, Execs

(* A call to Docker keeps the types.                                       *)
LEMMA TypeOKCalls ==
    TypeOK /\ (Answers \/ StreamEnds \/ WaitFails) => TypeOK'
<1> SUFFICES ASSUME TypeOK, Answers \/ StreamEnds \/ WaitFails PROVE TypeOK'
    OBVIOUS
<1>0. worker' = worker /\ Commands' = Commands /\ Len(worker.commands) \in Nat
      BY FirstCommand DEF Commands, TypeOK, Answers, Create, CreateFails, StartWorker, StartFails,
         CreateExec, CreateExecFails, StartExec, StartExecFails, WaitCancelled, Inspect, InspectFails,
         Remove, RemoveFails, StreamEnds, WaitFails, Advance, Aborts, GoTo
<1> USE <1>0 DEF TypeOK, GoTo, Aborts, docker, history, Boxes
<1>1. CASE Create \/ CreateFails \/ StartWorker \/ StartFails
      BY <1>1 DEF Create, CreateFails, StartWorker, StartFails
<1>2. CASE CreateExec \/ StartExec
      BY <1>2 DEF CreateExec, StartExec, Execs
<1>3. CASE CreateExecFails \/ StartExecFails
      BY <1>3 DEF CreateExecFails, StartExecFails, Execs
<1>4. CASE StreamEnds \/ WaitFails \/ WaitCancelled \/ InspectFails
      BY <1>4 DEF StreamEnds, WaitFails, WaitCancelled, InspectFails
<1>5. CASE Inspect
  <2>1. unread' \subseteq Commands
        BY <1>5 DEF Inspect, Advance
  <2>2. step' \in Commands
        BY <1>5 DEF Inspect, Advance, Commands
  <2> QED BY <1>5, <2>1, <2>2 DEF Inspect, Advance
<1>6. CASE Remove
      BY <1>6, KilledType DEF Remove
<1>7. CASE RemoveFails
      BY <1>7 DEF RemoveFails
<1> QED BY <1>1, <1>2, <1>3, <1>4, <1>5, <1>6, <1>7 DEF Answers

(* So does everything else.                                                *)
LEMMA TypeOKStep == TypeOK /\ [Next]_vars => TypeOK'
<1> SUFFICES ASSUME TypeOK, [Next]_vars PROVE TypeOK'
    OBVIOUS
<1> USE DEF TypeOK, Commands, history, docker
<1>1. CASE Answers \/ StreamEnds \/ WaitFails
      BY <1>1, TypeOKCalls
<1>2. ASSUME NEW i \in Commands, Exit(i) PROVE TypeOK'
      BY <1>2 DEF Exit, Execs
<1>3. CASE OthersStop
      BY <1>3, KilledType DEF OthersStop, Boxes
<1>4. CASE OthersStart \/ Cancel
      BY <1>4 DEF OthersStart, Cancel, Boxes
<1>5. CASE Crash
      BY <1>5 DEF Crash, Boxes
<1>6. CASE UNCHANGED vars
      BY <1>6 DEF vars
<1> QED BY <1>1, <1>2, <1>3, <1>4, <1>5, <1>6 DEF Next

-------------------------------------------------------------------------------
(* Nothing has been done before the first call.                            *)
LEMMA ProgressInit == Init => Progress
BY FirstCommand DEF Init, Progress, Commands

(* No command that has succeeded, or has begun, is undone.                 *)
LEMMA StillSucceeded ==
    ASSUME TypeOK, NEW i \in Commands, Succeeded(i), unread \subseteq unread',
           exec'[i] = exec[i] \/ exec[i] = "running"
    PROVE  Succeeded(i)'
BY DEF Succeeded

(* A call to Docker keeps the progress.                                    *)
LEMMA ProgressCalls ==
    TypeOK /\ Progress /\ (Answers \/ StreamEnds \/ WaitFails) => Progress'
<1> SUFFICES ASSUME TypeOK, Progress, Answers \/ StreamEnds \/ WaitFails PROVE Progress'
    OBVIOUS
<1>0. worker' = worker /\ Commands' = Commands /\ step \in Commands /\ Commands \subseteq Nat
      BY FirstCommand DEF Commands, TypeOK, Answers, Create, CreateFails, StartWorker, StartFails,
         CreateExec, CreateExecFails, StartExec, StartExecFails, WaitCancelled, Inspect, InspectFails,
         Remove, RemoveFails, StreamEnds, WaitFails, Advance, Aborts, GoTo
<1> USE <1>0 DEF GoTo, Aborts, docker, history
<1>1. CASE Create \/ CreateFails \/ StartWorker \/ StartFails
      BY <1>1 DEF Create, CreateFails, StartWorker, StartFails, Progress, Succeeded
<1>2. CASE CreateExec \/ StartExec
  <2>1. \A i \in Commands : i # step => exec'[i] = exec[i]
        BY <1>2 DEF CreateExec, StartExec, TypeOK
  <2>2. exec'[step] = (IF CreateExec THEN "created" ELSE "running")
        BY <1>2 DEF CreateExec, StartExec, TypeOK
  <2> QED BY <1>2, <2>1, <2>2 DEF CreateExec, StartExec, Progress, Succeeded
<1>3. CASE CreateExecFails \/ StartExecFails
  <2>1. \A i \in Commands : i # step => exec'[i] = exec[i]
        BY <1>3 DEF CreateExecFails, StartExecFails, TypeOK
  <2>2. exec'[step] = exec[step] \/ (exec'[step] = "running" /\ box = "up")
        BY <1>3 DEF CreateExecFails, StartExecFails, TypeOK
  <2> QED BY <1>3, <2>1, <2>2 DEF CreateExecFails, StartExecFails, Progress, Succeeded
<1>4. CASE StreamEnds \/ WaitFails \/ WaitCancelled \/ InspectFails
      BY <1>4 DEF StreamEnds, WaitFails, WaitCancelled, InspectFails, Progress, Succeeded
<1>5. CASE Inspect
  <2>1. /\ UNCHANGED <<exec, box>> /\ unread \subseteq unread'
        /\ exec[step] = "ok" \/ step \in unread'
        BY <1>5 DEF Inspect, Advance
  <2>2. pc = "inspect" /\ result = "none"
        BY <1>5 DEF Inspect, Advance, Progress
  <2>3. \A i \in Commands : i < step \/ i = step => Succeeded(i)'
        BY <2>1 DEF Progress, Succeeded
  <2>4. \A i \in Commands : i > step => exec'[i] = "none"
        BY <2>1 DEF Progress
  <2>5. \A i \in Commands : exec'[i] = "running" => box' = "up"
        BY <2>1 DEF Progress
  <2>6. CASE step' = step + 1 /\ pc' = "exec" /\ step < Len(worker.commands) /\ result' = result
    <3>1. step' \in Commands /\ step' > step
          BY <2>6, FirstCommand DEF Commands, TypeOK
    <3>2. \A i \in Commands : i < step' => i < step \/ i = step
          BY <2>6
    <3>3. \A i \in Commands : i > step' => i > step
          BY <2>6
    <3> QED BY <2>2, <2>3, <2>4, <2>5, <2>6, <3>1, <3>2, <3>3 DEF Progress
  <2>7. CASE step' = step /\ pc' = "remove" /\ step = Len(worker.commands)
        BY <2>2, <2>3, <2>4, <2>5, <2>7 DEF Progress
  <2> QED BY <1>5, <2>6, <2>7 DEF Inspect, Advance
<1>6. CASE Remove
  <2>1. \A i \in Commands : Succeeded(i) => Succeeded(i)'
        BY <1>6, KilledType, StillSucceeded DEF Remove, TypeOK
  <2> QED BY <1>6, <2>1, KilledType DEF Remove, Progress, TypeOK
<1>7. CASE RemoveFails
      BY <1>7 DEF RemoveFails, Progress, Succeeded
<1> QED BY <1>1, <1>2, <1>3, <1>4, <1>5, <1>6, <1>7 DEF Answers

(* So does everything else.                                                *)
LEMMA ProgressStep == TypeOK /\ Progress /\ [Next]_vars => Progress'
<1> SUFFICES ASSUME TypeOK, Progress, [Next]_vars PROVE Progress'
    OBVIOUS
<1> USE DEF history, docker
<1>1. CASE Answers \/ StreamEnds \/ WaitFails
      BY <1>1, ProgressCalls
<1>2. ASSUME NEW i \in Commands, Exit(i) PROVE Progress'
  <2>1. \A k \in Commands : k # i => exec'[k] = exec[k]
        BY <1>2 DEF Exit, TypeOK
  <2>2. exec[i] = "running" /\ exec'[i] \in {"ok", "bad"}
        BY <1>2 DEF Exit, TypeOK
  <2>3. \A k \in Commands : Succeeded(k) => Succeeded(k)'
        BY <1>2, <2>1, StillSucceeded DEF Exit, TypeOK, Commands
  <2> QED BY <1>2, <2>1, <2>2, <2>3 DEF Exit, Progress, Commands, TypeOK
<1>3. CASE OthersStop
  <2>1. \A i \in Commands : Succeeded(i) => Succeeded(i)'
        BY <1>3, KilledType, StillSucceeded DEF OthersStop, TypeOK, Commands
  <2> QED BY <1>3, <2>1, KilledType DEF OthersStop, Progress, TypeOK, Commands
<1>4. CASE OthersStart \/ Cancel \/ Crash
      BY <1>4 DEF OthersStart, Cancel, Crash, Returned, Progress, Succeeded, Commands
<1>5. CASE UNCHANGED vars
      BY <1>5 DEF vars, Progress, Succeeded, Commands
<1> QED BY <1>1, <1>2, <1>3, <1>4, <1>5 DEF Next

(* The variables of a call keep their types, and its progress is what its  *)
(* place says.                                                             *)
THEOREM TypeCorrect == Spec => [](TypeOK /\ Progress)
<1> QED BY TypeOKInit, TypeOKStep, ProgressInit, ProgressStep, PTL DEF Spec

(* Commands run in order, each after the success of all before it          *)
(* (runtime.go:113-124).                                                   *)
THEOREM Ordered == Spec => []InOrder
<1>1. TypeOK /\ Progress => InOrder
  <2> SUFFICES ASSUME TypeOK, Progress PROVE InOrder
      OBVIOUS
  <2>0. step \in Commands /\ Commands = 1 .. Len(worker.commands) /\ Len(worker.commands) \in Nat
        BY FirstCommand DEF TypeOK, Commands
  <2>1. \A i, k \in Commands : exec[i] # "none" /\ k < i => Succeeded(k)
        BY <2>0 DEF Progress
  <2>2. result = "ok" => \A i \in Commands : Succeeded(i)
        BY <2>0 DEF Progress
  <2> QED BY <2>1, <2>2 DEF InOrder
<1> QED BY <1>1, TypeCorrect, PTL

-------------------------------------------------------------------------------
(* Whatever is done to the worker after the call has returned: there is    *)
(* nothing left of it.                                                     *)
LEMMA CleanedUpStep == TypeOK /\ Progress /\ CleanedUp /\ [Next]_vars => CleanedUp'
<1> SUFFICES ASSUME TypeOK, Progress, CleanedUp, [Next]_vars, pc' = "returned", ~refused'
             PROVE  /\ box' \in {"none", "leaked", "removed"}
                    /\ \A i \in Commands' : exec'[i] # "running"
    BY DEF CleanedUp
<1> USE DEF history, docker, GoTo, Aborts
<1>1. CASE CreateFails
      BY <1>1 DEF CreateFails, Progress, Commands
<1>2. CASE Remove
      BY <1>2, KilledType DEF Remove, TypeOK, Commands
<1>3. ASSUME NEW i \in Commands, Exit(i) PROVE FALSE
      BY <1>3 DEF Exit, CleanedUp
<1>4. CASE OthersStop \/ OthersStart
      BY <1>4 DEF OthersStop, OthersStart, CleanedUp
<1>5. CASE UNCHANGED vars
      BY <1>5 DEF vars, CleanedUp, Commands
<1>6. ASSUME ~CreateFails, ~Remove, Next, \A i \in Commands : ~Exit(i), ~OthersStop, ~OthersStart
      PROVE  FALSE
      BY <1>6 DEF Next, Answers, Create, StartWorker, StartFails, CreateExec, CreateExecFails,
         StartExec, StartExecFails, WaitCancelled, Inspect, InspectFails, RemoveFails, StreamEnds,
         WaitFails, Advance, Cancel, Crash, Returned
<1> QED BY <1>1, <1>2, <1>3, <1>4, <1>5, <1>6

(* A call that has returned leaves no command running and no worker that   *)
(* was started, unless Docker refused the removal (runtime.go:108).        *)
THEOREM NothingLeft == Spec => []CleanedUp
<1>1. Init => CleanedUp
      BY DEF Init, CleanedUp
<1> QED BY <1>1, TypeCorrect, CleanedUpStep, PTL DEF Spec

-------------------------------------------------------------------------------
(* What the call is to its job, spelled out: the values of the variables   *)
(* of BackupRestore that it changes.                                       *)
Ups == IF Known /\ box = "up" THEN {Job} ELSE {}
Workers == IF Known THEN {Job} ELSE {}
Errs == IF result = "error" THEN {Job} ELSE {}
Signals == IF cancelled /\ pc # "dead" THEN {Proc} ELSE {}
Seen == <<[j \in {Job} |-> Phase], Ups, Workers, Errs, Signals>>

Allowed == BR!Work(Job) \/ BR!Signal(Proc) \/ BR!Crash(Proc) \/ OthersStop \/ OthersStart

(* A step that changes none of them is none of the job's business.         *)
LEMMA Unseen == UNCHANGED Seen => UNCHANGED BR!vars
BY DEF Seen, Ups, Workers, Errs, Signals, BR!vars, Empty

(* A phase of the job is that of the call.                                 *)
LEMMA Moves ==
    ASSUME NEW from, NEW to, Phase = from, Phase' = to
    PROVE  BR!GoTo(Job, from, to)
BY DEF BR!GoTo

(* A step that returns an error is a step that fails.                      *)
LEMMA FailsIn ==
    ASSUME NEW from, NEW to, Phase = from, Phase' = to, result' = "error"
    PROVE  BR!Fails(Job, from, to)
BY Moves DEF BR!Fails, Job

(* The calls before the first command.                                     *)
LEMMA CreationImplements ==
    Progress /\ (Create \/ CreateFails \/ StartWorker \/ StartFails) =>
        Allowed \/ UNCHANGED BR!vars
<1> SUFFICES ASSUME Progress, Create \/ CreateFails \/ StartWorker \/ StartFails
             PROVE  Allowed \/ UNCHANGED BR!vars
    OBVIOUS
<1> USE DEF GoTo, Aborts
<1>1. CASE Create
  <2>1. UNCHANGED Seen
        BY <1>1 DEF Create, Seen, Phase, Ups, Workers, Errs, Signals, Known
  <2> QED BY <2>1, Unseen
<1>2. CASE CreateFails
  <2>1. BR!Fails(Job, "create", "start")
        BY <1>2, FailsIn DEF CreateFails, Phase
  <2>2. UNCHANGED <<Ups, Workers, Signals>> /\ Ups = {} /\ Workers = {}
        BY <1>2 DEF CreateFails, Ups, Workers, Signals, Known
  <2>3. BR!CallFails(Job)
        BY <1>2 DEF CreateFails, CallFails, BR!CallFails, Job, Proc
  <2>4. BR!CreateFails(Job)
        BY <2>1, <2>2, <2>3 DEF BR!CreateFails, BR!held, BR!plan, Ups, Workers, Signals, Empty
  <2> QED BY <2>4 DEF Allowed, BR!Work
<1>3. CASE StartWorker
  <2>1. BR!GoTo(Job, "create", "work")
        BY <1>3, Moves DEF StartWorker, Phase
  <2>2. Ups' = Ups \cup {Job} /\ Workers' = Workers \cup {Job} /\ UNCHANGED <<Errs, Signals>>
        BY <1>3 DEF StartWorker, Ups, Workers, Errs, Signals, Known
  <2>3. BR!CreateWorker(Job)
        BY <2>1, <2>2 DEF BR!CreateWorker, BR!held, BR!plan, Ups, Workers, Errs, Signals, Empty
  <2> QED BY <2>3 DEF Allowed, BR!Work
<1>4. CASE StartFails
  <2>1. BR!Fails(Job, "create", "remove")
        BY <1>4, FailsIn DEF StartFails, Phase
  <2>2. Ups' \in {Ups, Ups \cup {Job}} /\ Workers' = Workers \cup {Job} /\ UNCHANGED Signals
        BY <1>4 DEF StartFails, Ups, Workers, Signals, Known
  <2>3. BR!CallFails(Job)
        BY <1>4 DEF StartFails, CallFails, BR!CallFails, Job, Proc
  <2>4. BR!CreateFails(Job)
        BY <2>1, <2>2, <2>3 DEF BR!CreateFails, BR!held, BR!plan, Ups, Workers, Signals, Empty
  <2> QED BY <2>4 DEF Allowed, BR!Work
<1> QED BY <1>1, <1>2, <1>3, <1>4

(* The commands and the removal.                                           *)
LEMMA WorkImplements ==
    Progress /\ (Answers \/ StreamEnds \/ WaitFails) => Allowed \/ UNCHANGED BR!vars
<1> SUFFICES ASSUME Progress, Answers \/ StreamEnds \/ WaitFails
             PROVE  Allowed \/ UNCHANGED BR!vars
    OBVIOUS
<1> USE DEF GoTo, Aborts, docker
<1>1. CASE CreateExec \/ StartExec \/ StreamEnds
  <2>1. UNCHANGED Seen
        BY <1>1 DEF CreateExec, StartExec, StreamEnds, Seen, Phase, Ups, Workers, Errs, Signals, Known
  <2> QED BY <2>1, Unseen
<1>2. CASE CreateExecFails \/ StartExecFails \/ WaitFails \/ WaitCancelled \/ InspectFails
  <2>1. BR!Fails(Job, "work", "remove")
        BY <1>2, FailsIn DEF CreateExecFails, StartExecFails, WaitFails, WaitCancelled, InspectFails, Phase
  <2>2. UNCHANGED <<Ups, Workers, Signals>>
        BY <1>2 DEF CreateExecFails, StartExecFails, WaitFails, WaitCancelled, InspectFails,
           Ups, Workers, Signals, Known
  <2>3. BR!WorkFails(Job)
        BY <2>1, <2>2 DEF BR!WorkFails, BR!held, BR!docker, BR!plan, Ups, Workers, Signals, Empty
  <2> QED BY <2>3 DEF Allowed, BR!Work
<1>3. CASE Inspect /\ pc' = "exec"
  <2>1. UNCHANGED Seen
        BY <1>3 DEF Inspect, Advance, Seen, Phase, Ups, Workers, Errs, Signals, Known
  <2> QED BY <2>1, Unseen
<1>4. CASE Inspect /\ pc' = "remove"
  <2>1. BR!GoTo(Job, "work", "remove")
        BY <1>4, Moves DEF Inspect, Advance, Phase
  <2>2. UNCHANGED <<Ups, Workers, Errs, Signals>>
        BY <1>4 DEF Inspect, Advance, Progress, Ups, Workers, Errs, Signals, Known
  <2>3. BR!WorkSucceeds(Job)
        BY <2>1, <2>2 DEF BR!WorkSucceeds, BR!held, BR!docker, BR!plan, Ups, Workers, Errs, Signals, Empty
  <2> QED BY <2>3 DEF Allowed, BR!Work
<1>5. CASE Remove \/ RemoveFails
  <2>1. BR!GoTo(Job, "remove", "start")
        BY <1>5, Moves DEF Remove, RemoveFails, Phase
  <2>2. UNCHANGED <<Errs, Signals>>
        BY <1>5 DEF Remove, RemoveFails, Errs, Signals
  <2>3. \/ Ups' = Ups \ {Job} /\ Workers' = Workers \ {Job}
        \/ "docker" \in Env /\ UNCHANGED <<Ups, Workers>>
        BY <1>5 DEF Remove, RemoveFails, Ups, Workers, Known
  <2>4. BR!RemoveWorker(Job)
        BY <2>1, <2>2, <2>3 DEF BR!RemoveWorker, BR!held, BR!plan, Ups, Workers, Errs, Signals, Empty
  <2> QED BY <2>4 DEF Allowed, BR!Work
<1>6. CASE Create \/ CreateFails \/ StartWorker \/ StartFails
      BY <1>6, CreationImplements
<1>7. Inspect => pc' \in {"exec", "remove"}
      BY DEF Inspect, Advance
<1> QED BY <1>1, <1>2, <1>3, <1>4, <1>5, <1>6, <1>7 DEF Answers

(* The call implements the action Work of BackupRestore, step by step      *)
(* (daemon.go:247-257, app.go:556-563).                                    *)
THEOREM Refinement == Spec => ImplementsWork
<1>1. ASSUME Progress, [Next]_vars PROVE Allowed \/ UNCHANGED BR!vars
  <2> USE DEF docker, history
  <2>1. CASE Answers \/ StreamEnds \/ WaitFails
        BY <1>1, <2>1, WorkImplements
  <2>2. CASE (\E i \in Commands : Exit(i)) \/ UNCHANGED vars
    <3>1. UNCHANGED Seen
          BY <2>2 DEF Exit, vars, Seen, Phase, Ups, Workers, Errs, Signals, Known
    <3> QED BY <3>1, Unseen
  <2>3. CASE OthersStop \/ OthersStart
        BY <2>3 DEF Allowed
  <2>4. CASE Cancel
    <3>1. UNCHANGED <<Phase, Ups, Workers, Errs>> /\ Signals = {} /\ Signals' = Signals \cup {Proc}
          BY <2>4 DEF Cancel, Returned, Phase, Ups, Workers, Errs, Signals, Known
    <3>2. BR!Signal(Proc)
          BY <2>4, <3>1 DEF Cancel, BR!Signal, BR!held, BR!docker, BR!plan, Ups, Workers, Errs, Signals, Empty
    <3> QED BY <3>2 DEF Allowed
  <2>5. CASE Crash
    <3>1. UNCHANGED <<Ups, Workers, Errs>> /\ Signals' = Signals \ {Proc}
          BY <1>1, <2>5 DEF Crash, Returned, Progress, Ups, Workers, Errs, Signals, Known
    <3>2. Phase \notin {"done", "dead", "new"} /\ Phase' = "dead"
          BY <2>5 DEF Crash, Returned, Phase
    <3>3. BR!Begun(Proc) = {Job}
          BY <3>2 DEF BR!Begun, BR!Ended
    <3>4. BR!Locks!ReleaseAll({Job}) /\ BR!Slots!ReleaseAll({Job})
          BY DEF BR!Locks!ReleaseAll, BR!Slots!ReleaseAll, BR!LockKeys, Empty
    <3>5. [j \in {Job} |-> Phase'] = [j \in {Job} |-> IF j \in BR!Begun(Proc) THEN "dead"
                                                   ELSE [i \in {Job} |-> Phase][j]]
          BY <3>2, <3>3
    <3>6. BR!Locks!ReleaseAll(BR!Begun(Proc)) /\ BR!Slots!ReleaseAll(BR!Begun(Proc))
          BY <3>3, <3>4
    <3>7. UNCHANGED <<BR!docker, BR!plan>>
          BY <3>1 DEF BR!docker, BR!plan, Ups, Workers, Empty
    <3>8. BR!Begun(Proc) # {}
          BY <3>3
    <3>9. BR!Die(Proc)
          BY <3>1, <3>5, <3>6, <3>7, <3>8 DEF BR!Die, Errs, Signals
    <3> QED BY <2>5, <3>9 DEF Crash, BR!Crash, Allowed
  <2> QED BY <1>1, <2>1, <2>2, <2>3, <2>4, <2>5 DEF Next
<1>2. TypeOK /\ Progress /\ [Next]_vars => [Allowed]_BR!vars
      BY <1>1
<1> QED BY <1>2, TypeCorrect, PTL DEF Spec, ImplementsWork, Allowed
===============================================================================
