-------------------------- MODULE LockManager_proofs --------------------------
(***************************************************************************)
(* LockManager for every set of callers, keys and processes: the type      *)
(* invariant, the inductive invariant Holdings, the safety properties that *)
(* follow from it, and the refinement of KeyedMutex.                       *)
(***************************************************************************)
EXTENDS LockManager, TLAPS

USE LockManagerAssumption

-------------------------------------------------------------------------------
(* SetLocal(c, o) writes one cell of mutex, the one c waits for, and so    *)
(* does GoTo of pc: what the cells of both hold in the next state.         *)
LEMMA SetLocalCells ==
    ASSUME TypeOK, NEW c \in Callers, NEW o \in Callers \cup {Nobody}, SetLocal(c, o)
    PROVE  /\ mutex' \in [Procs -> [Keys -> Callers \cup {Nobody}]]
           /\ \A p \in Procs, k \in Keys :
                 mutex'[p][k] = IF p = ProcOf[c] /\ k = want[c] THEN o ELSE mutex[p][k]
<1>1. ProcOf[c] \in Procs /\ want[c] \in Keys
      BY DEF TypeOK
<1>2. mutex \in [Procs -> [Keys -> Callers \cup {Nobody}]]
      BY DEF TypeOK
<1>3. mutex' = [mutex EXCEPT ![ProcOf[c]] = [mutex[ProcOf[c]] EXCEPT ![want[c]] = o]]
      BY DEF SetLocal
<1> QED BY <1>1, <1>2, <1>3

(* What GoTo does to each caller's program counter.                        *)
LEMMA GoToCells ==
    ASSUME TypeOK, NEW c \in Callers, NEW from, NEW to \in Steps, GoTo(c, from, to)
    PROVE  /\ pc[c] = from
           /\ pc' \in [Callers -> Steps]
           /\ \A d \in Callers : pc'[d] = IF d = c THEN to ELSE pc[d]
BY DEF TypeOK, GoTo

(* The initial states are type correct.                                    *)
LEMMA TypeOKInit == Init => TypeOK
BY DEF Init, TypeOK, Steps, Waiting, Returning

(* Every step of with() and every crash keeps the types.                   *)
LEMMA TypeOKStep == TypeOK /\ [Next]_vars => TypeOK'
<1> SUFFICES ASSUME TypeOK, [Next]_vars PROVE TypeOK'
    OBVIOUS
<1> USE DEF TypeOK, Steps, Waiting, Returning, GoTo
<1>1. ASSUME NEW c \in Callers, NEW k \in Keys, NEW cancelled \in BOOLEAN,
             Call(c, k, cancelled)
      PROVE TypeOK'
      BY <1>1 DEF Call
<1>2. ASSUME NEW c \in Callers, Expire(c) PROVE TypeOK'
      BY <1>2 DEF Expire
<1>3. ASSUME NEW c \in Callers, Poll(c) PROVE TypeOK'
  <2>1. CASE TryLocal(c)
    <3>1. mutex' \in [Procs -> [Keys -> Callers \cup {Nobody}]]
          BY <2>1, SetLocalCells DEF TryLocal
    <3> QED BY <2>1, <3>1 DEF TryLocal
  <2>2. CASE TryFlock(c)
    <3>1. flocked' \in [Keys -> Callers \cup {Nobody}]
          BY <2>2 DEF TryFlock
    <3> QED BY <2>2, <3>1 DEF TryFlock
  <2>3. CASE TickLocal(c) \/ TickFlock(c)
        BY <2>3 DEF TickLocal, TickFlock
  <2> QED BY <1>3, <2>1, <2>2, <2>3 DEF Poll
<1>4. ASSUME NEW c \in Callers, GiveUp(c) PROVE TypeOK'
      BY <1>4 DEF GiveUp, GiveUpLocal, GiveUpFlock
<1>5. ASSUME NEW c \in Callers, Prepare(c) PROVE TypeOK'
      BY <1>5 DEF Prepare, OpenFile, OpenFails, FlockFails
<1>6. ASSUME NEW c \in Callers, Return(c) PROVE TypeOK'
  <2>1. CASE UnlockLocal(c)
    <3>1. mutex' \in [Procs -> [Keys -> Callers \cup {Nobody}]]
          BY <2>1, SetLocalCells DEF UnlockLocal
    <3> QED BY <2>1, <3>1 DEF UnlockLocal
  <2>2. CASE FnReturns(c) \/ Unflock(c) \/ CloseFile(c)
        BY <2>2 DEF FnReturns, Unflock, CloseFile
  <2> QED BY <1>6, <2>1, <2>2 DEF Return
<1>7. ASSUME NEW p \in Procs, Crash(p) PROVE TypeOK'
      BY <1>7 DEF Crash
<1>8. CASE UNCHANGED vars
      BY <1>8 DEF vars
<1> QED
    BY <1>1, <1>2, <1>3, <1>4, <1>5, <1>6, <1>7, <1>8 DEF Next

(* The variables keep their types, whatever the callers do.                *)
THEOREM TypeCorrect == Spec => []TypeOK
<1> QED BY TypeOKInit, TypeOKStep, PTL DEF Spec

-------------------------------------------------------------------------------
(* Nobody holds anything at the beginning.                                 *)
LEMMA HoldingsInit == Init => Holdings
BY DEF Init, Holdings, MutexMatches, FlockMatches, FileMatches,
       UnderMutex, UnderFlock, WithFile, Returning, LocalOwner

(* A step of c that stays on the same side of "holds the mutex", "holds    *)
(* the flock" and "has the file open", and touches none of them.           *)
LEMMA MoveKeepsHoldings ==
    ASSUME TypeOK, Holdings, NEW c \in Callers, NEW from, NEW to \in Steps,
           GoTo(c, from, to), UNCHANGED <<want, mutex, flocked, open>>,
           from \in UnderMutex <=> to \in UnderMutex,
           from \in UnderFlock <=> to \in UnderFlock,
           from \in WithFile <=> to \in WithFile
    PROVE  Holdings'
<1>1. \A d \in Callers : /\ pc'[d] \in UnderMutex <=> pc[d] \in UnderMutex
                         /\ pc'[d] \in UnderFlock <=> pc[d] \in UnderFlock
                         /\ pc'[d] \in WithFile <=> pc[d] \in WithFile
      BY GoToCells
<1>2. MutexMatches'
      BY <1>1 DEF Holdings, MutexMatches, LocalOwner, TypeOK
<1>3. FlockMatches'
      BY <1>1 DEF Holdings, FlockMatches, TypeOK
<1>4. FileMatches'
      BY <1>1 DEF Holdings, FileMatches
<1> QED BY <1>2, <1>3, <1>4 DEF Holdings

(* Holdings is inductive relative to the types: one step per action.       *)
LEMMA HoldingsStep == TypeOK /\ Holdings /\ [Next]_vars => Holdings'
<1> SUFFICES ASSUME TypeOK, Holdings, [Next]_vars PROVE Holdings'
    OBVIOUS
<1> USE DEF Steps, Waiting, Returning, UnderMutex, UnderFlock, WithFile
<1>1. ASSUME NEW c \in Callers, NEW k \in Keys, NEW cancelled \in BOOLEAN,
             Call(c, k, cancelled)
      PROVE Holdings'
  <2>1. /\ pc[c] = "idle"
        /\ \A d \in Callers : pc'[d] = IF d = c THEN "tryLocal" ELSE pc[d]
        /\ \A d \in Callers : want'[d] = IF d = c THEN k ELSE want[d]
        /\ UNCHANGED <<mutex, flocked, open>>
        BY <1>1, GoToCells DEF Call, TypeOK
  <2>2. MutexMatches'
    <3>1. \A d \in Callers : pc'[d] \in UnderMutex => pc[d] \in UnderMutex /\ want'[d] = want[d]
          BY <2>1
    <3>2. \A d \in Callers : pc[d] \in UnderMutex => pc'[d] \in UnderMutex /\ want'[d] = want[d]
          BY <2>1
    <3>3. \A q \in Procs, x \in Keys : mutex[q][x] # Nobody => mutex[q][x] \in Callers
          BY DEF TypeOK
    <3> QED BY <2>1, <3>1, <3>2, <3>3 DEF Holdings, MutexMatches, LocalOwner
  <2>3. FlockMatches'
        BY <2>1 DEF Holdings, FlockMatches, TypeOK
  <2>4. FileMatches'
        BY <2>1 DEF Holdings, FileMatches
  <2> QED BY <2>2, <2>3, <2>4 DEF Holdings
<1>2. ASSUME NEW c \in Callers, Expire(c) PROVE Holdings'
      BY <1>2 DEF Expire, Holdings, MutexMatches, FlockMatches, FileMatches, LocalOwner
<1>3. ASSUME NEW c \in Callers, TryLocal(c), LocalOwner(c) = Nobody PROVE Holdings'
  <2>1. /\ pc[c] = "tryLocal"
        /\ \A d \in Callers : pc'[d] = IF d = c THEN "open" ELSE pc[d]
        /\ \A p \in Procs, k \in Keys :
              mutex'[p][k] = IF p = ProcOf[c] /\ k = want[c] THEN c ELSE mutex[p][k]
        /\ UNCHANGED <<want, flocked, open>>
        BY <1>3, GoToCells, SetLocalCells DEF TryLocal
  <2>2. MutexMatches'
    <3>1. \A d \in Callers : pc'[d] \in UnderMutex <=> d = c \/ pc[d] \in UnderMutex
          BY <2>1
    <3>2. \A d \in Callers : ProcOf[d] \in Procs /\ want[d] \in Keys
          BY DEF TypeOK
    <3>3. \A p \in Procs, k \in Keys : mutex[p][k] # Nobody => mutex[p][k] \in Callers
          BY DEF TypeOK
    <3> HIDE DEF UnderMutex
    <3> QED BY <1>3, <2>1, <3>1, <3>2, <3>3 DEF Holdings, MutexMatches, LocalOwner
  <2>3. FlockMatches'
        BY <2>1 DEF Holdings, FlockMatches, TypeOK
  <2>4. FileMatches'
        BY <2>1 DEF Holdings, FileMatches
  <2> QED BY <2>2, <2>3, <2>4 DEF Holdings
<1>4. ASSUME NEW c \in Callers, TryLocal(c), LocalOwner(c) # Nobody PROVE Holdings'
      BY <1>4, MoveKeepsHoldings DEF TryLocal
<1>5. ASSUME NEW c \in Callers, TickLocal(c) \/ TickFlock(c) PROVE Holdings'
      BY <1>5, MoveKeepsHoldings DEF TickLocal, TickFlock
<1>6. ASSUME NEW c \in Callers, TryFlock(c), flocked[want[c]] = Nobody PROVE Holdings'
  <2>1. /\ pc[c] = "tryFlock"
        /\ \A d \in Callers : pc'[d] = IF d = c THEN "fn" ELSE pc[d]
        /\ \A k \in Keys : flocked'[k] = IF k = want[c] THEN c ELSE flocked[k]
        /\ UNCHANGED <<want, mutex, open>>
        BY <1>6, GoToCells DEF TryFlock, TypeOK
  <2>2. MutexMatches'
        BY <2>1 DEF Holdings, MutexMatches, LocalOwner, TypeOK
  <2>3. FlockMatches'
    <3>1. \A d \in Callers : pc'[d] \in UnderFlock <=> d = c \/ pc[d] \in UnderFlock
          BY <2>1
    <3>2. \A d \in Callers : want[d] \in Keys
          BY DEF TypeOK
    <3>3. \A k \in Keys : flocked[k] # Nobody => flocked[k] \in Callers
          BY DEF TypeOK
    <3> HIDE DEF UnderFlock
    <3> QED BY <1>6, <2>1, <3>1, <3>2, <3>3 DEF Holdings, FlockMatches
  <2>4. FileMatches'
        BY <2>1 DEF Holdings, FileMatches
  <2> QED BY <2>2, <2>3, <2>4 DEF Holdings
<1>7. ASSUME NEW c \in Callers, TryFlock(c), flocked[want[c]] # Nobody PROVE Holdings'
      BY <1>7, MoveKeepsHoldings DEF TryFlock
<1>8. ASSUME NEW c \in Callers, GiveUp(c) PROVE Holdings'
      BY <1>8, MoveKeepsHoldings DEF GiveUp, GiveUpLocal, GiveUpFlock
<1>9. ASSUME NEW c \in Callers, OpenFile(c) PROVE Holdings'
  <2>1. /\ pc[c] = "open"
        /\ \A d \in Callers : pc'[d] = IF d = c THEN "tryFlock" ELSE pc[d]
        /\ open' = open \cup {c}
        /\ UNCHANGED <<want, mutex, flocked>>
        BY <1>9, GoToCells DEF OpenFile
  <2>2. MutexMatches'
        BY <2>1 DEF Holdings, MutexMatches, LocalOwner, TypeOK
  <2>3. FlockMatches'
        BY <2>1 DEF Holdings, FlockMatches, TypeOK
  <2>4. FileMatches'
        BY <2>1 DEF Holdings, FileMatches
  <2> QED BY <2>2, <2>3, <2>4 DEF Holdings
<1>10. ASSUME NEW c \in Callers, OpenFails(c) \/ FlockFails(c) \/ FnReturns(c)
       PROVE Holdings'
       BY <1>10, MoveKeepsHoldings DEF OpenFails, FlockFails, FnReturns
<1>11. ASSUME NEW c \in Callers, Unflock(c) PROVE Holdings'
  <2>1. /\ pc[c] = "unflock"
        /\ \A d \in Callers : pc'[d] = IF d = c THEN "close" ELSE pc[d]
        /\ \A k \in Keys : flocked'[k] = IF k = want[c] THEN Nobody ELSE flocked[k]
        /\ UNCHANGED <<want, mutex, open>>
        BY <1>11, GoToCells DEF Unflock, TypeOK
  <2>2. MutexMatches'
        BY <2>1 DEF Holdings, MutexMatches, LocalOwner, TypeOK
  <2>3. FlockMatches'
    <3>1. \A d \in Callers : pc'[d] \in UnderFlock <=> d # c /\ pc[d] \in UnderFlock
          BY <2>1
    <3>2. \A d \in Callers : want[d] \in Keys
          BY DEF TypeOK
    <3>3. \A k \in Keys : flocked[k] # Nobody => flocked[k] \in Callers
          BY DEF TypeOK
    <3>4. flocked[want[c]] = c
          BY <2>1 DEF Holdings, FlockMatches
    <3> HIDE DEF UnderFlock
    <3> QED BY <2>1, <3>1, <3>2, <3>3, <3>4 DEF Holdings, FlockMatches
  <2>4. FileMatches'
        BY <2>1 DEF Holdings, FileMatches
  <2> QED BY <2>2, <2>3, <2>4 DEF Holdings
<1>12. ASSUME NEW c \in Callers, CloseFile(c) PROVE Holdings'
  <2>1. /\ pc[c] = "close"
        /\ \A d \in Callers : pc'[d] = IF d = c THEN "unlock" ELSE pc[d]
        /\ open' = open \ {c}
        /\ UNCHANGED <<want, mutex, flocked>>
        BY <1>12, GoToCells DEF CloseFile
  <2>2. MutexMatches'
        BY <2>1 DEF Holdings, MutexMatches, LocalOwner, TypeOK
  <2>3. FlockMatches'
        BY <2>1 DEF Holdings, FlockMatches, TypeOK
  <2>4. FileMatches'
        BY <2>1 DEF Holdings, FileMatches
  <2> QED BY <2>2, <2>3, <2>4 DEF Holdings
<1>13. ASSUME NEW c \in Callers, UnlockLocal(c) PROVE Holdings'
  <2>1. /\ pc[c] = "unlock"
        /\ \A d \in Callers : pc'[d] = IF d = c THEN "idle" ELSE pc[d]
        /\ \A p \in Procs, k \in Keys :
              mutex'[p][k] = IF p = ProcOf[c] /\ k = want[c] THEN Nobody ELSE mutex[p][k]
        /\ UNCHANGED <<want, flocked, open>>
        BY <1>13, GoToCells, SetLocalCells DEF UnlockLocal
  <2>2. MutexMatches'
    <3>1. \A d \in Callers : pc'[d] \in UnderMutex <=> d # c /\ pc[d] \in UnderMutex
          BY <2>1
    <3>2. ASSUME NEW p \in Procs, NEW k \in Keys, mutex'[p][k] # Nobody
          PROVE  /\ ProcOf[mutex'[p][k]] = p
                 /\ want[mutex'[p][k]] = k
                 /\ pc'[mutex'[p][k]] \in UnderMutex
      <4>1. /\ mutex'[p][k] = mutex[p][k]
            /\ ~(p = ProcOf[c] /\ k = want[c])
            BY <2>1, <3>2
      <4>2. mutex[p][k] \in Callers /\ mutex[p][k] # Nobody
            BY <4>1, <3>2 DEF TypeOK
      <4> QED BY <3>1, <4>1, <4>2 DEF Holdings, MutexMatches
    <3>3. ASSUME NEW d \in Callers, pc'[d] \in UnderMutex
          PROVE  mutex'[ProcOf[d]][want[d]] = d
      <4>1. d # c /\ pc[d] \in UnderMutex
            BY <3>1, <3>3
      <4>2. LocalOwner(d) = d /\ LocalOwner(c) = c
            BY <2>1, <4>1 DEF Holdings, MutexMatches
      <4>3. ProcOf[d] \in Procs /\ want[d] \in Keys
            BY DEF TypeOK
      <4> QED BY <2>1, <4>1, <4>2, <4>3 DEF LocalOwner
    <3> QED BY <2>1, <3>2, <3>3 DEF MutexMatches, LocalOwner
  <2>3. FlockMatches'
        BY <2>1 DEF Holdings, FlockMatches, TypeOK
  <2>4. FileMatches'
        BY <2>1 DEF Holdings, FileMatches
  <2> QED BY <2>2, <2>3, <2>4 DEF Holdings
<1>14. ASSUME NEW p \in Procs, Crash(p) PROVE Holdings'
  <2>1. /\ \A d \in Callers : pc'[d] = IF ProcOf[d] = p THEN "idle" ELSE pc[d]
        /\ \A q \in Procs, k \in Keys :
              mutex'[q][k] = IF q = p THEN Nobody ELSE mutex[q][k]
        /\ \A k \in Keys : flocked'[k] = IF flocked[k] # Nobody /\ ProcOf[flocked[k]] = p
                                         THEN Nobody ELSE flocked[k]
        /\ open' = open \ {d \in Callers : ProcOf[d] = p}
        /\ want' = want
        BY <1>14 DEF Crash, TypeOK
  <2>2. MutexMatches'
        BY <2>1 DEF Holdings, MutexMatches, LocalOwner, TypeOK
  <2>3. FlockMatches'
        BY <2>1 DEF Holdings, FlockMatches, TypeOK
  <2>4. FileMatches'
        BY <2>1 DEF Holdings, FileMatches
  <2> QED BY <2>2, <2>3, <2>4 DEF Holdings
<1>15. CASE UNCHANGED vars
       BY <1>15 DEF vars, Holdings, MutexMatches, FlockMatches, FileMatches, LocalOwner
<1> QED
    BY <1>1, <1>2, <1>3, <1>4, <1>5, <1>6, <1>7, <1>8, <1>9, <1>10, <1>11,
       <1>12, <1>13, <1>14, <1>15
    DEF Next, Poll, Prepare, Return

(* Where the callers are determines who holds which mutex, flock and file. *)
THEOREM HoldingsInvariant == Spec => []Holdings
<1> QED BY TypeCorrect, HoldingsInit, HoldingsStep, PTL DEF Spec

-------------------------------------------------------------------------------
(* One caller at a time is inside fn for a key, across all processes.      *)
THEOREM Exclusion == Spec => []MutualExclusion
<1>1. Holdings => MutualExclusion
      BY DEF Holdings, FlockMatches, MutualExclusion, UnderFlock
<1> QED BY <1>1, HoldingsInvariant, PTL

(* A caller outside with() holds nothing, however it left.                 *)
THEOREM NothingLeaks == Spec => []NothingKept
<1>1. ASSUME TypeOK, Holdings, NEW c \in Callers, pc[c] = "idle"
      PROVE  /\ c \notin open
             /\ \A k \in Keys : flocked[k] # c
             /\ \A p \in Procs, k \in Keys : mutex[p][k] # c
  <2>1. pc[c] \notin UnderMutex /\ pc[c] \notin UnderFlock /\ pc[c] \notin WithFile /\ c # Nobody
        BY <1>1, LockManagerAssumption DEF UnderMutex, UnderFlock, WithFile, Returning
  <2>2. c \notin open
        BY <1>1, <2>1 DEF Holdings, FileMatches
  <2>3. \A k \in Keys : flocked[k] # c
        BY <1>1, <2>1 DEF Holdings, FlockMatches
  <2>4. \A p \in Procs, k \in Keys : mutex[p][k] # c
        BY <1>1, <2>1 DEF Holdings, MutexMatches
  <2> QED BY <2>2, <2>3, <2>4
<1>2. TypeOK /\ Holdings => NothingKept
      BY <1>1 DEF NothingKept
<1> QED BY <1>2, TypeCorrect, HoldingsInvariant, PTL

(* A process never queues for a flock it holds itself.                     *)
THEOREM FlockNested == Spec => []FlockUnderMutex
<1>1. TypeOK /\ Holdings => FlockUnderMutex
      BY DEF TypeOK, Holdings, MutexMatches, FlockMatches, FileMatches,
             FlockUnderMutex, UnderMutex, UnderFlock, WithFile, Returning, LocalOwner
<1> QED BY <1>1, TypeCorrect, HoldingsInvariant, PTL

-------------------------------------------------------------------------------
(* The initial states are initial states of KeyedMutex.                    *)
LEMMA MutexInit == Init => Mutex!Init
BY DEF Init, Mutex!Init

(* Every step is a step of KeyedMutex or leaves the flocks alone: only     *)
(* TryFlock takes one, Unflock and a crash give them back.                 *)
LEMMA MutexStep == TypeOK /\ Holdings /\ [Next]_vars => [Mutex!Next]_flocked
<1> SUFFICES ASSUME TypeOK, Holdings, [Next]_vars, flocked' # flocked
             PROVE Mutex!Next
    OBVIOUS
<1>1. ASSUME NEW c \in Callers, TryFlock(c) PROVE Mutex!Next
  <2>1. want[c] \in Keys
        BY DEF TypeOK
  <2>2. Mutex!Acquire(c, want[c])
        BY <1>1 DEF TryFlock, Mutex!Acquire
  <2> QED BY <2>1, <2>2 DEF Mutex!Next
<1>2. ASSUME NEW c \in Callers, Unflock(c) PROVE Mutex!Next
  <2>1. want[c] \in Keys
        BY DEF TypeOK
  <2>2. Mutex!Release(c, want[c])
        BY <1>2 DEF Unflock, GoTo, Holdings, FlockMatches, UnderFlock, Mutex!Release
  <2> QED BY <2>1, <2>2 DEF Mutex!Next
<1>3. ASSUME NEW p \in Procs, Crash(p) PROVE Mutex!Next
  <2> DEFINE dead == {c \in Callers : ProcOf[c] = p}
  <2>1. Mutex!ReleaseAll(dead)
        BY <1>3 DEF Crash, Mutex!ReleaseAll
  <2> HIDE DEF dead
  <2>2. dead \in SUBSET Callers
        BY DEF dead
  <2> QED BY <2>1, <2>2 DEF Mutex!Next
<1> QED
    BY <1>1, <1>2, <1>3
    DEF Next, vars, Call, Expire, Poll, GiveUp, Prepare, Return, TryLocal,
        TickLocal, GiveUpLocal, OpenFile, OpenFails, FlockFails, TickFlock,
        GiveUpFlock, FnReturns, CloseFile, UnlockLocal

(* lock.go implements KeyedMutex: taking the flock is Acquire, dropping it *)
(* is Release, a crash is ReleaseAll, every other step is invisible.       *)
THEOREM Refinement == Spec => ImplementsKeyedMutex
<1> QED BY TypeCorrect, HoldingsInvariant, MutexInit, MutexStep, PTL
        DEF Spec, ImplementsKeyedMutex, Mutex!Spec
===============================================================================
