-------------------------- MODULE WriteLimiter_proofs --------------------------
(***************************************************************************)
(* WriteLimiter for every set of callers, keys and processes and every     *)
(* limit: the type invariant, the inductive invariant Holdings, and the    *)
(* counting argument: the callers inside fn for a backend hold different   *)
(* slots, so those with a limit of at most m inject into 0 .. m-1.         *)
(***************************************************************************)
EXTENDS WriteLimiter, FiniteSetTheorems, TLAPS

USE WriteLimiterAssumption

-------------------------------------------------------------------------------
(* Every caller's limit is a natural number.                               *)
LEMMA LimitType == Limit \in [Callers -> Nat]
BY DEF Limit

(* A number below a caller's limit is a slot.                              *)
LEMMA SlotBelowLimit ==
    ASSUME NEW c \in Callers, NEW n \in Nat, n < Limit[c] PROVE n \in Slots
<1>1. Limit[c] = Capacity[ProcOf[c]] /\ ProcOf[c] \in Procs /\ Limit[c] \in Nat
      BY DEF Limit
<1>2. n \in 0 .. Capacity[ProcOf[c]] - 1
      BY <1>1
<1> QED BY <1>1, <1>2 DEF Slots

(* GoTo, SetLocal and SetSlot write one cell each.                         *)
LEMMA GoToCells ==
    ASSUME TypeOK, NEW c \in Callers, NEW from, NEW to \in Steps, GoTo(c, from, to)
    PROVE  /\ pc[c] = from
           /\ pc' \in [Callers -> Steps]
           /\ \A d \in Callers : pc'[d] = IF d = c THEN to ELSE pc[d]
BY DEF TypeOK, GoTo

(* SetLocal changes the mutex of one slot in one process.                  *)
LEMMA SetLocalCells ==
    ASSUME TypeOK, NEW c \in Callers, NEW o \in Callers \cup {Nobody}, SetLocal(c, o)
    PROVE  /\ mutex' \in [Procs -> [Keys -> [Slots -> Callers \cup {Nobody}]]]
           /\ \A p \in Procs, k \in Keys, s \in Slots :
                 mutex'[p][k][s] = IF p = ProcOf[c] /\ k = want[c] /\ s = at[c]
                                   THEN o ELSE mutex[p][k][s]
<1>1. ProcOf[c] \in Procs /\ want[c] \in Keys
      BY DEF TypeOK
<1> DEFINE M == mutex[ProcOf[c]][want[c]]
           M2 == [M EXCEPT ![at[c]] = o]
           N == mutex[ProcOf[c]]
           N2 == [N EXCEPT ![want[c]] = M2]
<1>2. /\ mutex \in [Procs -> [Keys -> [Slots -> Callers \cup {Nobody}]]]
      /\ N \in [Keys -> [Slots -> Callers \cup {Nobody}]]
      /\ M \in [Slots -> Callers \cup {Nobody}]
      BY <1>1 DEF TypeOK
<1>3. mutex' = [mutex EXCEPT ![ProcOf[c]] = N2]
      BY DEF SetLocal
<1>4. /\ M2 \in [Slots -> Callers \cup {Nobody}]
      /\ \A s \in Slots : M2[s] = IF s = at[c] THEN o ELSE M[s]
      BY <1>2
<1> HIDE DEF M2
<1>5. /\ N2 \in [Keys -> [Slots -> Callers \cup {Nobody}]]
      /\ \A k \in Keys : N2[k] = IF k = want[c] THEN M2 ELSE N[k]
      BY <1>1, <1>2, <1>4
<1> HIDE DEF N2
<1>6. /\ mutex' \in [Procs -> [Keys -> [Slots -> Callers \cup {Nobody}]]]
      /\ \A p \in Procs : mutex'[p] = IF p = ProcOf[c] THEN N2 ELSE mutex[p]
      BY <1>1, <1>2, <1>3, <1>5
<1> QED BY <1>4, <1>5, <1>6

(* SetSlot changes the flock of one slot.                                  *)
LEMMA SetSlotCells ==
    ASSUME TypeOK, NEW c \in Callers, NEW o \in Callers \cup {Nobody}, SetSlot(c, o)
    PROVE  /\ flocked' \in [Keys -> [Slots -> Callers \cup {Nobody}]]
           /\ \A k \in Keys, s \in Slots :
                 flocked'[k][s] = IF k = want[c] /\ s = at[c] THEN o ELSE flocked[k][s]
<1>1. want[c] \in Keys
      BY DEF TypeOK
<1> DEFINE F2 == [flocked[want[c]] EXCEPT ![at[c]] = o]
<1>2. flocked \in [Keys -> [Slots -> Callers \cup {Nobody}]]
      BY DEF TypeOK
<1>3. flocked' = [flocked EXCEPT ![want[c]] = F2]
      BY DEF SetSlot
<1>4. /\ F2 \in [Slots -> Callers \cup {Nobody}]
      /\ \A s \in Slots : F2[s] = IF s = at[c] THEN o ELSE flocked[want[c]][s]
      BY <1>1, <1>2
<1> HIDE DEF F2
<1> QED BY <1>1, <1>2, <1>3, <1>4

-------------------------------------------------------------------------------
(* The initial states are type correct.                                    *)
LEMMA TypeOKInit == Init => TypeOK
BY DEF Init, TypeOK, Steps, Scanning

(* Every step of With and every crash keeps the types.                     *)
LEMMA TypeOKStep == TypeOK /\ [Next]_vars => TypeOK'
<1> SUFFICES ASSUME TypeOK, [Next]_vars PROVE TypeOK'
    OBVIOUS
<1> USE DEF Steps, Scanning
<1>1. ASSUME NEW c \in Callers, NEW k \in Keys, NEW cancelled \in BOOLEAN,
             Call(c, k, cancelled)
      PROVE TypeOK'
  <2>1. pc' \in [Callers -> Steps]
        BY <1>1, GoToCells DEF Call
  <2> QED BY <1>1, <2>1 DEF Call, TypeOK
<1>2. ASSUME NEW c \in Callers, Expire(c) PROVE TypeOK'
      BY <1>2 DEF Expire, TypeOK
<1>3. ASSUME NEW c \in Callers, TrySlotMutex(c) PROVE TypeOK'
  <2>1. pc' \in [Callers -> Steps]
        BY <1>3, GoToCells DEF TrySlotMutex, TypeOK
  <2>2. mutex' \in [Procs -> [Keys -> [Slots -> Callers \cup {Nobody}]]]
        BY <1>3, SetLocalCells DEF TrySlotMutex, TypeOK
  <2>3. at' \in [Callers -> Nat]
        BY <1>3 DEF TrySlotMutex, MoveOn, TypeOK
  <2> QED BY <1>3, <2>1, <2>2, <2>3 DEF TrySlotMutex, TypeOK
<1>4. ASSUME NEW c \in Callers, NoSlot(c) \/ OpenSlot(c) \/ SlotFails(c) \/ GiveUp(c) \/ FnReturns(c)
      PROVE TypeOK'
  <2>1. pc' \in [Callers -> Steps]
        BY <1>4, GoToCells DEF NoSlot, OpenSlot, SlotFails, GiveUp, FnReturns
  <2> QED BY <1>4, <2>1 DEF NoSlot, OpenSlot, SlotFails, GiveUp, FnReturns, TypeOK
<1>5. ASSUME NEW c \in Callers, FailUnlock(c) \/ UnlockSlot(c) PROVE TypeOK'
  <2>1. pc' \in [Callers -> Steps]
        BY <1>5, GoToCells DEF FailUnlock, UnlockSlot
  <2>2. mutex' \in [Procs -> [Keys -> [Slots -> Callers \cup {Nobody}]]]
        BY <1>5, SetLocalCells DEF FailUnlock, UnlockSlot
  <2> QED BY <1>5, <2>1, <2>2 DEF FailUnlock, UnlockSlot, TypeOK
<1>6. ASSUME NEW c \in Callers, LeaveSlot(c) PROVE TypeOK'
  <2>1. pc' \in [Callers -> Steps]
        BY <1>6, GoToCells DEF LeaveSlot
  <2>2. mutex' \in [Procs -> [Keys -> [Slots -> Callers \cup {Nobody}]]]
        BY <1>6, SetLocalCells DEF LeaveSlot
  <2>3. at' \in [Callers -> Nat]
        BY <1>6 DEF LeaveSlot, MoveOn, TypeOK
  <2> QED BY <1>6, <2>1, <2>2, <2>3 DEF LeaveSlot, TypeOK
<1>7. ASSUME NEW c \in Callers, TrySlotFlock(c) \/ Unflock(c) PROVE TypeOK'
  <2>1. pc' \in [Callers -> Steps]
        BY <1>7, GoToCells DEF TrySlotFlock, Unflock
  <2>2. flocked' \in [Keys -> [Slots -> Callers \cup {Nobody}]]
        BY <1>7, SetSlotCells DEF TrySlotFlock, Unflock, TypeOK
  <2> QED BY <1>7, <2>1, <2>2 DEF TrySlotFlock, Unflock, TypeOK
<1>8. ASSUME NEW c \in Callers, Tick(c) PROVE TypeOK'
  <2>1. pc' \in [Callers -> Steps]
        BY <1>8, GoToCells DEF Tick
  <2> QED BY <1>8, <2>1 DEF Tick, TypeOK
<1>9. ASSUME NEW p \in Procs, Crash(p) PROVE TypeOK'
      BY <1>9 DEF Crash, TypeOK
<1>10. CASE UNCHANGED vars
      BY <1>10 DEF vars, TypeOK
<1> QED
    BY <1>1, <1>2, <1>3, <1>4, <1>5, <1>6, <1>7, <1>8, <1>9, <1>10
    DEF Next, Scan, Prepare, Return

(* The variables keep their types, whatever the callers do.                *)
THEOREM TypeCorrect == Spec => []TypeOK
<1> QED BY TypeOKInit, TypeOKStep, PTL DEF Spec

-------------------------------------------------------------------------------
(* Whoever holds a slot's flock is where its mutex is held.                *)
LEMMA UnderFlockUnderMutex == UnderFlock \subseteq UnderMutex
BY DEF UnderFlock, UnderMutex

(* The facts about types that the steps below need.                        *)
LEMMA InRange ==
    ASSUME TypeOK
    PROVE  /\ \A d \in Callers : ProcOf[d] \in Procs /\ want[d] \in Keys /\ at[d] \in Nat
           /\ \A p \in Procs, k \in Keys, s \in Slots :
                 mutex[p][k][s] # Nobody => mutex[p][k][s] \in Callers
           /\ \A k \in Keys, s \in Slots :
                 flocked[k][s] # Nobody => flocked[k][s] \in Callers
BY DEF TypeOK

(* What a caller under a mutex, or under a flock, says about its slot.     *)
LEMMA HeldSlots ==
    ASSUME TypeOK, Holdings
    PROVE  /\ \A d \in Callers : pc[d] \in UnderMutex =>
                 at[d] < Limit[d] /\ at[d] \in Slots /\ LocalOwner(d) = d
           /\ \A d \in Callers : pc[d] \in UnderFlock => SlotOwner(d) = d
BY SlotBelowLimit, InRange DEF Holdings, MutexMatches, FlockMatches

(* A step of c that changes only where c is, on the same side of "under    *)
(* the mutex" and "under the flock".                                       *)
LEMMA MoveKeepsHoldings ==
    ASSUME TypeOK, Holdings, NEW c \in Callers, NEW from, NEW to \in Steps,
           GoTo(c, from, to), UNCHANGED <<want, at, mutex, flocked>>,
           from \in UnderMutex <=> to \in UnderMutex,
           from \in UnderFlock <=> to \in UnderFlock
    PROVE  Holdings'
<1>1. \A d \in Callers : /\ pc'[d] \in UnderMutex <=> pc[d] \in UnderMutex
                         /\ pc'[d] \in UnderFlock <=> pc[d] \in UnderFlock
      BY GoToCells
<1>2. MutexMatches'
      BY <1>1, InRange DEF Holdings, MutexMatches, LocalOwner
<1>3. FlockMatches'
      BY <1>1, InRange DEF Holdings, FlockMatches, SlotOwner
<1> QED BY <1>2, <1>3 DEF Holdings

(* A step of c outside every mutex, whatever it does to want[c] and at[c]. *)
LEMMA OutsideKeepsHoldings ==
    ASSUME TypeOK, Holdings, NEW c \in Callers,
           pc[c] \notin UnderMutex, pc'[c] \notin UnderMutex,
           \A d \in Callers \ {c} : pc'[d] = pc[d] /\ want'[d] = want[d] /\ at'[d] = at[d],
           UNCHANGED <<mutex, flocked>>
    PROVE  Holdings'
<1>1. MutexMatches'
      BY InRange DEF Holdings, MutexMatches, LocalOwner
<1>2. FlockMatches'
      BY InRange, UnderFlockUnderMutex DEF Holdings, FlockMatches, SlotOwner
<1> QED BY <1>1, <1>2 DEF Holdings

(* A step of c that gives its slot's mutex back, holding no flock.         *)
LEMMA UnlockKeepsHoldings ==
    ASSUME TypeOK, Holdings, NEW c \in Callers,
           pc[c] \in UnderMutex, pc[c] \notin UnderFlock, pc'[c] \notin UnderMutex,
           \A d \in Callers \ {c} : pc'[d] = pc[d] /\ at'[d] = at[d],
           SetLocal(c, Nobody), UNCHANGED <<want, flocked>>
    PROVE  Holdings'
<1>1. \A p \in Procs, k \in Keys, s \in Slots :
         mutex'[p][k][s] = IF p = ProcOf[c] /\ k = want[c] /\ s = at[c]
                           THEN Nobody ELSE mutex[p][k][s]
      BY SetLocalCells
<1>2. ASSUME NEW p \in Procs, NEW k \in Keys, NEW s \in Slots, mutex'[p][k][s] # Nobody
      PROVE  LET d == mutex'[p][k][s] IN
             ProcOf[d] = p /\ want'[d] = k /\ at'[d] = s /\ pc'[d] \in UnderMutex
  <2>1. /\ mutex'[p][k][s] = mutex[p][k][s]
        /\ ~(p = ProcOf[c] /\ k = want[c] /\ s = at[c])
        BY <1>1, <1>2
  <2>2. mutex[p][k][s] \in Callers \ {c}
        BY <1>2, <2>1, InRange DEF Holdings, MutexMatches
  <2> QED BY <1>2, <2>1, <2>2 DEF Holdings, MutexMatches
<1>3. ASSUME NEW d \in Callers, pc'[d] \in UnderMutex
      PROVE  at'[d] < Limit[d] /\ LocalOwner(d)' = d
  <2>1. d # c /\ pc[d] \in UnderMutex
        BY <1>3
  <2>2. /\ at[d] < Limit[d] /\ at[d] \in Slots
        /\ LocalOwner(d) = d /\ LocalOwner(c) = c
        BY <2>1, HeldSlots
  <2> QED BY <1>1, <2>1, <2>2, InRange DEF LocalOwner
<1>4. MutexMatches'
      BY <1>2, <1>3 DEF MutexMatches
<1>5. FlockMatches'
      BY InRange, UnderFlockUnderMutex DEF Holdings, FlockMatches, SlotOwner
<1> QED BY <1>4, <1>5 DEF Holdings

(* Nobody holds anything at the beginning.                                 *)
LEMMA HoldingsInit == Init => Holdings
BY DEF Init, Holdings, MutexMatches, FlockMatches, UnderMutex, UnderFlock

(* Holdings is inductive relative to the types: one step per action.       *)
LEMMA HoldingsStep == TypeOK /\ Holdings /\ [Next]_vars => Holdings'
<1> SUFFICES ASSUME TypeOK, Holdings, [Next]_vars PROVE Holdings'
    OBVIOUS
<1> USE DEF Steps, Scanning, UnderMutex, UnderFlock
<1>1. ASSUME NEW c \in Callers, NEW k \in Keys, NEW cancelled \in BOOLEAN,
             Call(c, k, cancelled)
      PROVE Holdings'
  <2>1. /\ pc[c] = "idle" /\ pc'[c] \in {"scan", "fnUnlimited"}
        /\ \A d \in Callers \ {c} : pc'[d] = pc[d]
        BY <1>1, GoToCells DEF Call
  <2>2. \A d \in Callers \ {c} : want'[d] = want[d] /\ at'[d] = at[d]
        BY <1>1 DEF Call, TypeOK
  <2> QED BY <1>1, <2>1, <2>2, OutsideKeepsHoldings DEF Call
<1>2. ASSUME NEW c \in Callers, Expire(c) PROVE Holdings'
      BY <1>2 DEF Expire, Holdings, MutexMatches, FlockMatches, LocalOwner, SlotOwner
<1>3. ASSUME NEW c \in Callers, TrySlotMutex(c), SetLocal(c, c), GoTo(c, "scan", "openSlot"),
             LocalOwner(c) = Nobody, UNCHANGED at
      PROVE Holdings'
  <2>1. /\ pc[c] = "scan" /\ at[c] < Limit[c] /\ at[c] \in Slots
        /\ \A d \in Callers : pc'[d] = IF d = c THEN "openSlot" ELSE pc[d]
        /\ \A p \in Procs, k \in Keys, s \in Slots :
              mutex'[p][k][s] = IF p = ProcOf[c] /\ k = want[c] /\ s = at[c]
                                THEN c ELSE mutex[p][k][s]
        /\ UNCHANGED <<want, at, flocked>>
        BY <1>3, GoToCells, SetLocalCells, SlotBelowLimit, InRange DEF TrySlotMutex
  <2>2. \A d \in Callers : /\ pc'[d] \in UnderMutex <=> d = c \/ pc[d] \in UnderMutex
                           /\ pc'[d] \in UnderFlock <=> pc[d] \in UnderFlock
        BY <2>1
  <2> HIDE DEF UnderMutex, UnderFlock
  <2>3. ASSUME NEW d \in Callers, pc'[d] \in UnderMutex
        PROVE  at'[d] < Limit[d] /\ LocalOwner(d)' = d
        BY <1>3, <2>1, <2>2, <2>3, HeldSlots, InRange DEF LocalOwner
  <2>4. ASSUME NEW p \in Procs, NEW k \in Keys, NEW s \in Slots, mutex'[p][k][s] # Nobody
        PROVE  LET d == mutex'[p][k][s] IN
               ProcOf[d] = p /\ want'[d] = k /\ at'[d] = s /\ pc'[d] \in UnderMutex
        BY <2>1, <2>2, <2>4, InRange DEF Holdings, MutexMatches
  <2>5. MutexMatches'
        BY <2>3, <2>4 DEF MutexMatches
  <2>6. FlockMatches'
        BY <2>1, <2>2, InRange DEF Holdings, FlockMatches, SlotOwner
  <2> QED BY <2>5, <2>6 DEF Holdings
<1>4. ASSUME NEW c \in Callers, TrySlotMutex(c), pc[c] = "scan", MoveOn(c), UNCHANGED <<pc, mutex>>
      PROVE Holdings'
  <2>1. \A d \in Callers \ {c} : at'[d] = at[d]
        BY <1>4 DEF MoveOn, TypeOK
  <2> QED BY <1>4, <2>1, OutsideKeepsHoldings DEF TrySlotMutex
<1>5. ASSUME NEW c \in Callers, NoSlot(c) \/ OpenSlot(c) \/ SlotFails(c) \/ GiveUp(c) \/ FnReturns(c)
      PROVE Holdings'
      BY <1>5, MoveKeepsHoldings DEF NoSlot, OpenSlot, SlotFails, GiveUp, FnReturns
<1>6. ASSUME NEW c \in Callers, FailUnlock(c) \/ UnlockSlot(c) PROVE Holdings'
  <2>1. /\ pc[c] \in {"fail", "unlock"} /\ pc'[c] = "idle"
        /\ \A d \in Callers \ {c} : pc'[d] = pc[d]
        BY <1>6, GoToCells DEF FailUnlock, UnlockSlot
  <2> QED BY <1>6, <2>1, UnlockKeepsHoldings DEF FailUnlock, UnlockSlot
<1>7. ASSUME NEW c \in Callers, LeaveSlot(c) PROVE Holdings'
  <2>1. /\ pc[c] = "nextSlot" /\ pc'[c] = "scan"
        /\ \A d \in Callers \ {c} : pc'[d] = pc[d]
        BY <1>7, GoToCells DEF LeaveSlot
  <2>2. \A d \in Callers \ {c} : at'[d] = at[d]
        BY <1>7 DEF LeaveSlot, MoveOn, TypeOK
  <2> QED BY <1>7, <2>1, <2>2, UnlockKeepsHoldings DEF LeaveSlot
<1>8. ASSUME NEW c \in Callers, TrySlotFlock(c), GoTo(c, "trySlot", "fn"),
             SlotOwner(c) = Nobody, SetSlot(c, c)
      PROVE Holdings'
  <2>1. /\ pc[c] = "trySlot"
        /\ \A d \in Callers : pc'[d] = IF d = c THEN "fn" ELSE pc[d]
        /\ \A k \in Keys, s \in Slots :
              flocked'[k][s] = IF k = want[c] /\ s = at[c] THEN c ELSE flocked[k][s]
        /\ UNCHANGED <<want, at, mutex>>
        BY <1>8, GoToCells, SetSlotCells DEF TrySlotFlock
  <2>2. \A d \in Callers : /\ pc'[d] \in UnderMutex <=> pc[d] \in UnderMutex
                           /\ pc'[d] \in UnderFlock <=> d = c \/ pc[d] \in UnderFlock
        BY <2>1
  <2>3. at[c] \in Slots /\ \A d \in Callers : pc[d] \in UnderFlock => at[d] \in Slots
        BY <2>1, HeldSlots
  <2> HIDE DEF UnderMutex, UnderFlock
  <2>4. MutexMatches'
        BY <2>1, <2>2, InRange DEF Holdings, MutexMatches, LocalOwner
  <2>5. FlockMatches'
        BY <1>8, <2>1, <2>2, <2>3, InRange DEF Holdings, FlockMatches, SlotOwner
  <2> QED BY <2>4, <2>5 DEF Holdings
<1>9. ASSUME NEW c \in Callers, TrySlotFlock(c), GoTo(c, "trySlot", "nextSlot"), UNCHANGED flocked
      PROVE Holdings'
      BY <1>9, MoveKeepsHoldings DEF TrySlotFlock
<1>10. ASSUME NEW c \in Callers, Unflock(c) PROVE Holdings'
  <2>1. /\ pc[c] = "unflock"
        /\ \A d \in Callers : pc'[d] = IF d = c THEN "unlock" ELSE pc[d]
        /\ \A k \in Keys, s \in Slots :
              flocked'[k][s] = IF k = want[c] /\ s = at[c] THEN Nobody ELSE flocked[k][s]
        /\ UNCHANGED <<want, at, mutex>>
        BY <1>10, GoToCells, SetSlotCells DEF Unflock
  <2>2. \A d \in Callers : /\ pc'[d] \in UnderMutex <=> pc[d] \in UnderMutex
                           /\ pc'[d] \in UnderFlock <=> d # c /\ pc[d] \in UnderFlock
        BY <2>1
  <2>3. /\ SlotOwner(c) = c
        /\ \A d \in Callers : pc[d] \in UnderFlock => at[d] \in Slots
        BY <2>1, HeldSlots
  <2> HIDE DEF UnderMutex, UnderFlock
  <2>4. MutexMatches'
        BY <2>1, <2>2, InRange DEF Holdings, MutexMatches, LocalOwner
  <2>5. FlockMatches'
        BY <2>1, <2>2, <2>3, InRange DEF Holdings, FlockMatches, SlotOwner
  <2> QED BY <2>4, <2>5 DEF Holdings
<1>11. ASSUME NEW c \in Callers, Tick(c) PROVE Holdings'
  <2>1. /\ pc[c] = "wait" /\ pc'[c] = "scan"
        /\ \A d \in Callers \ {c} : pc'[d] = pc[d]
        BY <1>11, GoToCells DEF Tick
  <2>2. \A d \in Callers \ {c} : at'[d] = at[d]
        BY <1>11 DEF Tick, TypeOK
  <2> QED BY <1>11, <2>1, <2>2, OutsideKeepsHoldings DEF Tick
<1>12. ASSUME NEW p \in Procs, Crash(p) PROVE Holdings'
  <2>1. /\ \A d \in Callers : pc'[d] = IF ProcOf[d] = p THEN "idle" ELSE pc[d]
        /\ \A q \in Procs, k \in Keys, s \in Slots :
              mutex'[q][k][s] = IF q = p THEN Nobody ELSE mutex[q][k][s]
        /\ \A k \in Keys, s \in Slots :
              flocked'[k][s] = IF flocked[k][s] # Nobody /\ ProcOf[flocked[k][s]] = p
                               THEN Nobody ELSE flocked[k][s]
        /\ UNCHANGED <<want, at>>
        BY <1>12 DEF Crash, TypeOK
  <2>2. \A d \in Callers :
           /\ pc'[d] \in UnderMutex <=> ProcOf[d] # p /\ pc[d] \in UnderMutex
           /\ pc'[d] \in UnderFlock <=> ProcOf[d] # p /\ pc[d] \in UnderFlock
        BY <2>1
  <2> HIDE DEF UnderMutex, UnderFlock
  <2>3. MutexMatches'
    <3>1. ASSUME NEW q \in Procs, NEW k \in Keys, NEW s \in Slots, mutex'[q][k][s] # Nobody
          PROVE  LET d == mutex'[q][k][s] IN
                 ProcOf[d] = q /\ want'[d] = k /\ at'[d] = s /\ pc'[d] \in UnderMutex
          BY <2>1, <2>2, <3>1, InRange DEF Holdings, MutexMatches
    <3>2. ASSUME NEW d \in Callers, pc'[d] \in UnderMutex
          PROVE  at'[d] < Limit[d] /\ LocalOwner(d)' = d
      <4>1. /\ ProcOf[d] # p /\ LocalOwner(d) = d /\ at[d] < Limit[d]
            /\ at[d] \in Slots /\ want[d] \in Keys /\ ProcOf[d] \in Procs
            BY <2>2, <3>2, HeldSlots, InRange
      <4> QED BY <2>1, <4>1 DEF LocalOwner
    <3> QED BY <3>1, <3>2 DEF MutexMatches
  <2>4. FlockMatches'
    <3>1. ASSUME NEW k \in Keys, NEW s \in Slots, flocked'[k][s] # Nobody
          PROVE  LET d == flocked'[k][s] IN
                 want'[d] = k /\ at'[d] = s /\ pc'[d] \in UnderFlock
          BY <2>1, <2>2, <3>1, InRange DEF Holdings, FlockMatches
    <3>2. ASSUME NEW d \in Callers, pc'[d] \in UnderFlock PROVE SlotOwner(d)' = d
      <4>1. /\ ProcOf[d] # p /\ SlotOwner(d) = d
            /\ at[d] \in Slots /\ want[d] \in Keys
            BY <2>2, <3>2, HeldSlots, InRange, UnderFlockUnderMutex
      <4> QED BY <2>1, <4>1 DEF SlotOwner
    <3> QED BY <3>1, <3>2 DEF FlockMatches
  <2> QED BY <2>3, <2>4 DEF Holdings
<1>13. CASE UNCHANGED vars
       BY <1>13 DEF vars, Holdings, MutexMatches, FlockMatches, LocalOwner, SlotOwner
<1>14. ASSUME NEW c \in Callers, TrySlotMutex(c) PROVE Holdings'
       BY <1>3, <1>4, <1>14 DEF TrySlotMutex
<1>15. ASSUME NEW c \in Callers, TrySlotFlock(c) PROVE Holdings'
       BY <1>8, <1>9, <1>15 DEF TrySlotFlock
<1> QED
    BY <1>1, <1>2, <1>5, <1>6, <1>7, <1>10, <1>11, <1>12, <1>13, <1>14, <1>15
    DEF Next, Scan, Prepare, Return

(* Where the callers are determines who holds which slot.                  *)
THEOREM HoldingsInvariant == Spec => []Holdings
<1> QED BY TypeCorrect, HoldingsInit, HoldingsStep, PTL DEF Spec

-------------------------------------------------------------------------------
(* Callers that hold different slots of 0 .. m-1 are at most m.            *)
LEMMA DistinctSlotsBound ==
    ASSUME NEW m \in Nat, NEW C \in SUBSET Callers,
           \A c \in C : at[c] \in 0 .. m - 1,
           \A c, d \in C : at[c] = at[d] => c = d
    PROVE  IsFiniteSet(C) /\ Cardinality(C) <= m
<1> DEFINE f == [c \in C |-> at[c]]
<1>1. f \in Injection(C, 0 .. m - 1)
      BY DEF Injection, IsInjective
<1>2. IsFiniteSet(0 .. m - 1) /\ Cardinality(0 .. m - 1) <= m
      BY FS_Interval
<1>3. IsFiniteSet(C) /\ Cardinality(C) <= Cardinality(0 .. m - 1)
      BY <1>1, <1>2, FS_Injection
<1>4. Cardinality(C) \in Nat /\ Cardinality(0 .. m - 1) \in Nat
      BY <1>2, <1>3, FS_CardinalityType
<1> QED BY <1>2, <1>3, <1>4

(* A holder of a slot of key k is under the flock, in a slot of its own.   *)
LEMMA HolderSlots ==
    ASSUME TypeOK, Holdings, NEW k \in Keys
    PROVE  /\ Holders[k] = {c \in Callers : pc[c] \in UnderFlock /\ want[c] = k}
           /\ \A c \in Holders[k] : at[c] \in Nat /\ at[c] < Limit[c]
           /\ \A c, d \in Holders[k] : at[c] = at[d] => c = d
<1>1. ASSUME NEW c \in Holders[k] PROVE c \in Callers /\ pc[c] \in UnderFlock /\ want[c] = k
  <2>1. PICK s \in Slots : c \in Callers /\ flocked[k][s] = c
        BY DEF Holders
  <2>2. flocked[k][s] # Nobody
        BY <2>1
  <2> QED BY <2>1, <2>2 DEF Holdings, FlockMatches
<1>2. ASSUME NEW c \in Callers, pc[c] \in UnderFlock, want[c] = k
      PROVE  /\ c \in Holders[k]
             /\ at[c] \in Nat /\ at[c] < Limit[c] /\ flocked[k][at[c]] = c
      BY <1>2, HeldSlots, InRange, UnderFlockUnderMutex DEF Holders, SlotOwner
<1>3. Holders[k] = {c \in Callers : pc[c] \in UnderFlock /\ want[c] = k}
      BY <1>1, <1>2
<1> QED BY <1>1, <1>2, <1>3

(* The holders of a key always satisfy the semaphore's bound.              *)
AllFit == \A k \in Keys : Sem!Fits(Holders[k])

(* The Cardinality that the instance of Semaphore sees is the usual one.   *)
LEMMA SameCardinality == ASSUME NEW S PROVE Sem!Cardinality(S) = Cardinality(S)
BY DEF Sem!Cardinality, Cardinality

(* The callers that hold a slot fit: those with a limit of at most n hold  *)
(* different slots below n.                                                *)
LEMMA HoldersFit == TypeOK /\ Holdings => AllFit
<1> SUFFICES ASSUME TypeOK, Holdings, NEW k \in Keys PROVE Sem!Fits(Holders[k])
    BY DEF AllFit
<1> SUFFICES ASSUME NEW d \in Holders[k]
             PROVE  Cardinality({c \in Holders[k] : Limit[c] <= Limit[d]}) <= Limit[d]
    BY SameCardinality DEF Sem!Fits
<1> DEFINE C == {c \in Holders[k] : Limit[c] <= Limit[d]}
<1>1. C \in SUBSET Callers /\ d \in Callers
      BY HolderSlots
<1>2. Limit[d] \in Nat /\ \A c \in Callers : Limit[c] \in Nat
      BY <1>1, LimitType
<1>3. \A c \in C : at[c] \in 0 .. Limit[d] - 1
      BY <1>1, <1>2, HolderSlots
<1>4. \A c, e \in C : at[c] = at[e] => c = e
      BY HolderSlots
<1> HIDE DEF C
<1>5. Cardinality(C) <= Limit[d]
      BY <1>1, <1>2, <1>3, <1>4, DistinctSlotsBound
<1> QED BY <1>5 DEF C

(* No more callers with a limit of at most m are inside fn for a backend   *)
(* than m: they are holders with slots below m.                            *)
THEOREM Bounded == Spec => []AtMostLimit
<1>1. TypeOK /\ Holdings => AtMostLimit
  <2> SUFFICES ASSUME TypeOK, Holdings, NEW k \in Keys, NEW p \in Procs
               PROVE  Cardinality(Inside(k, Capacity[p])) <= Capacity[p]
      BY DEF AtMostLimit
  <2> DEFINE C == Inside(k, Capacity[p])
  <2>1. Capacity[p] \in Nat /\ \A c \in Callers : Limit[c] \in Nat
        BY LimitType
  <2>2. C \in SUBSET Callers /\ \A c \in C : c \in Holders[k] /\ Limit[c] <= Capacity[p]
        BY HolderSlots DEF Inside, UnderFlock
  <2>3. \A c \in C : at[c] \in 0 .. Capacity[p] - 1
        BY <2>1, <2>2, HolderSlots
  <2>4. \A c, d \in C : at[c] = at[d] => c = d
        BY <2>2, HolderSlots
  <2> HIDE DEF C
  <2>5. Cardinality(C) <= Capacity[p]
        BY <2>1, <2>2, <2>3, <2>4, DistinctSlotsBound
  <2> QED BY <2>5 DEF C
<1> QED BY <1>1, TypeCorrect, HoldingsInvariant, PTL

(* Two callers inside fn for one backend hold different slots.             *)
THEOREM Distinct == Spec => []SlotsDistinct
<1>1. TypeOK /\ Holdings => SlotsDistinct
  <2> SUFFICES ASSUME TypeOK, Holdings, NEW c \in Callers, NEW d \in Callers,
                      pc[c] = "fn", pc[d] = "fn", want[c] = want[d], at[c] = at[d]
               PROVE  c = d
      BY DEF SlotsDistinct
  <2>1. SlotOwner(c) = c /\ SlotOwner(d) = d
        BY HeldSlots DEF UnderFlock
  <2> QED BY <2>1 DEF SlotOwner
<1> QED BY <1>1, TypeCorrect, HoldingsInvariant, PTL

(* A caller that returned, failed or waits for the next scan has nothing.  *)
THEOREM NothingLeaks == Spec => []NothingKept
<1>1. TypeOK /\ Holdings => NothingKept
  <2> SUFFICES ASSUME TypeOK, Holdings, NEW c \in Callers,
                      pc[c] \in {"idle", "wait", "fnUnlimited"},
                      NEW k \in Keys, NEW s \in Slots
               PROVE  flocked[k][s] # c /\ \A p \in Procs : mutex[p][k][s] # c
      BY DEF NothingKept
  <2>1. c # Nobody
        OBVIOUS
  <2>2. pc[c] \notin UnderMutex /\ pc[c] \notin UnderFlock
        BY DEF UnderMutex, UnderFlock
  <2> QED BY <2>1, <2>2 DEF Holdings, MutexMatches, FlockMatches
<1> QED BY <1>1, TypeCorrect, HoldingsInvariant, PTL

-------------------------------------------------------------------------------
(* The initial states are initial states of Semaphore.                     *)
LEMMA SemInit == Init => Sem!Init
<1> SUFFICES ASSUME Init PROVE Holders = [k \in Keys |-> {}]
    BY DEF Sem!Init
<1> QED BY DEF Init, Holders

(* Every step is a step of Semaphore or changes no holder: only            *)
(* TrySlotFlock adds one, Unflock and a crash take them away.              *)
LEMMA SemStep == TypeOK /\ Holdings /\ [Next]_vars /\ TypeOK' /\ Holdings'
                 => [Sem!Next]_Holders
<1> SUFFICES ASSUME TypeOK, Holdings, [Next]_vars, TypeOK', Holdings', Holders' # Holders
             PROVE  Sem!Next
    OBVIOUS
<1>1. AllFit'
      BY HoldersFit, PTL
<1>2. flocked' # flocked
      BY DEF Holders
<1>3. ASSUME NEW c \in Callers, TrySlotFlock(c) PROVE Sem!Next
  <2>1. /\ pc[c] = "trySlot" /\ want[c] \in Keys /\ SlotOwner(c) = Nobody /\ SetSlot(c, c)
        /\ at[c] \in Slots
        BY <1>2, <1>3, InRange, HeldSlots DEF TrySlotFlock, GoTo, UnderMutex
  <2>2. \A k \in Keys, s \in Slots :
           flocked'[k][s] = IF k = want[c] /\ s = at[c] THEN c ELSE flocked[k][s]
        BY <2>1, SetSlotCells
  <2>3. flocked[want[c]][at[c]] = Nobody
        BY <2>1 DEF SlotOwner
  <2>4. Holders' = [Holders EXCEPT ![want[c]] = @ \cup {c}]
    <3>1. ASSUME NEW k \in Keys
          PROVE  Holders'[k] = IF k = want[c] THEN Holders[k] \cup {c} ELSE Holders[k]
      <4>1. \A d \in Callers : (\E s \in Slots : flocked'[k][s] = d)
               <=> (\E s \in Slots : flocked[k][s] = d) \/ (k = want[c] /\ d = c)
            BY <2>1, <2>2, <2>3
      <4> QED BY <4>1 DEF Holders
    <3> QED BY <3>1, <2>1 DEF Holders
  <2>5. c \notin Holders[want[c]]
        BY <2>1, HolderSlots DEF UnderFlock
  <2>6. Holders'[want[c]] = Holders[want[c]] \cup {c}
        BY <2>1, <2>4 DEF Holders
  <2>7. Sem!Fits(Holders[want[c]] \cup {c})
        BY <1>1, <2>1, <2>6 DEF AllFit
  <2>8. Sem!Acquire(c, want[c])
        BY <2>4, <2>5, <2>7 DEF Sem!Acquire
  <2> QED BY <2>1, <2>8 DEF Sem!Next
<1>4. ASSUME NEW c \in Callers, Unflock(c) PROVE Sem!Next
  <2>1. /\ pc[c] \in UnderFlock /\ want[c] \in Keys /\ SetSlot(c, Nobody)
        /\ at[c] \in Slots /\ flocked[want[c]][at[c]] = c
        BY <1>4, InRange, HeldSlots, UnderFlockUnderMutex
        DEF Unflock, GoTo, UnderFlock, SlotOwner
  <2>2. \A k \in Keys, s \in Slots :
           flocked'[k][s] = IF k = want[c] /\ s = at[c] THEN Nobody ELSE flocked[k][s]
        BY <2>1, SetSlotCells
  <2>3. \A s \in Slots : flocked[want[c]][s] = c => s = at[c]
        BY <2>1 DEF Holdings, FlockMatches
  <2>4. Holders' = [Holders EXCEPT ![want[c]] = @ \ {c}]
    <3>1. ASSUME NEW k \in Keys
          PROVE  Holders'[k] = IF k = want[c] THEN Holders[k] \ {c} ELSE Holders[k]
      <4>1. \A d \in Callers : (\E s \in Slots : flocked'[k][s] = d)
               <=> (\E s \in Slots : flocked[k][s] = d) /\ ~(k = want[c] /\ d = c)
            BY <2>1, <2>2, <2>3
      <4> QED BY <4>1 DEF Holders
    <3> QED BY <3>1, <2>1 DEF Holders
  <2>5. c \in Holders[want[c]]
        BY <2>1, HolderSlots
  <2>6. Sem!Release(c, want[c])
        BY <2>4, <2>5 DEF Sem!Release
  <2> QED BY <2>1, <2>6 DEF Sem!Next
<1>5. ASSUME NEW p \in Procs, Crash(p) PROVE Sem!Next
  <2> DEFINE dead == {c \in Callers : ProcOf[c] = p}
  <2>1. \A k \in Keys, s \in Slots :
           flocked'[k][s] = IF flocked[k][s] \in dead THEN Nobody ELSE flocked[k][s]
        BY <1>5 DEF Crash
  <2>2. Holders' = [k \in Keys |-> Holders[k] \ dead]
        BY <2>1 DEF Holders
  <2> HIDE DEF dead
  <2>3. Sem!ReleaseAll(dead)
        BY <2>2 DEF Sem!ReleaseAll
  <2>4. dead \in SUBSET Callers
        BY DEF dead
  <2> QED BY <2>3, <2>4 DEF Sem!Next
<1> QED
    BY <1>2, <1>3, <1>4, <1>5
    DEF Next, vars, Call, Expire, Scan, GiveUp, Prepare, Return, TrySlotMutex, NoSlot,
        LeaveSlot, Tick, OpenSlot, SlotFails, FailUnlock, FnReturns, UnlockSlot

(* write_limiter.go implements Semaphore: taking a slot's flock is         *)
(* Acquire, dropping it is Release, a crash is ReleaseAll.                 *)
THEOREM Refinement == Spec => ImplementsSemaphore
<1> QED BY TypeCorrect, HoldingsInvariant, SemInit, SemStep, PTL
        DEF Spec, ImplementsSemaphore, Sem!Spec
================================================================================
