------------------------------ MODULE WriteLimiter ------------------------------
(***************************************************************************)
(* internal/daemon/write_limiter.go: WriteLimiter.With.  A backend has one *)
(* lock file per slot; a caller scans the slots 0 .. limit-1, each behind  *)
(* an in-process mutex and a flock, takes the first one it gets and scans  *)
(* again every 100 ms until its wait context expires.  A limit of 0 (and a *)
(* nil limiter) lets the caller through without a slot.                    *)
(*                                                                         *)
(* A caller is one activation of With; slot files are named after the key  *)
(* and the slot (lockFileName is taken to be injective).                   *)
(***************************************************************************)
EXTENDS Naturals, FiniteSets

CONSTANTS Callers, Keys, Nobody,
          Procs,      \* operating-system processes sharing the slot directory
          ProcOf,     \* ProcOf[c]: the process caller c runs in
          Capacity    \* Capacity[p]: VOLUST_MAX_CONCURRENT_WRITES of process p

ASSUME WriteLimiterAssumption ==
    /\ Nobody \notin Callers
    /\ ProcOf \in [Callers -> Procs]
    /\ Capacity \in [Procs -> Nat]

Limit == [c \in Callers |-> Capacity[ProcOf[c]]]
Slots == UNION {0 .. Capacity[p] - 1 : p \in Procs}

VARIABLES
    pc,       \* pc[c]: where caller c is inside With
    want,     \* want[c]: the key (backend) c asked for
    at,       \* at[c]: the slot c is trying, or holds
    mutex,    \* mutex[p][k][s]: the caller that locked slot s's mutex in p
    flocked,  \* flocked[k][s]: the caller whose file holds the flock of slot s
    expired   \* expired[c]: waitCtx of c is done

vars == <<pc, want, at, mutex, flocked, expired>>

Scanning == {"scan", "openSlot", "trySlot", "nextSlot", "wait"}
Steps == {"idle", "fn", "fnUnlimited", "unflock", "unlock", "fail"} \cup Scanning

(* Program counters, slot mutexes and slot flocks keep their types.        *)
TypeOK ==
    /\ pc \in [Callers -> Steps]
    /\ want \in [Callers -> Keys]
    /\ at \in [Callers -> Nat]
    /\ mutex \in [Procs -> [Keys -> [Slots -> Callers \cup {Nobody}]]]
    /\ flocked \in [Keys -> [Slots -> Callers \cup {Nobody}]]
    /\ expired \in [Callers -> BOOLEAN]

Init ==
    /\ pc = [c \in Callers |-> "idle"]
    /\ want \in [Callers -> Keys]
    /\ at = [c \in Callers |-> 0]
    /\ mutex = [p \in Procs |-> [k \in Keys |-> [s \in Slots |-> Nobody]]]
    /\ flocked = [k \in Keys |-> [s \in Slots |-> Nobody]]
    /\ expired = [c \in Callers |-> FALSE]

GoTo(c, from, to) ==
    /\ pc[c] = from
    /\ pc' = [pc EXCEPT ![c] = to]

LocalOwner(c) == mutex[ProcOf[c]][want[c]][at[c]]
SetLocal(c, o) == mutex' = [mutex EXCEPT ![ProcOf[c]][want[c]][at[c]] = o]

SlotOwner(c) == flocked[want[c]][at[c]]
SetSlot(c, o) == flocked' = [flocked EXCEPT ![want[c]][at[c]] = o]

MoveOn(c) == at' = [at EXCEPT ![c] = @ + 1]

-------------------------------------------------------------------------------
(* Plausible bugs, which the properties below must catch.                  *)
BugFlockUnchecked(c) ==
    /\ GoTo(c, "trySlot", "fn")
    /\ SetSlot(c, c)
    /\ UNCHANGED <<want, at, mutex, expired>>

BugErrorKeepsMutex(c) ==
    /\ GoTo(c, "openSlot", "idle") \/ GoTo(c, "trySlot", "idle")
    /\ UNCHANGED <<want, at, mutex, flocked, expired>>

BugForgetsKey(c) ==
    /\ GoTo(c, "unlock", "idle")
    /\ mutex' = [mutex EXCEPT ![ProcOf[c]][want[c]] = Nobody]
    /\ UNCHANGED <<want, at, flocked, expired>>

BugWaitsForEver(c) ==
    /\ FALSE
    /\ UNCHANGED vars

-------------------------------------------------------------------------------
(* With is entered: without a limit straight to fn, else to the first      *)
(* scan, which does not look at the context.                               *)
Call(c, k, cancelled) ==
    /\ \/ Limit[c] = 0 /\ GoTo(c, "idle", "fnUnlimited")
       \/ Limit[c] > 0 /\ GoTo(c, "idle", "scan")
    /\ want' = [want EXCEPT ![c] = k]
    /\ at' = [at EXCEPT ![c] = 0]
    /\ expired' = [expired EXCEPT ![c] = cancelled]
    /\ UNCHANGED <<mutex, flocked>>

Expire(c) ==
    /\ pc[c] \in Scanning
    /\ ~expired[c]
    /\ expired' = [expired EXCEPT ![c] = TRUE]
    /\ UNCHANGED <<pc, want, at, mutex, flocked>>

(* tryAcquireSlot: TryLock of the slot's mutex; busy means the next slot.  *)
TrySlotMutex(c) ==
    /\ at[c] < Limit[c]
    /\ \/ /\ LocalOwner(c) = Nobody
          /\ GoTo(c, "scan", "openSlot")
          /\ SetLocal(c, c)
          /\ UNCHANGED at
       \/ /\ LocalOwner(c) # Nobody
          /\ pc[c] = "scan"
          /\ MoveOn(c)
          /\ UNCHANGED <<pc, mutex>>
    /\ UNCHANGED <<want, flocked, expired>>

(* tryAcquire found no slot: wait for the tick or for the context.         *)
NoSlot(c) ==
    /\ at[c] >= Limit[c]
    /\ GoTo(c, "scan", "wait")
    /\ UNCHANGED <<want, at, mutex, flocked, expired>>

OpenSlot(c) ==
    /\ GoTo(c, "openSlot", "trySlot")
    /\ UNCHANGED <<want, at, mutex, flocked, expired>>

(* OpenFile fails, or flock fails with anything but EWOULDBLOCK: the error *)
(* is returned after the mutex is given back.                              *)
SlotFails(c) ==
    /\ GoTo(c, "openSlot", "fail") \/ GoTo(c, "trySlot", "fail")
    /\ UNCHANGED <<want, at, mutex, flocked, expired>>

FailUnlock(c) ==
    /\ GoTo(c, "fail", "idle")
    /\ SetLocal(c, Nobody)
    /\ UNCHANGED <<want, at, flocked, expired>>

(* flock of the slot's file: LOCK_EX|LOCK_NB.                              *)
TrySlotFlock(c) ==
    /\ \/ /\ GoTo(c, "trySlot", "fn")
          /\ SlotOwner(c) = Nobody
          /\ SetSlot(c, c)
       \/ /\ GoTo(c, "trySlot", "nextSlot")
          /\ SlotOwner(c) # Nobody
          /\ UNCHANGED flocked
    /\ UNCHANGED <<want, at, mutex, expired>>

(* EWOULDBLOCK: the file is closed, the mutex unlocked, the scan goes on.  *)
LeaveSlot(c) ==
    /\ GoTo(c, "nextSlot", "scan")
    /\ SetLocal(c, Nobody)
    /\ MoveOn(c)
    /\ UNCHANGED <<want, flocked, expired>>

Tick(c) ==
    /\ GoTo(c, "wait", "scan")
    /\ at' = [at EXCEPT ![c] = 0]
    /\ UNCHANGED <<want, mutex, flocked, expired>>

GiveUp(c) ==
    /\ expired[c]
    /\ GoTo(c, "wait", "idle")
    /\ UNCHANGED <<want, at, mutex, flocked, expired>>

(* fn returned (whatever its error): release, if there is a slot.          *)
FnReturns(c) ==
    /\ GoTo(c, "fn", "unflock") \/ GoTo(c, "fnUnlimited", "idle")
    /\ UNCHANGED <<want, at, mutex, flocked, expired>>

Unflock(c) ==
    /\ GoTo(c, "unflock", "unlock")
    /\ SetSlot(c, Nobody)
    /\ UNCHANGED <<want, at, mutex, expired>>

UnlockSlot(c) ==
    /\ GoTo(c, "unlock", "idle")
    /\ SetLocal(c, Nobody)
    /\ UNCHANGED <<want, at, flocked, expired>>

(* Process p is killed and started again: its mutexes are gone with its    *)
(* memory, and the kernel closes its files, which drops their flocks.      *)
Crash(p) ==
    LET dead == {c \in Callers : ProcOf[c] = p} IN
    /\ \E c \in dead : pc[c] # "idle"
    /\ pc' = [c \in Callers |-> IF c \in dead THEN "idle" ELSE pc[c]]
    /\ mutex' = [mutex EXCEPT ![p] = [k \in Keys |-> [s \in Slots |-> Nobody]]]
    /\ flocked' = [k \in Keys |-> [s \in Slots |->
                     IF flocked[k][s] \in dead THEN Nobody ELSE flocked[k][s]]]
    /\ UNCHANGED <<want, at, expired>>

-------------------------------------------------------------------------------
Scan(c) == TrySlotMutex(c) \/ NoSlot(c) \/ TrySlotFlock(c) \/ LeaveSlot(c) \/ Tick(c)
Prepare(c) == OpenSlot(c) \/ SlotFails(c) \/ FailUnlock(c)
Return(c) == FnReturns(c) \/ Unflock(c) \/ UnlockSlot(c)

Next ==
    \/ \E c \in Callers :
          \/ \E k \in Keys, cancelled \in BOOLEAN : Call(c, k, cancelled)
          \/ Expire(c) \/ Scan(c) \/ GiveUp(c) \/ Prepare(c) \/ Return(c)
    \/ \E p \in Procs : Crash(p)

(* As in LockManager: goroutines are scheduled, the timer fires, and an    *)
(* expired caller that keeps coming back to the select gives up.           *)
Fairness ==
    \A c \in Callers :
        /\ WF_vars(Expire(c))
        /\ WF_vars(Scan(c) \/ Prepare(c))
        /\ SF_vars(GiveUp(c))
        /\ WF_vars(Unflock(c) \/ UnlockSlot(c))

Spec == Init /\ [][Next]_vars
FairSpec == Spec /\ Fairness

-------------------------------------------------------------------------------
Inside(k, m) == {c \in Callers : pc[c] = "fn" /\ want[c] = k /\ Limit[c] <= m}

(* No more callers with a limit of at most m are inside fn for one backend *)
(* than m, whichever processes they run in and whatever the limits of the  *)
(* others (WriteLimiter.With, write_limiter.go:40).                        *)
AtMostLimit ==
    \A k \in Keys, p \in Procs : Cardinality(Inside(k, Capacity[p])) <= Capacity[p]

(* Two callers inside fn for one backend hold different slots.             *)
SlotsDistinct ==
    \A c, d \in Callers :
        (pc[c] = "fn" /\ pc[d] = "fn" /\ want[c] = want[d] /\ at[c] = at[d]) => c = d

(* A caller that returned, timed out, failed, or is waiting for the next   *)
(* scan holds no slot and no slot mutex: the failures in the middle of the *)
(* scan gave back what they took (write_limiter.go:96-108).                *)
NothingKept ==
    \A c \in Callers : pc[c] \in {"idle", "wait", "fnUnlimited"} =>
        \A k \in Keys, s \in Slots :
            /\ flocked[k][s] # c
            /\ \A p \in Procs : mutex[p][k][s] # c

(* Who holds what follows from where each caller is: the strengthening of  *)
(* the properties above that every step preserves.                         *)
UnderMutex == {"openSlot", "trySlot", "nextSlot", "fail", "fn", "unflock", "unlock"}
UnderFlock == {"fn", "unflock"}

MutexMatches ==
    /\ \A p \in Procs, k \in Keys, s \in Slots : mutex[p][k][s] # Nobody =>
          LET c == mutex[p][k][s] IN
          ProcOf[c] = p /\ want[c] = k /\ at[c] = s /\ pc[c] \in UnderMutex
    /\ \A c \in Callers : pc[c] \in UnderMutex => at[c] < Limit[c] /\ LocalOwner(c) = c

FlockMatches ==
    /\ \A k \in Keys, s \in Slots : flocked[k][s] # Nobody =>
          LET c == flocked[k][s] IN want[c] = k /\ at[c] = s /\ pc[c] \in UnderFlock
    /\ \A c \in Callers : pc[c] \in UnderFlock => SlotOwner(c) = c

(* Where a caller is in With determines which slot mutex and which slot    *)
(* flock it holds, and nobody holds others (write_limiter.go:90-114).      *)
Holdings == MutexMatches /\ FlockMatches

(* A call of With does not wait for ever behind holders that never return. *)
EntersOrReturns ==
    \A c \in Callers : (pc[c] \in Scanning) ~> (pc[c] \in {"fn", "fail", "idle"})

Holders == [k \in Keys |-> {c \in Callers : \E s \in Slots : flocked[k][s] = c}]
Sem == INSTANCE Semaphore WITH holders <- Holders

(* write_limiter.go implements a semaphore per backend.                    *)
ImplementsSemaphore == Sem!Spec
================================================================================
