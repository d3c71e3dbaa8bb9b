------------------------------ MODULE LockManager ------------------------------
(***************************************************************************)
(* internal/daemon/lock.go: lockManager.with.  A key is protected twice:   *)
(* by an in-process sync.Mutex (polled with TryLock) and by a flock on a   *)
(* file named after the key, which excludes the callers of the other       *)
(* operating-system processes (the daemon and the commands started with    *)
(* docker exec).  Both waits poll every 100 ms until the wait context      *)
(* expires.                                                                *)
(*                                                                         *)
(* A caller is one activation of with(); a nested call (a restore takes    *)
(* the source lock inside the repository lock) is another caller of the    *)
(* same process.  lockFileName is taken to be injective (SHA-256).         *)
(***************************************************************************)
CONSTANTS Callers, Keys, Nobody,
          Procs,     \* operating-system processes sharing the lock directory
          ProcOf     \* ProcOf[c]: the process caller c runs in

ASSUME LockManagerAssumption ==
    /\ Nobody \notin Callers
    /\ ProcOf \in [Callers -> Procs]

VARIABLES
    pc,       \* pc[c]: where caller c is inside with()
    want,     \* want[c]: the key c asked for
    mutex,    \* mutex[p][k]: the caller that locked byName[k] of process p
    flocked,  \* flocked[k]: the caller whose open file holds the flock of k
    open,     \* callers that hold an open lock file
    expired   \* expired[c]: waitCtx of c is done (timeout or cancellation)

vars == <<pc, want, mutex, flocked, open, expired>>

Waiting == {"tryLocal", "waitLocal", "open", "tryFlock", "waitFlock"}
Returning == {"unflock", "close", "unlock"}
Steps == {"idle", "fn"} \cup Waiting \cup Returning

(* Program counters, mutexes, flocks and open files keep their types.      *)
TypeOK ==
    /\ pc \in [Callers -> Steps]
    /\ want \in [Callers -> Keys]
    /\ mutex \in [Procs -> [Keys -> Callers \cup {Nobody}]]
    /\ flocked \in [Keys -> Callers \cup {Nobody}]
    /\ open \in SUBSET Callers
    /\ expired \in [Callers -> BOOLEAN]

Init ==
    /\ pc = [c \in Callers |-> "idle"]
    /\ want \in [Callers -> Keys]
    /\ mutex = [p \in Procs |-> [k \in Keys |-> Nobody]]
    /\ flocked = [k \in Keys |-> Nobody]
    /\ open = {}
    /\ expired = [c \in Callers |-> FALSE]

GoTo(c, from, to) ==
    /\ pc[c] = from
    /\ pc' = [pc EXCEPT ![c] = to]

LocalOwner(c) == mutex[ProcOf[c]][want[c]]

SetLocal(c, o) == mutex' = [mutex EXCEPT ![ProcOf[c]][want[c]] = o]

-------------------------------------------------------------------------------
(* Plausible bugs, one for each property: flock without a look at its      *)
(* result, a deferred unlock in the wrong order, one forgotten, an error   *)
(* path without its unlock, a wait that ignores its context, an unlock of  *)
(* the process's whole table.                                              *)
BugFlockUnchecked(c) ==
    /\ GoTo(c, "tryFlock", "fn")
    /\ flocked' = [flocked EXCEPT ![want[c]] = c]
    /\ UNCHANGED <<want, mutex, open, expired>>

BugOpenFailsLeavesMutex(c) ==
    /\ GoTo(c, "open", "idle")
    /\ UNCHANGED <<want, mutex, flocked, open, expired>>

BugWaitsForEver(c) ==
    /\ FALSE
    /\ UNCHANGED vars

BugUnlockKey(c) ==
    /\ GoTo(c, "unlock", "idle")
    /\ mutex' = [mutex EXCEPT ![ProcOf[c]] = Nobody]
    /\ UNCHANGED <<want, flocked, open, expired>>

-------------------------------------------------------------------------------
(* with() is entered.  The parent context may already be cancelled: the    *)
(* first TryLock does not look at it.                                      *)
Call(c, k, cancelled) ==
    /\ GoTo(c, "idle", "tryLocal")
    /\ want' = [want EXCEPT ![c] = k]
    /\ expired' = [expired EXCEPT ![c] = cancelled]
    /\ UNCHANGED <<mutex, flocked, open>>

(* lockWaitContext: the timeout ran out or the parent was cancelled.       *)
Expire(c) ==
    /\ pc[c] \in Waiting
    /\ ~expired[c]
    /\ expired' = [expired EXCEPT ![c] = TRUE]
    /\ UNCHANGED <<pc, want, mutex, flocked, open>>

(* acquireLocalLock: TryLock, else wait for the tick or for the context.   *)
TryLocal(c) ==
    /\ \/ /\ LocalOwner(c) = Nobody
          /\ GoTo(c, "tryLocal", "open")
          /\ SetLocal(c, c)
       \/ /\ LocalOwner(c) # Nobody
          /\ GoTo(c, "tryLocal", "waitLocal")
          /\ UNCHANGED mutex
    /\ UNCHANGED <<want, flocked, open, expired>>

TickLocal(c) ==
    /\ GoTo(c, "waitLocal", "tryLocal")
    /\ UNCHANGED <<want, mutex, flocked, open, expired>>

GiveUpLocal(c) ==
    /\ expired[c]
    /\ GoTo(c, "waitLocal", "idle")
    /\ UNCHANGED <<want, mutex, flocked, open, expired>>

(* MkdirAll and OpenFile; on failure only the mutex has to be undone.      *)
OpenFile(c) ==
    /\ GoTo(c, "open", "tryFlock")
    /\ open' = open \cup {c}
    /\ UNCHANGED <<want, mutex, flocked, expired>>

OpenFails(c) ==
    /\ GoTo(c, "open", "unlock")
    /\ UNCHANGED <<want, mutex, flocked, open, expired>>

(* flock: LOCK_EX|LOCK_NB, EWOULDBLOCK means wait, any other errno fails.  *)
TryFlock(c) ==
    /\ \/ /\ flocked[want[c]] = Nobody
          /\ GoTo(c, "tryFlock", "fn")
          /\ flocked' = [flocked EXCEPT ![want[c]] = c]
       \/ /\ flocked[want[c]] # Nobody
          /\ GoTo(c, "tryFlock", "waitFlock")
          /\ UNCHANGED flocked
    /\ UNCHANGED <<want, mutex, open, expired>>

FlockFails(c) ==
    /\ GoTo(c, "tryFlock", "close")
    /\ UNCHANGED <<want, mutex, flocked, open, expired>>

TickFlock(c) ==
    /\ GoTo(c, "waitFlock", "tryFlock")
    /\ UNCHANGED <<want, mutex, flocked, open, expired>>

GiveUpFlock(c) ==
    /\ expired[c]
    /\ GoTo(c, "waitFlock", "close")
    /\ UNCHANGED <<want, mutex, flocked, open, expired>>

(* fn returned (whatever its error): the deferred calls run in LIFO order. *)
FnReturns(c) ==
    /\ GoTo(c, "fn", "unflock")
    /\ UNCHANGED <<want, mutex, flocked, open, expired>>

Unflock(c) ==
    /\ GoTo(c, "unflock", "close")
    /\ flocked' = [flocked EXCEPT ![want[c]] = Nobody]
    /\ UNCHANGED <<want, mutex, open, expired>>

CloseFile(c) ==
    /\ GoTo(c, "close", "unlock")
    /\ open' = open \ {c}
    /\ UNCHANGED <<want, mutex, flocked, expired>>

UnlockLocal(c) ==
    /\ GoTo(c, "unlock", "idle")
    /\ SetLocal(c, Nobody)
    /\ UNCHANGED <<want, flocked, open, expired>>

(* Process p is killed and started again: its mutexes are gone with its    *)
(* memory, and the kernel closes its files, which drops their flocks.      *)
Crash(p) ==
    LET dead == {c \in Callers : ProcOf[c] = p} IN
    /\ \E c \in dead : pc[c] # "idle"
    /\ pc' = [c \in Callers |-> IF c \in dead THEN "idle" ELSE pc[c]]
    /\ mutex' = [mutex EXCEPT ![p] = [k \in Keys |-> Nobody]]
    /\ flocked' = [k \in Keys |-> IF flocked[k] \in dead THEN Nobody ELSE flocked[k]]
    /\ open' = open \ dead
    /\ UNCHANGED <<want, expired>>

-------------------------------------------------------------------------------
Poll(c) == TryLocal(c) \/ TickLocal(c) \/ TryFlock(c) \/ TickFlock(c)
GiveUp(c) == GiveUpLocal(c) \/ GiveUpFlock(c)
Prepare(c) == OpenFile(c) \/ OpenFails(c) \/ FlockFails(c)
Return(c) == FnReturns(c) \/ Unflock(c) \/ CloseFile(c) \/ UnlockLocal(c)

Next ==
    \/ \E c \in Callers :
          \/ \E k \in Keys, cancelled \in BOOLEAN : Call(c, k, cancelled)
          \/ Expire(c) \/ Poll(c) \/ GiveUp(c) \/ Prepare(c) \/ Return(c)
    \/ \E p \in Procs : Crash(p)

(* Every goroutine is scheduled and the timer of waitCtx fires.  A select  *)
(* entered with the context done and the tick 100 ms away takes the        *)
(* context's case: a caller that keeps polling after the expiry gives up   *)
(* (strong fairness, since the polling itself disables the wait).  Nothing *)
(* is assumed of fn: a worker may run for ever.                            *)
Fairness ==
    \A c \in Callers :
        /\ WF_vars(Expire(c))
        /\ WF_vars(Poll(c) \/ Prepare(c))
        /\ SF_vars(GiveUp(c))
        /\ WF_vars(Unflock(c) \/ CloseFile(c) \/ UnlockLocal(c))

Spec == Init /\ [][Next]_vars
FairSpec == Spec /\ Fairness

-------------------------------------------------------------------------------
(* Two callers are never inside fn with the same key, in whichever         *)
(* processes they run (WithSourceLock, lock.go:56).                        *)
MutualExclusion ==
    \A c, d \in Callers :
        (pc[c] = "fn" /\ pc[d] = "fn" /\ want[c] = want[d]) => c = d

(* Whatever way with() returned (after fn, on a timeout, on an open or     *)
(* flock error) or was cut by a crash, the caller keeps nothing: no mutex, *)
(* no flock and no open file (the deferred calls of lock.go:68-81).        *)
NothingKept ==
    \A c \in Callers : pc[c] = "idle" =>
        /\ c \notin open
        /\ \A k \in Keys : flocked[k] # c
        /\ \A p \in Procs, k \in Keys : mutex[p][k] # c

(* Who holds what follows from where each caller is, and what is held has  *)
(* a caller that will give it back: the strengthening of the safety        *)
(* properties above that every step of with() preserves.                   *)
UnderMutex == {"open", "tryFlock", "waitFlock", "fn"} \cup Returning
UnderFlock == {"fn", "unflock"}
WithFile == {"tryFlock", "waitFlock", "close"} \cup UnderFlock

MutexMatches ==
    /\ \A p \in Procs, k \in Keys : mutex[p][k] # Nobody =>
          LET c == mutex[p][k] IN
          ProcOf[c] = p /\ want[c] = k /\ pc[c] \in UnderMutex
    /\ \A c \in Callers : pc[c] \in UnderMutex => LocalOwner(c) = c

FlockMatches ==
    /\ \A k \in Keys : flocked[k] # Nobody =>
          want[flocked[k]] = k /\ pc[flocked[k]] \in UnderFlock
    /\ \A c \in Callers : pc[c] \in UnderFlock => flocked[want[c]] = c

FileMatches == \A c \in Callers : c \in open <=> pc[c] \in WithFile

(* Where a caller is in with() determines which mutex, flock and open file *)
(* it holds, and nobody holds others (lock.go:60-83).                      *)
Holdings == MutexMatches /\ FlockMatches /\ FileMatches

(* The flock of a key is held only under the process's mutex of that key,  *)
(* so a process never queues for a flock it holds itself (lock.go:64-78).  *)
FlockUnderMutex ==
    \A k \in Keys : flocked[k] # Nobody =>
        LET c == flocked[k] IN
        /\ want[c] = k
        /\ c \in open
        /\ mutex[ProcOf[c]][k] = c

(* A call of with() does not wait for ever, even behind a holder that      *)
(* never returns: it enters fn or returns (VOLUST_LOCK_TIMEOUT,            *)
(* lock.go:130).                                                           *)
EntersOrReturns ==
    \A c \in Callers : (pc[c] \in Waiting) ~> (pc[c] \in {"fn", "idle"})

Mutex == INSTANCE KeyedMutex WITH owner <- flocked

(* lock.go implements one exclusive lock per key: the flock is the owner.  *)
ImplementsKeyedMutex == Mutex!Spec
================================================================================
