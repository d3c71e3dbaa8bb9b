------------------------------ MODULE KeyedMutex ------------------------------
(***************************************************************************)
(* What internal/daemon/lock.go promises to its callers: one exclusive     *)
(* lock per key.  A caller that got a key is its only owner until it gives *)
(* the key back or dies; the death of an operating-system process gives    *)
(* back everything its callers own.                                        *)
(*                                                                         *)
(* LockManager.tla refines this module; BackupRestore.tla is built on it.  *)
(***************************************************************************)
CONSTANTS Callers,   \* activations of WithSourceLock
          Keys,      \* lock keys
          Nobody     \* the owner of a free key, not a caller

VARIABLE owner       \* owner[k]: the caller that owns key k, or Nobody

(* Every key has one owner, a caller or nobody.                            *)
TypeOK == owner \in [Keys -> Callers \cup {Nobody}]

Init == owner = [k \in Keys |-> Nobody]

(* WithSourceLock reaches fn: only when nobody owns the key.               *)
Acquire(c, k) ==
    /\ owner[k] = Nobody
    /\ owner' = [owner EXCEPT ![k] = c]

(* fn returned.                                                            *)
Release(c, k) ==
    /\ owner[k] = c
    /\ owner' = [owner EXCEPT ![k] = Nobody]

(* A process died: the kernel takes back the flocks of its callers C.      *)
ReleaseAll(C) ==
    owner' = [k \in Keys |-> IF owner[k] \in C THEN Nobody ELSE owner[k]]

Next ==
    \/ \E c \in Callers, k \in Keys : Acquire(c, k) \/ Release(c, k)
    \/ \E C \in SUBSET Callers : ReleaseAll(C)

Spec == Init /\ [][Next]_owner
===============================================================================
