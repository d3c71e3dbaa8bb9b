------------------------------- MODULE Semaphore -------------------------------
(***************************************************************************)
(* What internal/daemon/write_limiter.go promises to its callers: at most  *)
(* so many holders per key.  The limit is read from the environment of     *)
(* each process (VOLUST_MAX_CONCURRENT_WRITES), so processes that share    *)
(* the slot directory may disagree on it: the callers with a limit of at   *)
(* most m then never hold more than m slots, for every m.                  *)
(*                                                                         *)
(* WriteLimiter.tla refines this module; BackupRestore.tla is built on it. *)
(***************************************************************************)
EXTENDS Naturals, FiniteSets

CONSTANTS Callers,   \* activations of WriteLimiter.With that the limit binds
          Keys,      \* backends
          Limit      \* Limit[c]: the limit caller c was started with

VARIABLE holders     \* holders[k]: the callers that hold a slot of backend k

(* The holders of a key are callers.                                       *)
TypeOK == holders \in [Keys -> SUBSET Callers]

Fits(H) == \A d \in H : Cardinality({c \in H : Limit[c] <= Limit[d]}) <= Limit[d]

Init == holders = [k \in Keys |-> {}]

(* With reaches fn: only when a slot below the caller's limit is free.     *)
Acquire(c, k) ==
    /\ c \notin holders[k]
    /\ Fits(holders[k] \cup {c})
    /\ holders' = [holders EXCEPT ![k] = @ \cup {c}]

(* fn returned.                                                            *)
Release(c, k) ==
    /\ c \in holders[k]
    /\ holders' = [holders EXCEPT ![k] = @ \ {c}]

(* A process died: the kernel takes back the slots of its callers C.       *)
ReleaseAll(C) == holders' = [k \in Keys |-> holders[k] \ C]

Next ==
    \/ \E c \in Callers, k \in Keys : Acquire(c, k) \/ Release(c, k)
    \/ \E C \in SUBSET Callers : ReleaseAll(C)

Spec == Init /\ [][Next]_holders
================================================================================
