----------------------------- MODULE MCRepository -----------------------------
(* Small instances.  b1 is a scheduled backup of container c1, m1 a backup *)
(* command, r1 a restore of one source and x1 a restore of all volumes; a1 *)
(* and a2 are applications, v and w named volumes, d is a bind mount.      *)
EXTENDS Repository, TLC

CONSTANTS b1, m1, r1, x1, c1, c2, a1, a2, v, w, d

Targets == [j \in Jobs |-> IF j = b1 THEN c1 ELSE a1]
OneApp == (c1 :> a1) @@ (c2 :> a1)
TwoApps == (c1 :> a1) @@ (c2 :> a2)

(* restic's host name: each worker container's own, or one for all of them *)
(* (RESTIC_HOST in the profile's env), so that retention applies.          *)
OwnHosts == [j \in Jobs \cup {Nobody} |-> j]
OneHost == [j \in Jobs \cup {Nobody} |-> Nobody]
KeepOne == (c1 :> 1) @@ (c2 :> 1)
KeepOneOfFirst == (c1 :> 1) @@ (c2 :> 0)

(* Two containers of one application, which both have a source 1.          *)
Twins_Mounts == (c1 :> ((1 :> v) @@ (2 :> d))) @@ (c2 :> (1 :> w))

(* Two containers of one application with different sources.               *)
Distinct_Mounts == (c1 :> (1 :> v)) @@ (c2 :> (2 :> w))

(* Two containers that share volume v; the second also has a bind mount.   *)
Shared_Mounts == (c1 :> (1 :> v)) @@ (c2 :> ((1 :> v) @@ (2 :> d)))
===============================================================================
