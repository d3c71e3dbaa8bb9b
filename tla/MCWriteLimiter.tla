---------------------------- MODULE MCWriteLimiter ----------------------------
(* Three processes: the daemon with two goroutines and a limit of 2, a     *)
(* docker exec command started with a limit of 1, and one started with     *)
(* VOLUST_MAX_CONCURRENT_WRITES=0.                                         *)
EXTENDS WriteLimiter, TLC

CONSTANTS d1, d2, x, free, daemon, exec, unlimited

MCCallers == {d1, d2, x, free}
MCProcs == {daemon, exec, unlimited}
MCProcOf == (d1 :> daemon) @@ (d2 :> daemon) @@ (x :> exec) @@ (free :> unlimited)
MCCapacity == (daemon :> 2) @@ (exec :> 1) @@ (unlimited :> 0)
===============================================================================
