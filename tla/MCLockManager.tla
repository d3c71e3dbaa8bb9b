---------------------------- MODULE MCLockManager ----------------------------
(* Two processes, the daemon with two goroutines and one docker exec       *)
(* command, over two keys.                                                 *)
EXTENDS LockManager, TLC

CONSTANTS d1, d2, cli, daemon, exec

MCCallers == {d1, d2, cli}
MCProcs == {daemon, exec}
MCProcOf == (d1 :> daemon) @@ (d2 :> daemon) @@ (cli :> exec)
===============================================================================
