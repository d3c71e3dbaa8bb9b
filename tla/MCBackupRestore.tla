---------------------------- MODULE MCBackupRestore ----------------------------
(* Small instances.  b1 and b2 are backups, r1 and r2 restores of volume   *)
(* v; the daemon is one process, every command another.                    *)
EXTENDS BackupRestore, TLC

CONSTANTS b1, b2, r1, r2, c1, c2, v, w, daemon, exec1, exec2, repo1, repo2, s3

(* One application and its repository: its containers c1 and c2 share      *)
(* volume v; the daemon backs both up while a restore command runs.        *)
OneApp_Jobs == {b1, b2, r1}
OneApp_Containers == {c1, c2}
OneApp_ProcOf == (b1 :> daemon) @@ (b2 :> daemon) @@ (r1 :> exec1)
OneApp_RepoOf == [j \in OneApp_Jobs |-> repo1]
OneApp_BackendOf == [j \in OneApp_Jobs |-> s3]
OneApp_Limit == [j \in OneApp_Jobs |-> 2]
OneApp_ContainerOf == (b1 :> c1) @@ (b2 :> c2) @@ (r1 :> c1)
OneApp_SourcesOf == (b1 :> {v}) @@ (b2 :> {v, w}) @@ (r1 :> {v})
OneApp_MountsOf == (c1 :> {v}) @@ (c2 :> {v, w})

(* Two applications that share volume v, each with its own repository: the *)
(* daemon backs up the second while the first is restored.                 *)
TwoApps_Jobs == {b1, r1}
TwoApps_Containers == {c1, c2}
TwoApps_ProcOf == (b1 :> daemon) @@ (r1 :> exec1)
TwoApps_RepoOf == (b1 :> repo1) @@ (r1 :> repo2)
TwoApps_BackendOf == [j \in TwoApps_Jobs |-> s3]
TwoApps_Limit == [j \in TwoApps_Jobs |-> 4]
TwoApps_ContainerOf == (b1 :> c1) @@ (r1 :> c2)
TwoApps_SourcesOf == (b1 :> {w}) @@ (r1 :> {v})
TwoApps_MountsOf == (c1 :> {v, w}) @@ (c2 :> {v})

(* Four jobs on one container: contention for every kind of lock.  The     *)
(* daemon has a limit of 2, the first commands one of 1, the last restore  *)
(* none; each repository has a backup and a restore.                       *)
Contended_Jobs == {b1, b2, r1, r2}
Contended_Containers == {c1}
Contended_ProcOf == (b1 :> daemon) @@ (b2 :> exec1) @@ (r1 :> exec1) @@ (r2 :> exec2)
Contended_RepoOf == (b1 :> repo1) @@ (b2 :> repo2) @@ (r1 :> repo1) @@ (r2 :> repo2)
Contended_BackendOf == [j \in Contended_Jobs |-> s3]
Contended_Limit == (b1 :> 2) @@ (b2 :> 1) @@ (r1 :> 1) @@ (r2 :> 0)
Contended_ContainerOf == [j \in Contended_Jobs |-> c1]
Contended_SourcesOf == [j \in Contended_Jobs |-> {v}]
Contended_MountsOf == (c1 :> {v})
================================================================================
