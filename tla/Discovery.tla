------------------------------- MODULE Discovery -------------------------------
(***************************************************************************)
(* internal/docker/types.go and internal/policy/policy.go: what the labels *)
(* and mounts of an inspected container make of it, a BackupSpec or        *)
(* nothing.                                                                *)
(*                                                                         *)
(* Paths are as path.Clean leaves them; what the code asks of their        *)
(* characters is given by the constants.  A label that is not set is None. *)
(* Whether to stop the container is StopsContainer of BackupRestore.       *)
(***************************************************************************)
EXTENDS Integers, Sequences, FiniteSets

CONSTANTS
    None,
    SourceId,    \* SourceId[p]: path p without outer "/", inner ones as "-"
    Sockets,     \* the paths that end in .sock
    SystemPaths, \* /dev, /proc, /sys and what is below
    Anonymous,   \* the volume names of 64 hexadecimal digits
    Profiles,    \* the names of the configured profiles
    Defaults     \* schedule: whether it parses; retention

ASSUME DiscoveryAssumption ==
    /\ Defaults.schedule \in BOOLEAN
    /\ "default" \in Profiles

(* A mount: type, name (of a volume), source (on the host), dest, readOnly *)
(* as far as fromInspect fills them.                                       *)
IsBackupSourceMount(m) ==
    /\ m.source # None \/ m.name # None
    /\ m.type \in {None, "bind", "volume"}
    /\ ~(m.type = "volume" /\ m.name \in Anonymous)
    /\ {m.source, m.dest} \cap Sockets = {}
    /\ m.dest \notin SystemPaths

(* Those of the mounts that are chosen, in their order.                    *)
DefaultSourcePaths(mounts) ==
    LET chosen == {i \in DOMAIN mounts : IsBackupSourceMount(mounts[i])}
        rank(i) == Cardinality({h \in chosen : h <= i})
    IN [k \in 1 .. Cardinality(chosen) |-> mounts[CHOOSE i \in chosen : rank(i) = k].dest]

(* ParseRetention: parts <<key, n>>, where n is 0 for a value that is not  *)
(* a positive integer.                                                     *)
RetentionKeys == {"keep-last", "keep-daily", "keep-weekly", "keep-monthly", "keep-yearly", "keep-tag"}
RetentionParses(parts) ==
    \A i \in DOMAIN parts :
        parts[i][1] \in RetentionKeys /\ (parts[i][1] = "keep-tag" \/ parts[i][2] >= 1)

Otherwise(value, fallback) == IF value # None THEN value ELSE fallback

SourcePaths(c) == IF c.sources # <<>> THEN c.sources ELSE DefaultSourcePaths(c.mounts)
Retention(c) == Otherwise(c.retention, Defaults.retention)
ProfileOf(c) == Otherwise(c.profile, "default")

(* byDestination: of two mounts at one path the later one counts.          *)
At(p, mounts) == {i \in DOMAIN mounts : mounts[i].dest = p}
MountAt(p, mounts) == mounts[CHOOSE i \in At(p, mounts) : \A k \in At(p, mounts) : k <= i]

(* Mutant: two paths with one source id.                                   *)
BugSourcesResolve(c) == \A i \in DOMAIN SourcePaths(c) : At(SourcePaths(c)[i], c.mounts) # {}

SourcesResolve(c) ==
    LET paths == SourcePaths(c) IN
    /\ \A i \in DOMAIN paths : At(paths[i], c.mounts) # {}
    /\ \A i, k \in DOMAIN paths : SourceId[paths[i]] = SourceId[paths[k]] => i = k

ResolveSources(c) ==
    [i \in DOMAIN SourcePaths(c) |->
        [id |-> SourceId[SourcePaths(c)[i]], mount |-> MountAt(SourcePaths(c)[i], c.mounts)]]

(* ParseBackupSpecWithDefaults returns no error.                           *)
Parses(c) ==
    /\ c.enabled
    /\ ProfileOf(c) \in Profiles
    /\ SourcePaths(c) # <<>>
    /\ Defaults.schedule
    /\ RetentionParses(Retention(c))
    /\ c.stop \in {None, "true", "false"}
    /\ SourcesResolve(c)

BackupSpec(c) ==
    [container |-> c.name, name |-> Otherwise(c.app, c.name), profile |-> ProfileOf(c),
     retention |-> Retention(c), sources |-> ResolveSources(c)]
================================================================================
