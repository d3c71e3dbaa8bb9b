-------------------------------- MODULE MCTask --------------------------------
(* Containers with the mounts and labels that Docker and README.md know,   *)
(* profiles that share backends or repositories, under several spellings.  *)
EXTENDS Task

MCNone == "none"

MCSourceId ==
    [p \in {"/data", "/conf", "/a/b", "/a-b", "/run/docker.sock", "/proc", "/cache"} |->
        CASE p = "/data" -> "data" [] p = "/conf" -> "conf" [] p = "/proc" -> "proc"
          [] p = "/cache" -> "cache" [] p = "/run/docker.sock" -> "run-docker.sock"
          [] OTHER -> "a-b"]

Volume(name, dest) ==
    [type |-> "volume", name |-> name, source |-> "/volumes", dest |-> dest, readOnly |-> FALSE]
Bind(source, dest) ==
    [type |-> "bind", name |-> MCNone, source |-> source, dest |-> dest, readOnly |-> TRUE]

Everything == <<Volume("files", "/data"), Bind("/etc/web", "/conf"), Volume("hex", "/cache"),
                Bind("/run/docker.sock", "/run/docker.sock"), Bind("/proc", "/proc")>>
Pair == <<Volume("one", "/a/b"), Volume("two", "/a-b")>>

Plain(name, profile, mounts) ==
    [name |-> name, app |-> MCNone, enabled |-> TRUE, profile |-> profile, sources |-> <<>>,
     retention |-> MCNone, stop |-> MCNone, mounts |-> mounts]

Web == [Plain("web", MCNone, Everything) EXCEPT !.retention = <<<<"keep-last", 2>>, <<"keep-tag", 0>>>>]
Old == [Plain("web-old", "slash", Everything) EXCEPT !.app = "web", !.sources = <<"/data", "/cache">>]
Shop == Plain("shop", "bucket2", SubSeq(Everything, 1, 2))
Clash == Plain("clash", MCNone, Pair)
One == [Plain("one", "dav", Pair) EXCEPT !.sources = <<"/a-b">>, !.app = "My App"]
Two == [One EXCEPT !.name = "two", !.profile = "dav2"]
Three == [One EXCEPT !.name = "three", !.profile = "davUpper"]
Below == [Shop EXCEPT !.name = "below", !.profile = "below", !.app = "web"]
Url == [Shop EXCEPT !.name = "url", !.profile = "url", !.sources = <<"/data">>]
Rejected ==
    {Clash, [Web EXCEPT !.enabled = FALSE], [Web EXCEPT !.stop = "maybe"],
     [Web EXCEPT !.profile = "unknown"], [Web EXCEPT !.sources = <<"/data", "/data">>],
     [Web EXCEPT !.sources = <<"/elsewhere">>], [Web EXCEPT !.retention = <<<<"keep-last", 0>>>>],
     [Web EXCEPT !.retention = <<<<"keep-none", 1>>>>], Plain("none", MCNone, <<Everything[4]>>)}

S3 == [name |-> "default", type |-> "s3", endpoint |-> "s3.example", bucket |-> "b",
       path |-> <<>>, scheme |-> FALSE, upper |-> FALSE, slash |-> FALSE]
Dav == [S3 EXCEPT !.name = "dav", !.type = "webdav", !.endpoint = "dav.example", !.bucket = MCNone,
                  !.path = <<"backups">>]
Configured ==
    {S3, [S3 EXCEPT !.name = "slash", !.slash = TRUE], [S3 EXCEPT !.name = "bucket2", !.bucket = "b2"],
     [S3 EXCEPT !.name = "below", !.path = <<"sub">>], [S3 EXCEPT !.name = "url", !.scheme = TRUE],
     Dav, [Dav EXCEPT !.name = "dav2", !.slash = TRUE], [Dav EXCEPT !.name = "davUpper", !.upper = TRUE]}

MCProfiles == {p.name : p \in Configured}
MCDefaults == [schedule |-> TRUE, retention |-> <<>>]
MCSystemPaths == {"/proc"}
MCSockets == {"/run/docker.sock"}

(* A restore takes the first source.                                       *)
TaskOf(kind, c, skip) ==
    [kind |-> kind, container |-> c, skip |-> skip,
     profile |-> CHOOSE p \in Configured : p.name = ProfileOf(c) \/ ProfileOf(c) \notin MCProfiles,
     source |-> IF Parses(c) THEN BackupSpec(c).sources[1].id ELSE MCNone]

Files == {Web, Old, Shop, One, Two, Three, Below, Url} \cup Rejected
MCTasks ==
    {TaskOf("backup", c, FALSE) : c \in Files} \cup
    {TaskOf("restore", c, skip) : c \in {Web, Two}, skip \in BOOLEAN}
MCWorkerSpecs == {WorkerOf(t) : t \in Valid}
================================================================================
