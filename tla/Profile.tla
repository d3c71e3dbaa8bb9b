-------------------------------- MODULE Profile --------------------------------
(***************************************************************************)
(* internal/config/config.go: where a profile's repositories are, and the  *)
(* keys under which internal/daemon/lock.go locks them and counts writers. *)
(*                                                                         *)
(* A profile is a record: type, "s3" or "webdav"; endpoint, with scheme    *)
(* (whether an S3 endpoint is written as a URL) and upper (in upper-case   *)
(* letters); bucket; path, a sequence of names; slash (after the path).    *)
(***************************************************************************)
EXTENDS Sequences

CONSTANTS
    SafeNames \* the application names that isSafeAppRepositoryDir accepts

(* Another name gets a slug with a part of its hash, taken to be its own.  *)
AppRepositoryDir(app) == IF app \in SafeNames THEN app ELSE <<"slug and hash", app>>

ForApp(p, app) == [p EXCEPT !.path = Append(p.path, AppRepositoryDir(app)), !.slash = FALSE]

(* parseS3RepositoryRoot: "s3:https://host/bucket" has nothing between its *)
(* first two slashes.                                                      *)
RootParses(p) == p.type = "s3" /\ ~p.scheme

(* RepositoryString, as far as it tells repositories of one profile type   *)
(* apart; the remote of a WebDAV profile has the profile's name.           *)
RepositoryString(p) ==
    IF p.type = "s3"
    THEN <<"s3", p.scheme, p.endpoint, p.upper, p.bucket, p.path, p.slash>>
    ELSE <<"rclone", p.name, p.path, p.slash>>

(* Mutant: a WebDAV repository is known by its remote's name.              *)
BugRepositoryLockKey(p) == RepositoryString(p)

RepositoryLockKey(p) ==
    IF p.type = "webdav"
    THEN <<"webdav", p.endpoint, p.upper, p.path>>
    ELSE RepositoryString(p)

(* Mutant: each repository is a backend.                                   *)
BugBackendKey(p) == <<p.type, p.endpoint, p.bucket, p.path>>

BackendKey(p) ==
    IF p.type = "webdav" THEN <<"webdav", p.endpoint>>
    ELSE IF RootParses(p) THEN <<"s3", p.endpoint, p.bucket>>
    ELSE <<"s3", p.endpoint, p.bucket, p.path>>

(* WithRepositoryPath, for a path it accepts.                              *)
Overridable(p) == p.type = "webdav" \/ RootParses(p)
WithRepositoryPath(p, path) == [p EXCEPT !.path = path, !.slash = FALSE]
================================================================================
