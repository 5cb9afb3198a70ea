------------------------------- MODULE Docker -------------------------------
(***************************************************************************)
(* The docker page: the daemon's root directory, its transfer to another   *)
(* partition, start and stop, and the warning beside it.                   *)
(*                                                                         *)
(*   backend/service/guide_docker_*.go, guide.go (checkDockerPath,         *)
(*   transferDockerPath, DockerTransferTool)                               *)
(*   backend/modules/guidestorage/dockertransfer                           *)
(*                                                                         *)
(* A transfer is a sequence of shells; the daemon goes on writing layers   *)
(* to the root it runs on, and the client may go away between two of them. *)
(***************************************************************************)
EXTENDS Integers, FiniteSets

CONSTANTS MaxLayers,    \* bound on the layers the daemon writes
          MaxTransfers  \* bound on the transfers of a behaviour

ASSUME DockerAssumption == MaxLayers \in Nat \ {0} /\ MaxTransfers \in Nat

VARIABLES root,     \* dockerd.globals.data_root: file, staged, and what the daemon runs on
          dirs,     \* what is in the directories
          dockerd,  \* the daemon runs
          transfer, \* the transfer that is under way
          written,  \* how many layers there are
          owned,    \* history: the layers of the daemon's root
          inSync,   \* history: no transfer was cut off between staging a root and the restart
          moved,    \* history: the last transfer, if it was answered with success
          transfers \* how many there were

dockerVars == <<root, dirs, dockerd, transfer, written, owned, inSync, moved, transfers>>

\* Directories, the partitions they are on, and how those are used.
Dirs == {"/opt/docker", "/mnt/a", "/mnt/a/docker", "/mnt/b/docker", "/mnt/n/docker"}
Inside(d, e) == d = e \/ (d = "/mnt/a/docker" /\ e = "/mnt/a")
Source(d) ==
  CASE d = "/opt/docker" -> "overlay" [] d \in {"/mnt/a", "/mnt/a/docker"} -> "a"
    [] d = "/mnt/b/docker" -> "b" [] OTHER -> "n"
Parts == {[source |-> "overlay", fs |-> "ext4", system |-> TRUE, large |-> TRUE, readOnly |-> FALSE, path |-> "/opt/docker"],
          [source |-> "a", fs |-> "ext4", system |-> FALSE, large |-> TRUE, readOnly |-> FALSE, path |-> "/mnt/a/docker"],
          [source |-> "b", fs |-> "btrfs", system |-> FALSE, large |-> TRUE, readOnly |-> FALSE, path |-> "/mnt/b/docker"],
          [source |-> "n", fs |-> "ntfs", system |-> FALSE, large |-> TRUE, readOnly |-> FALSE, path |-> "/mnt/n/docker"]}
PartOf(d) == CHOOSE p \in Parts : p.source = Source(d)

NoDir == [there |-> FALSE, layers |-> {}, other |-> FALSE]
EmptyDir == [there |-> TRUE, layers |-> {}, other |-> FALSE]
\* ls -A
NotEmpty(d) == \/ dirs[d].layers # {} \/ dirs[d].other
               \/ \E e \in Dirs \ {d} : Inside(e, d) /\ dirs[e].there

-----------------------------------------------------------------------------
(* What is shown                                                           *)

BuildPartitionCandidates(parts) ==
  {p.path : p \in {q \in parts : ~q.system /\ ~q.readOnly /\ q.large /\ q.fs \notin {"squashfs", "ntfs", "vfat", "exfat", "swap"}}}

ReadDockerRootPath == root.staged

buildGuideDockerRuntimeWarning(p) == IF p.system THEN "system" ELSE IF p.fs = "ntfs" THEN "ntfs" ELSE ""

ReadDockerRuntime(installed) ==
  [installed |-> installed, running |-> installed /\ dockerd, path |-> ReadDockerRootPath,
   warning |-> IF installed THEN buildGuideDockerRuntimeWarning(PartOf(ReadDockerRootPath)) ELSE ""]

GetDockerStatus(r) ==
  [status |-> IF ~r.installed THEN "not installed" ELSE IF r.running THEN "running" ELSE "stopped",
   path |-> r.path, errorInfo |-> r.warning]

-----------------------------------------------------------------------------
(* A transfer                                                              *)

\* Mutant: a directory of the old root's partition is taken.
MutValidatePathSnapshot(target, origin) ==
  /\ target # origin /\ PartOf(target).fs \notin {"overlay", "tmpfs", "ntfs"} /\ Source(target) # "overlay"

ValidatePathSnapshot(target, origin) ==
  /\ target # origin /\ PartOf(target).fs \notin {"overlay", "tmpfs", "ntfs"}
  /\ Source(target) # "overlay" /\ Source(target) # Source(origin)

NoTransfer == [pc |-> "none"]
NotMoved == [target |-> "", base |-> {}, copied |-> FALSE]

\* checkDockerPath: the target is made before it is looked at.
checkDockerPath(target) ==
  dirs' = IF target # ReadDockerRootPath /\ ~dirs[target].there
          THEN [d \in Dirs |-> IF Inside(target, d) /\ ~dirs[d].there THEN EmptyDir ELSE dirs[d]] ELSE dirs

\* transferDockerPath: a directory that is not empty is not used, taken as it is, or overwritten.
transferDockerPath(target, force, overwriteDir) ==
  CASE ~NotEmpty(target) -> "copy"
    [] NotEmpty(target) /\ ~force -> "warn"
    [] NotEmpty(target) /\ force /\ overwriteDir -> "remove"
    [] OTHER -> "set"

\* GetPartitionList's paths are offered; any other may be typed, and the command
\* line's tool forces without overwriting.
GuideDockerTransfer ==
  \E target \in Dirs, force, overwriteDir \in BOOLEAN :
    LET origin == ReadDockerRootPath
        next == transferDockerPath(target, force, overwriteDir)
    IN  /\ transfer.pc = "none" /\ transfers < MaxTransfers /\ transfers' = transfers + 1
        /\ checkDockerPath(target)
        /\ transfer' = IF ~ValidatePathSnapshot(target, origin) \/ next = "warn" THEN NoTransfer
                       ELSE [pc |-> next, target |-> target, origin |-> origin, todo |-> dirs[origin].layers,
                             base |-> dirs[root.live].layers, copied |-> next # "set"]
        /\ moved' = NotMoved
        /\ UNCHANGED <<root, dockerd, written, owned, inSync>>

\* rm -r; mkdir -p
RemoveTarget ==
  /\ transfer.pc = "remove"
  /\ dirs' = [d \in Dirs |-> IF d = transfer.target THEN EmptyDir ELSE IF Inside(d, transfer.target) THEN NoDir ELSE dirs[d]]
  /\ transfer' = [transfer EXCEPT !.pc = "copy", !.todo = dirs[transfer.origin].layers]
  /\ UNCHANGED <<root, dockerd, written, owned, inSync, moved, transfers>>

\* cp -a, a layer at a time, of those that were there when it began.
CopyLayer ==
  /\ transfer.pc = "copy"
  /\ \E n \in transfer.todo :
       /\ dirs' = [dirs EXCEPT ![transfer.target].layers = @ \union {n}]
       /\ transfer' = [transfer EXCEPT !.todo = @ \ {n}]
  /\ UNCHANGED <<root, dockerd, written, owned, inSync, moved, transfers>>

\* The request goes on when cp has not failed (its disk is full, say).
CopyEnds(ok) == ok

CopyDone ==
  /\ transfer.pc = "copy"
  /\ transfer' = IF CopyEnds(transfer.todo = {}) THEN [transfer EXCEPT !.pc = "set"] ELSE NoTransfer
  /\ UNCHANGED <<root, dirs, dockerd, written, owned, inSync, moved, transfers>>

\* set; commit; restart
BuildUpdateCommands(pc) ==
  CASE pc = "set" -> [root EXCEPT !.staged = transfer.target]
    [] pc = "commit" -> [root EXCEPT !.file = root.staged]
    [] OTHER -> [root EXCEPT !.live = root.file]

UpdateDockerRootPath ==
  /\ transfer.pc \in {"set", "commit", "restart"}
  /\ root' = BuildUpdateCommands(transfer.pc)
  /\ IF transfer.pc = "restart"
     THEN /\ transfer' = NoTransfer /\ dockerd' = TRUE
          /\ owned' = dirs[root'.live].layers
          /\ moved' = [target |-> transfer.target, base |-> transfer.base, copied |-> transfer.copied]
     ELSE /\ transfer' = [transfer EXCEPT !.pc = IF @ = "set" THEN "commit" ELSE "restart"]
          /\ UNCHANGED <<dockerd, owned, moved>>
  /\ UNCHANGED <<dirs, written, inSync, transfers>>

\* The client goes away: the shell is killed where it is.
CutOff ==
  /\ transfer.pc # "none" /\ transfer' = NoTransfer
  /\ inSync' = (inSync /\ transfer.pc \notin {"commit", "restart"})
  /\ UNCHANGED <<root, dirs, dockerd, written, owned, moved, transfers>>

\* Switch: the daemon starts on what is committed.
DockerSwitch ==
  /\ dockerd' = ~dockerd
  /\ IF dockerd THEN UNCHANGED <<root, owned>>
     ELSE root' = [root EXCEPT !.live = root.file] /\ owned' = dirs[root.file].layers
  /\ UNCHANGED <<dirs, transfer, written, inSync, moved, transfers>>

DaemonWrites ==
  /\ dockerd /\ written < MaxLayers /\ dirs[root.live].there
  /\ written' = written + 1 /\ owned' = owned \union {written + 1}
  /\ dirs' = [dirs EXCEPT ![root.live].layers = @ \union {written + 1}]
  /\ UNCHANGED <<root, dockerd, transfer, inSync, moved, transfers>>

-----------------------------------------------------------------------------

DockerDirs ==
  [d \in Dirs |->
    CASE d = "/opt/docker" -> [there |-> TRUE, layers |-> {1}, other |-> FALSE]
      [] d = "/mnt/b/docker" -> [there |-> TRUE, layers |-> {}, other |-> TRUE]
      [] d = "/mnt/a" -> EmptyDir [] OTHER -> NoDir]

DockerIdle ==
  /\ root = [file |-> "/opt/docker", staged |-> "/opt/docker", live |-> "/opt/docker"]
  /\ dirs = DockerDirs /\ dockerd = TRUE /\ transfer = NoTransfer /\ written = 1 /\ owned = {1}
  /\ inSync = TRUE /\ moved = NotMoved /\ transfers = 0
DockerInit == DockerIdle

DockerNext == GuideDockerTransfer \/ RemoveTarget \/ CopyLayer \/ CopyDone \/ UpdateDockerRootPath
              \/ CutOff \/ DockerSwitch \/ DaemonWrites
DockerSpec == DockerInit /\ [][DockerNext]_dockerVars

-----------------------------------------------------------------------------
(* Properties                                                              *)

DockerTypeOK ==
  /\ root \in [file : Dirs, staged : Dirs, live : Dirs]
  /\ dirs \in [Dirs -> [there : BOOLEAN, layers : SUBSET (1 .. MaxLayers), other : BOOLEAN]]
  /\ \A d \in Dirs : dirs[d].layers # {} => dirs[d].there
  /\ transfer.pc \in {"none", "copy", "remove", "set", "commit", "restart"}

\* No transfer takes a layer away from the root that the daemon runs on, unless
\* an earlier one was cut off after it had staged another root.
LiveRootKept == inSync => owned \subseteq dirs[root.live].layers

\* A transfer that has copied and was answered with success leaves the daemon
\* on its target, with every layer that its root had when the transfer began.
TransferComplete ==
  inSync /\ moved.copied => moved.base \subseteq dirs[moved.target].layers /\ root.live = moved.target

\* Whatever becomes the root afterwards, the status page does not warn of it.
NoWarningAfterTransfer ==
  moved # NotMoved =>
    LET shown == GetDockerStatus(ReadDockerRuntime(TRUE)) IN shown.path = moved.target => shown.errorInfo = ""

\* A path that is offered is accepted, unless it is on the partition of the root.
OfferedIsAccepted ==
  \A path \in BuildPartitionCandidates(Parts) :
    Source(path) # Source(ReadDockerRootPath) => ValidatePathSnapshot(path, ReadDockerRootPath)

\* The docker page: no order of checks, copies, cut-offs and writes of the daemon loses a
\* layer of its root, and what the page offers, accepts and warns of agrees.
DockerCorrect ==
  DockerTypeOK /\ LiveRootKept /\ TransferComplete /\ NoWarningAfterTransfer /\ OfferedIsAccepted
=============================================================================
