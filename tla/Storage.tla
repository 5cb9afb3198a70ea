-------------------------------- MODULE Storage --------------------------------
(***************************************************************************)
(* The storage requests over the disks: one request runs its steps, any of *)
(* which may fail, and the router may be rebooted between two of them.     *)
(*                                                                         *)
(*   backend/service/nas.go, raid.go, nas_sandbox_usecase.go               *)
(***************************************************************************)
EXTENDS RaidFlow

CONSTANTS DataDisk,  \* a disk that has a file system to begin with
          MaxFaults  \* bound on the commands that fail for reasons of their own

ASSUME StorageAssumption ==
  /\ DataDisk \in Disks \ {SystemDisk}
  /\ FreeRegions \subseteq Nat \X Nat
  /\ MaxFaults \in Nat

VARIABLES sys,    \* the disks
          todo,   \* the steps left of the request that runs
          fresh,  \* the mounts the request will have made
          kept,   \* the mounts that a request answered with success
          faults, \* the commands that failed for reasons of their own
          offer   \* bound: whether this behaviour is about disks or about arrays

storageVars == <<sys, todo, fresh, kept, faults, offer>>

StorageTypeOK ==
  /\ sys \in Storage
  /\ faults \in 0 .. MaxFaults
  /\ \A e \in fresh \union kept : e \in Entry
  /\ todo = <<>> => fresh = {}
  /\ \A m \in Mds : sys.run[m].id = 0 <=> sys.run[m].members = {}

\* The system disk with its overlay and free space behind it, where an earlier
\* installation may have left a file system that fstab still lists; one disk
\* with data, the others without a label.
StorageInit ==
  /\ \E old \in BOOLEAN :
       LET mine == <<SystemDisk, 1>>
           entries == IF old THEN {[dev |-> <<SystemDisk, 2>>, point |-> Chosen(<<SystemDisk, 2>>)]} ELSE {}
       IN  sys = [parts |-> [d \in Disks |-> IF d \in {SystemDisk, DataDisk} THEN 1 ELSE 0],
                  room |-> {SystemDisk},
                  fs |-> [dev \in Dev |->
                            IF dev \in {mine, <<DataDisk, 1>>} \/ (old /\ dev = <<SystemDisk, 2>>) THEN "ext4" ELSE "none"],
                  super |-> [d \in Disks |-> 0], gone |-> {},
                  run |-> [m \in Mds |-> NoArray], node |-> {},
                  mounts |-> {[dev |-> mine, point |-> Overlay]},
                  fstab |-> [file |-> entries, staged |-> entries],
                  mdadm |-> [file |-> <<>>, staged |-> <<>>], made |-> 0]
  /\ todo = <<>> /\ fresh = {} /\ kept = {} /\ faults = 0
  /\ offer \in {"disks", "arrays"}
  /\ sys.fstab.file # {} => offer = "disks"

-----------------------------------------------------------------------------
(* Steps                                                                   *)

\* The steps that read and decide.
Decide(s, c) ==
  CASE c.op = "mount partition"  -> MountPartition(s, c.dev, c.point)
    [] c.op = "remount"          -> MountUnmounted(s, c.dev, c.point)
    [] c.op = "format"           -> FormatByDevicePath(s, c.dev)
    [] c.op = "format array"     -> FormatByDevicePath(s, ArrayOn(s, c.md))
    [] c.op = "init"             -> InitDisk(s, c.disk)
    [] c.op = "init array"       -> InitArray(s, c.dev)
    [] c.op = "format parts"     -> FormatParts(s, c.disk)
    [] c.op = "mount parts"      -> MountParts(s, c.disk)
    [] c.op = "mount unmounted"  -> MountUnmountedArray(s, c.dev)
    [] c.op = "init rest"        -> InitDiskRest(s, c.disk, c.range)
    [] c.op = "rest"             -> RestPartition(s, c.disk)
    [] c.op = "fstab existing"   -> FstabExisting(s, c.dev)
    [] c.op = "format partition" -> FormatPartition(s, c.dev)
    [] c.op = "overlay"          -> AddOverlay(s, c.dev)
    [] c.op = "take member"      -> TakeMember(s, c.disk)
    [] c.op = "choose md"        -> ChooseMd(s, c.members)

\* The commands of NasDiskCommandStore.
DiskCommand(s, c) ==
  CASE c.op = "mount"            -> Mount(s, c.dev, c.point)
    [] c.op = "mount or commit"  -> MountOrCommit(s, c.dev, c.point)
    [] c.op = "unmount"          -> Unmount(s, c.point)
    [] c.op = "umount device"    -> Done(UnMount(s, c.dev))
    [] c.op = "erase"            -> Erase(s, c.disk)
    [] c.op = "erase array"      -> EraseArray(s, c.dev)
    [] c.op = "mkpart"           -> MakePart(s, c.disk)
    [] c.op = "mkpart range"     -> MakePartRange(s, c.disk, c.range[1], c.range[2])
    [] c.op = "mkfs"             -> Ext4Partition(s, c.dev)
    [] c.op = "fstab"            -> AddFstab(s, c.dev, c.point)
    [] c.op = "commit"           -> Done(CommitFstab(s))
    [] c.op = "commit and mount" -> Done(CommitFstabAndBlockMount(s))

\* The commands of raidWriteFlowStore and raidMdadmConfigStore.
RaidCommand(s, c) ==
  CASE c.op = "mkraid"        -> makeRaidPart(s, c.disk)
    [] c.op = "create"        -> RunCreate(s, c.md, c.members)
    [] c.op = "umount path"   -> UmountPoint(s, c.point)
    [] c.op = "delete"        -> RunDelete(s, c.md, c.members)
    [] c.op = "remove node"   -> RemoveDeletedDevice(s, c.md)
    [] c.op = "add"           -> RunAdd(s, c.md, c.disk)
    [] c.op = "remove"        -> RunRemove(s, c.md, c.disk)
    [] c.op = "clear arrays"  -> clearExistingArrays(s)
    [] c.op = "scan"          -> Scan(s)
    [] c.op = "autofix"       -> AutoFixArrays(s)
    [] c.op = "commit mdadm"  -> CommitMdadm(s)
    [] c.op = "restart mdadm" -> Done(Assemble(s))

Decisions == {"mount partition", "remount", "format", "format array", "init", "init array",
              "format parts", "mount parts", "mount unmounted", "init rest", "rest",
              "fstab existing", "format partition", "overlay", "take member", "choose md"}
RaidCommands == {"mkraid", "create", "umount path", "delete", "remove node", "add", "remove",
                 "clear arrays", "scan", "autofix", "commit mdadm", "restart mdadm"}

Outcome(s, c) ==
  IF c.op \in Decisions THEN Decide(s, c)
  ELSE IF c.op \in RaidCommands THEN RaidCommand(s, c)
  ELSE DiskCommand(s, c)

\* Commands that fail for reasons of their own, and what they leave behind.
Faults(s, c) ==
  CASE c.op \in {"unmount", "umount path", "mkpart", "mkraid", "mkpart range", "mkfs", "mount", "scan", "add"} -> {s}
    [] c.op = "mount or commit" -> {CommitFstab(s)}
    [] c.op = "erase" -> {Dd(s, c.disk)}
    [] c.op = "create" -> {CleanupCreatedDevice(s, c.md).s}
    [] c.op = "delete" -> {s} \union (IF Mounted(s, ArrayOn(s, c.md)) THEN {} ELSE {Stop(s, c.md, {})})
    [] OTHER -> {}

\* The mounts that are still there.
StillMounted(s, mounts) == mounts \intersect s.mounts

\* What a request that succeeds will have mounted.  An array is counted when it
\* is made, and later as long as it is listed: one whose creation failed
\* half-way runs without being listed.
Promised(c) ==
  CASE c.op = "create" -> {[dev |-> <<"array", sys.made + 1>>, point |-> Generated(<<"array", sys.made + 1>>)]}
    [] c.op \in {"mount", "mount or commit"} /\
       (c.dev \in Parts \/ \E i \in 1 .. Len(sys.mdadm.file) : sys.mdadm.file[i].id = c.dev[2]) ->
         {[dev |-> c.dev, point |-> c.point]}
    [] OTHER -> {}

\* The step is taken; after the last one the request has succeeded.
StepDone ==
  LET c == Head(todo)
      o == Outcome(sys, c)
      new == fresh \union Promised(c)
      left == o.more \o Tail(todo)
  IN  /\ todo # <<>> /\ o.ok
      /\ sys' = o.s
      /\ todo' = left
      /\ fresh' = IF left = <<>> THEN {} ELSE new
      /\ kept' = StillMounted(o.s, IF left = <<>> THEN kept \union new ELSE kept)
      /\ UNCHANGED <<faults, offer>>

\* The step fails and with it the request.
StepFails ==
  LET c == Head(todo)
      o == Outcome(sys, c)
  IN  /\ todo # <<>>
      /\ \/ ~o.ok /\ sys' = o.s /\ UNCHANGED <<faults, offer>>
         \/ faults < MaxFaults /\ sys' \in Faults(sys, c) /\ faults' = faults + 1 /\ UNCHANGED offer
      /\ todo' = <<>> /\ fresh' = {}
      /\ kept' = StillMounted(sys', kept)

-----------------------------------------------------------------------------
(* Requests.  Formatting and initialising are offered in every behaviour,  *)
(* for partitions and for arrays.                                          *)

Request(steps) ==
  /\ todo = <<>>
  /\ steps # <<>>
  /\ todo' = steps
  /\ UNCHANGED <<sys, fresh, kept, faults, offer>>

NasDiskPartitionMount ==
  /\ offer = "disks"
  /\ \E dev \in getAllDisks(sys) : Request(<<AtPoint("mount partition", dev, Chosen(dev))>>)
NasDiskPartitionFormat == \E dev \in getAllDisks(sys) : Request(<<On("format", dev)>>)
NasDiskInit ==
  \/ \E d \in Disks : Request(<<OnDisk("init", d)>>)
  \/ \E m \in Mds : sys.run[m].id # 0 /\ Request(<<On("init array", ArrayOn(sys, m))>>)
NasDiskInitRest ==
  /\ offer = "disks"
  /\ \E d \in Disks, region \in FreeRegions : Request(<<[OnDisk("init rest", d) EXCEPT !.range = region]>>)
NasSanboxPartitionFormat ==
  /\ offer = "disks"
  /\ \E dev \in getAllDisks(sys) \intersect Parts : Request(<<On("format partition", dev)>>)

RaidPostCreate ==
  \E members \in UNION {[1 .. n -> Disks] : n \in 1 .. 2}, least \in {2, 3, 4} :
    /\ ValidateMemberCount(members, least)
    /\ sys.made < MaxArrays /\ offer = "arrays"
    /\ Request(Create(members))
RaidPostDelete == \E m \in Mds : sys.run[m].id # 0 /\ Request(Delete(sys, m))
RaidPostAdd ==
  \E m \in Mds, d \in CreateList(sys) : sys.run[m].id # 0 /\ Request(Add(m, d))
RaidPostRecover ==
  \E m \in Mds, d \in CreateList(sys), check \in BOOLEAN :
    sys.run[m].id # 0 /\ Request(Recover(m, d, check))
RaidPostRemove ==
  \E m \in Mds : \E d \in sys.run[m].members : Request(RemoveMember(m, d))
RaidAutoFix == offer = "arrays" /\ Request(AutoFix)

\* The boot: arrays from mdadm, mounts from fstab, nothing staged.  The overlay
\* is the one fstab has, if its device is there, else the system's own.
Boot(s) ==
  LET up == Assemble([s EXCEPT !.run = [m \in Mds |-> NoArray], !.node = {}, !.mounts = {},
                               !.fstab.staged = s.fstab.file, !.mdadm.staged = s.mdadm.file])
      mounted == BlockMount(up, s.fstab.file)
      other == \E e \in mounted.mounts : e.point = Overlay
  IN  [mounted EXCEPT !.mounts =
         @ \union {[dev |-> <<SystemDisk, 1>>, point |-> IF other THEN Rom ELSE Overlay]}]

\* RunAction of the sandbox ends in a reboot; so does a power failure, in the
\* middle of whatever runs.
Reboot ==
  /\ sys' = Boot(sys)
  /\ todo' = <<>> /\ fresh' = {}
  /\ kept' = StillMounted(sys', kept)
  /\ UNCHANGED <<faults, offer>>

StorageNext ==
  \/ StepDone \/ StepFails
  \/ NasDiskPartitionMount \/ NasDiskPartitionFormat \/ NasDiskInit \/ NasDiskInitRest
  \/ NasSanboxPartitionFormat
  \/ RaidPostCreate \/ RaidPostDelete \/ RaidPostAdd \/ RaidPostRecover \/ RaidPostRemove
  \/ RaidAutoFix
  \/ Reboot

StorageSpec == StorageInit /\ [][StorageNext]_storageVars

-----------------------------------------------------------------------------
(* Properties                                                              *)

MountedDevs == {e.dev : e \in sys.mounts}
OverlayDev == (CHOOSE e \in sys.mounts : e.point = Overlay).dev

Data == INSTANCE DiskData WITH Devices <- Dev, data <- sys.fs, inUse <- MountedDevs,
                               overlay <- OverlayDev

\* The storage requests implement DiskData: no order of unmounting, erasing and
\* formatting, and no failure in between, writes to a file system in use, and
\* nothing but a reboot takes the overlay away.
OverlayKept == [][sys' # Boot(sys) => OverlayDev' = OverlayDev]_storageVars
ImplementsDiskData == Data!Spec /\ OverlayKept

\* No disk of a running array loses its superblock.
MembersKept ==
  [][\A m \in Mds : \A d \in sys.run[m].members :
       sys'.run[m].id = sys.run[m].id /\ d \in sys'.run[m].members => sys'.super[d] = sys.run[m].id]_storageVars

\* A mount that was answered with success is there again after a reboot: fstab
\* and, for an array, mdadm have it in their files.
MountSurvives == \A e \in kept : e \in Boot(sys).mounts

\* fstab has one entry for a file system and one overlay, so that the sections
\* its numbers are read for are the ones that are changed, and nothing is left
\* staged for a later commit.
OneEntry ==
  /\ \A e, f \in sys.fstab.file : e.dev = f.dev \/ (e.point = Overlay /\ f.point = Overlay) => e = f
  /\ todo = <<>> => sys.fstab.staged = sys.fstab.file

\* A running array has its node, so findFreeMd passes over its number.
RunningHasNode == \A m \in Mds : sys.run[m].id # 0 => m \in sys.node

\* The partition that is made lies in the free space, on both ends.
RangeInside ==
  todo # <<>> /\ Head(todo).op = "mkpart range" /\ Head(todo).range[1] <= Head(todo).range[2] =>
    \E region \in FreeRegions :
      /\ Aligned(region) = Head(todo).range
      /\ region[1] <= Head(todo).range[1] /\ Head(todo).range[2] <= region[2]

\* The disks and their files agree after any failure or reboot: answered mounts come back,
\* from one entry each, arrays have their nodes, and partitions lie in their free space.
StorageCorrect == StorageTypeOK /\ MountSurvives /\ OneEntry /\ RunningHasNode /\ RangeInside
=============================================================================
