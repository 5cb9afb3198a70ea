------------------------------- MODULE DiskFlow -------------------------------
(***************************************************************************)
(* The requests on disks and partitions as lists of steps: mounting,       *)
(* formatting, initialising a disk or its free space, the sandbox.         *)
(*                                                                         *)
(*   backend/modules/nas/disklifecycle/service.go, sandbox/service.go      *)
(*   backend/service/nas_disk_lifecycle_store.go, nas_sandbox_usecase.go   *)
(*                                                                         *)
(* A step runs a command, or reads the disks and decides what follows.     *)
(***************************************************************************)
EXTENDS BlockDev

CONSTANT FreeRegions \* first and last sector of the free space of a disk

\* A step; arguments that are not used keep their defaults.
Step(op) == [op |-> op, dev |-> NoDev, disk |-> SystemDisk, point |-> Overlay, md |-> 0,
             members |-> <<>>, range |-> <<0, 0>>]
On(op, dev) == [Step(op) EXCEPT !.dev = dev]
OnDisk(op, d) == [Step(op) EXCEPT !.disk = d]
AtPoint(op, dev, p) == [On(op, dev) EXCEPT !.point = p]

\* One list of steps per partition, one after the other.
ForEach(parts, Steps(_)) == FlattenSeq([i \in 1 .. Len(parts) |-> Steps(parts[i])])

\* The unmounting of a partition that has a mount point.
UnmountSteps(s, dev) ==
  IF get_mount_point(s, dev) = {} THEN <<>>
  ELSE <<[Step("unmount") EXCEPT !.point = CHOOSE p \in get_mount_point(s, dev) : TRUE]>>

\* Mount, AddFstab and CommitFstabAndBlockMount.
MountSteps(dev, p) ==
  <<AtPoint("mount", dev, p), AtPoint("fstab", dev, p), Step("commit and mount")>>

-----------------------------------------------------------------------------
(* MountPartition                                                          *)

\* From the first reading to the second.
MountPartition(s, dev, p) ==
  IF dev \notin getAllDisks(s) THEN Fail(s)
  ELSE Then(s, UnmountSteps(s, dev) \o <<AtPoint("remount", dev, p)>>)

MountUnmounted(s, dev, p) ==
  IF dev \notin getAllDisks(s) \/ get_mount_point(s, dev) # {} THEN Fail(s)
  ELSE Then(s, MountSteps(dev, p))

-----------------------------------------------------------------------------
(* FormatByDevicePath                                                      *)

FormatByDevicePath(s, dev) ==
  IF dev \notin getAllDisks(s) THEN Fail(s)
  ELSE Then(s, UnmountSteps(s, dev)
               \o <<On("mkfs", dev), AtPoint("remount", dev, Generated(dev))>>)

-----------------------------------------------------------------------------
(* InitDisk                                                                *)

\* Mutant: the partitions stay mounted.
MutInitDisk(s, d) ==
  Then(s, <<OnDisk("erase", d), OnDisk("mkpart", d), OnDisk("format parts", d)>>)

\* Each partition is unmounted, then the disk is erased whatever uses it.
InitDisk(s, d) ==
  LET Unmounting(dev) == UnmountSteps(s, dev)
  IN  Then(s, ForEach(PartsOf(s, d), Unmounting)
              \o <<OnDisk("erase", d), OnDisk("mkpart", d), OnDisk("format parts", d)>>)

\* The same for an array: its device is formatted directly.
InitArray(s, dev) ==
  IF ~Running(s, dev) THEN Fail(s)
  ELSE Then(s, UnmountSteps(s, dev)
               \o <<On("erase array", dev), On("mkfs", dev), AtPoint("mount unmounted", dev, Generated(dev))>>)

FormatParts(s, d) ==
  LET Format(dev) == <<On("umount device", dev), On("mkfs", dev)>>
  IN  Then(s, ForEach(PartsOf(s, d), Format) \o <<OnDisk("mount parts", d)>>)

MountParts(s, d) ==
  LET Mounting(dev) == IF get_mount_point(s, dev) # {} THEN <<>>
                       ELSE SubSeq(MountSteps(dev, Generated(dev)), 1, 2)
  IN  Then(s, ForEach(PartsOf(s, d), Mounting) \o <<Step("commit and mount")>>)

MountUnmountedArray(s, dev) ==
  IF get_mount_point(s, dev) # {} THEN Then(s, <<Step("commit and mount")>>)
  ELSE Then(s, MountSteps(dev, Generated(dev)))

-----------------------------------------------------------------------------
(* InitDiskRest                                                            *)

\* Sectors.  An end below 512 would wrap in uint64, to one that parted refuses.
Aligned(region) ==
  <<((region[1] + 2047) \div 2048) * 2048,
    IF region[2] < 512 THEN -1 ELSE ((region[2] - 512) \div 2048) * 2048>>

\* The last entry of the listing must be free space.
InitDiskRest(s, d, region) ==
  IF d \notin s.room THEN Fail(s)
  ELSE Then(s, <<[OnDisk("mkpart range", d) EXCEPT !.range = Aligned(region)], OnDisk("rest", d)>>)

\* The new partition is the last; a file system that is found in it stays.
RestPartition(s, d) ==
  LET dev == <<d, s.parts[d]>>
  IN  IF s.parts[d] = 0 THEN Fail(s)
      ELSE IF s.fs[dev] = "none"
        THEN Then(s, <<On("mkfs", dev), On("umount device", dev),
                       AtPoint("fstab", dev, Generated(dev)), AtPoint("mount or commit", dev, Generated(dev)),
                       Step("commit and mount")>>)
      ELSE Then(s, <<On("umount device", dev), On("fstab existing", dev)>>)

\* AddFstab with skipExisted: the entry that is there decides the mount point.
FstabExisting(s, dev) ==
  LET found == loadFstabMounts(s, dev)
      p == IF found = {} THEN Generated(dev) ELSE (CHOOSE e \in found : TRUE).point
  IN  Then(s, (IF found = {} THEN <<AtPoint("fstab", dev, p)>> ELSE <<>>)
              \o <<AtPoint("mount or commit", dev, p), Step("commit and mount")>>)

\* Mount; if it fails the entry is committed nevertheless.
MountOrCommit(s, dev, p) ==
  LET m == Mount(s, dev, p) IN IF m.ok THEN m ELSE Fail(CommitFstab(s))

-----------------------------------------------------------------------------
(* The sandbox: a partition becomes the overlay of the next boot           *)

FormatPartition(s, dev) ==
  IF dev \notin getAllDisks(s) THEN Fail(s)
  ELSE Then(s, UnmountSteps(s, dev) \o <<On("mkfs", dev), On("overlay", dev)>>)

\* The sections of the file are deleted one by one, each with a commit.
ClearOverlayMounts(s) ==
  LET old == {e \in s.fstab.file : e.point = Overlay}
      left == s.fstab.staged \ old
  IN  IF old = {} THEN s ELSE [s EXCEPT !.fstab = [file |-> left, staged |-> left]]

AddOverlay(s, dev) ==
  IF dev \notin getAllDisks(s) \/ get_mount_point(s, dev) # {} THEN Fail(s)
  ELSE Then(ClearOverlayMounts(s), <<AtPoint("fstab", dev, Overlay), Step("commit")>>)
=============================================================================
