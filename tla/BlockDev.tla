------------------------------- MODULE BlockDev -------------------------------
(***************************************************************************)
(* The disks as the storage requests see and change them: partitions, file *)
(* systems, mounts, md arrays, and the UCI packages fstab and mdadm.       *)
(*                                                                         *)
(*   backend/modules/nas/diskcommands, partedinfo, diskstatus              *)
(*   backend/modules/raid/inventory, writecommands                         *)
(*   backend/service/nas.go, disk_legacy_readers.go, raid_*_usecase.go     *)
(*                                                                         *)
(* What mount, parted, mkfs, mdadm and uci do is external; which of them a *)
(* call runs, and what becomes of their failures, is the code's.           *)
(***************************************************************************)
EXTENDS Integers, Sequences, FiniteSets, SequencesExt

CONSTANTS Disks,      \* the disks, by name
          SystemDisk, \* the one the system runs from
          Mds,        \* the numbers N of /dev/mdN
          MaxArrays   \* bound on the arrays that are ever made

ASSUME BlockDevAssumption ==
  /\ IsFiniteSet(Disks) /\ SystemDisk \in Disks /\ "array" \notin Disks
  /\ IsFiniteSet(Mds) /\ Mds \subseteq Nat
  /\ MaxArrays \in Nat

Parts == Disks \X {1, 2}
Arrays == {"array"} \X (1 .. MaxArrays)
Dev == Parts \union Arrays
NoDev == <<"none", 0>>

\* Mount points: one that is generated for a device, one the user chooses for
\* it, the overlay of the root file system, and where the system's own overlay
\* stays when another is used.
Generated(dev) == <<"mnt", dev>>
Chosen(dev) == <<"user", dev>>
Overlay == <<"overlay", NoDev>>
Rom == <<"rom", NoDev>>
Points == {Generated(d) : d \in Dev} \union {Chosen(d) : d \in Dev} \union {Overlay, Rom}

\* A file system has the UUID of its making: an entry of fstab names the device
\* that has its UUID.  Entries whose UUID is no device's any more, which nobody
\* mounts, are left out.  Sections are told apart by what they say: their numbers
\* matter only where two have the same device or both are the overlay, and that
\* OneEntry excludes.  No point is shared by two devices.
Entry == [dev : Dev, point : Points]
NoArray == [id |-> 0, members |-> {}]

Storage ==
  [parts  : [Disks -> 0 .. 2],         \* how many partitions
   room   : SUBSET Disks,              \* with free space behind the last one
   fs     : [Dev -> {"none", "ext4"}],
   super  : [Disks -> 0 .. MaxArrays], \* the array in the superblock of partition 1
   gone   : SUBSET Disks,              \* the superblock is that of a removed member
   run    : [Mds -> [id : 0 .. MaxArrays, members : SUBSET Disks]],
   node   : SUBSET Mds,                \* /dev/mdN is there
   mounts : SUBSET Entry,
   fstab  : [file : SUBSET Entry, staged : SUBSET Entry],
   mdadm  : [file : Seq([md : Mds, id : 0 .. MaxArrays]),
             staged : Seq([md : Mds, id : 0 .. MaxArrays])],
   made   : 0 .. MaxArrays]

-----------------------------------------------------------------------------
(* Readers                                                                 *)

PartsOf(s, d) == [n \in 1 .. s.parts[d] |-> <<d, n>>]

\* is_raid_member; ParseRaidMember of /proc/mdstat.
is_raid_member(s, d) == \E m \in Mds : d \in s.run[m].members

Running(s, dev) == \E m \in Mds : s.run[m].id # 0 /\ dev = <<"array", s.run[m].id>>
ArrayOn(s, m) == <<"array", s.run[m].id>>
Exists(s, dev) == IF dev \in Parts THEN dev[2] <= s.parts[dev[1]] ELSE Running(s, dev)

Mounted(s, dev) == \E e \in s.mounts : e.dev = dev
MountPointOf(s, dev) == (CHOOSE e \in s.mounts : e.dev = dev).point

\* get_mount_point says "Raid Member: mdN" for a member: a mount point to
\* everyone who looks for one, and no place that umount knows.
MemberText(d) == <<"raid member", <<d, 1>> >>

\* Mutant: the members of arrays are not looked up.
MutGetMountPoint(s, dev) == IF Mounted(s, dev) THEN {MountPointOf(s, dev)} ELSE {}

get_mount_point(s, dev) ==
  IF Mounted(s, dev) THEN {MountPointOf(s, dev)}
  ELSE IF dev \in Parts /\ dev[2] = 1 /\ is_raid_member(s, dev[1]) THEN {MemberText(dev[1])}
  ELSE {}

\* getDisksStatus: the disks that are not members of an array; the system's own
\* is always there.
ShouldIncludeDisk(s, d) == d = SystemDisk \/ ~is_raid_member(s, d)

\* getAllDisks: the partitions of the disks and the arrays.
getAllDisks(s) ==
  {dev \in Dev : IF dev \in Parts THEN Exists(s, dev) /\ ShouldIncludeDisk(s, dev[1])
                 ELSE Running(s, dev)}

\* CreateList: what an array may be made of.
CreateList(s) ==
  {d \in Disks \ {SystemDisk} :
     ShouldIncludeDisk(s, d) /\ \A n \in 1 .. s.parts[d] : get_mount_point(s, <<d, n>>) = {}}

\* findFreeMd: the first number without a device node, from min on.
findFreeMd(s, min) ==
  LET free == {m \in Mds : m >= min /\ m \notin s.node}
  IN  IF free = {} THEN {} ELSE {CHOOSE m \in free : \A n \in free : m <= n}

-----------------------------------------------------------------------------
(* Commands.  Each yields the outcomes it can have: what is left, whether  *)
(* the call reports success, and the steps that follow it.                 *)

Done(s) == [ok |-> TRUE, s |-> s, more |-> <<>>]
Then(s, more) == [ok |-> TRUE, s |-> s, more |-> more]
Fail(s) == [ok |-> FALSE, s |-> s, more |-> <<>>]

\* A device that is mounted, or whose disk is in an array, is not written to by
\* mkfs, parted and mdadm.
Busy(s, dev) == Mounted(s, dev) \/ (dev \in Parts /\ dev[2] = 1 /\ is_raid_member(s, dev[1]))
DiskBusy(s, d) == \E n \in 1 .. s.parts[d] : Busy(s, <<d, n>>)

Mount(s, dev, p) ==
  IF Exists(s, dev) /\ s.fs[dev] = "ext4" /\ ~Busy(s, dev)
    THEN Done([s EXCEPT !.mounts = @ \union {[dev |-> dev, point |-> p]}])
    ELSE Fail(s)

\* umount; what is below the running root is busy.
UmountPoint(s, p) ==
  IF p = Rom \/ ~\E e \in s.mounts : e.point = p THEN Fail(s)
  ELSE Done([s EXCEPT !.mounts = {e \in @ : e.point # p}])

Unmount(s, p) == IF p = Overlay THEN Fail(s) ELSE UmountPoint(s, p)

\* UnMount by device; its callers pass over its error.
UnMount(s, dev) == IF Mounted(s, dev) THEN UmountPoint(s, MountPointOf(s, dev)).s ELSE s

\* dd has no opinion on who uses the disk.  What began on it is gone.
Dd(s, d) ==
  [s EXCEPT !.parts[d] = 0, !.room = @ \ {d}, !.super[d] = 0, !.gone = @ \ {d},
            !.fs = [dev \in Dev |-> IF dev[1] = d THEN "none" ELSE @[dev]]]

\* dd, then a new label.  Only the label's failure is seen.
Erase(s, d) ==
  IF DiskBusy(s, d) THEN Fail(Dd(s, d)) ELSE Done([Dd(s, d) EXCEPT !.room = @ \union {d}])

\* InitDisk of an array: dd on its device, and a label that mkfs replaces.
EraseArray(s, dev) == IF Mounted(s, dev) THEN Fail([s EXCEPT !.fs[dev] = "none"])
                      ELSE Done([s EXCEPT !.fs[dev] = "none"])

\* One partition over the whole disk.
MakePart(s, d) ==
  IF d \in s.room /\ s.parts[d] = 0
    THEN Done([s EXCEPT !.parts[d] = 1, !.room = @ \ {d}]) ELSE Fail(s)

\* The same with the raid flag, which only Recover asks for.
makeRaidPart(s, d) == MakePart(s, d)

\* MakePartRange: a partition in the free space.  What is found in it may be
\* the file system that was there before.
MakePartRange(s, d, start, end) ==
  IF d \in s.room /\ s.parts[d] < 2 /\ start <= end
    THEN Done([s EXCEPT !.parts[d] = @ + 1, !.room = @ \ {d}]) ELSE Fail(s)

Forget(entries, dev) == {e \in entries : e.dev # dev}

\* mkfs writes over the superblock of an array that is not running.
Ext4Partition(s, dev) ==
  IF Exists(s, dev) /\ ~Busy(s, dev)
    THEN Done([s EXCEPT !.fs[dev] = "ext4",
                        !.super = [d \in Disks |-> IF dev = <<d, 1>> THEN 0 ELSE @[d]],
                        !.gone = {d \in @ : dev # <<d, 1>>},
                        !.fstab = [file |-> Forget(@.file, dev), staged |-> Forget(@.staged, dev)]])
    ELSE Fail(s)

\* loadFstabMounts: the entry of the device in the file, not in what is staged.
loadFstabMounts(s, dev) == {e \in s.fstab.file : e.dev = dev}

\* AddFstab: the first entry with the UUID is changed, else one is added.
AddFstab(s, dev, p) ==
  IF s.fs[dev] = "none" THEN Fail(s)
  ELSE Done([s EXCEPT !.fstab.staged = (@ \ loadFstabMounts(s, dev)) \union {[dev |-> dev, point |-> p]}])

CommitFstab(s) == [s EXCEPT !.fstab.file = s.fstab.staged]

\* "block mount": what fstab lists and is not mounted yet.
BlockMount(s, entries) ==
  [s EXCEPT !.mounts = @ \union {e \in entries : Mount(s, e.dev, e.point).ok}]

\* The overlay of the next boot is left to the boot.
CommitFstabAndBlockMount(s) ==
  BlockMount(CommitFstab(s), {e \in s.fstab.staged : e.point # Overlay})
=============================================================================
