--------------------------- MODULE StorageCommands ---------------------------
(***************************************************************************)
(* What the commands of the disks and arrays keep, whatever the disks, the *)
(* arrays and the request they are part of: the lemmas that StorageProofs  *)
(* rests on.  DisksOK is the disks' part of the inductive invariant; every *)
(* command, done or failing half way, leads from disks that satisfy it to  *)
(* disks that satisfy it (Fine), without writing a device that is mounted. *)
(***************************************************************************)
EXTENDS Storage, DataLemmas

-----------------------------------------------------------------------------
(* The inductive invariant: the disks                                      *)

SysDev == <<SystemDisk, 1>>

There(s, dev) == dev \in Parts /\ dev[2] <= s.parts[dev[1]]

\* What is mounted has a file system and is there, at one place; there is one
\* overlay, and the system's own partition cannot be unmounted.
MountsOK(s) ==
  /\ \E o \in s.mounts : /\ o.point = Overlay /\ o.dev \in Parts
                         /\ \A e \in s.mounts : e.point = Overlay => e = o
  /\ \E e \in s.mounts : e.dev = SysDev /\ e.point \in {Overlay, Rom}
  /\ \A e, f \in s.mounts : e.dev = f.dev => e = f
  /\ \A e \in s.mounts : s.fs[e.dev] = "ext4" /\ (e.dev \in Parts => There(s, e.dev))

\* Entries of fstab: one for a device, one overlay, none for the system's own
\* partition.  The device of the overlay is there, or has lost its file system.
EntriesOK(s, entries) ==
  /\ \A e, f \in entries : e.dev = f.dev \/ (e.point = Overlay /\ f.point = Overlay) => e = f
  /\ \A e \in entries : /\ e.dev # SysDev
                        /\ e.point = Overlay => /\ e.dev \in Parts
                                                /\ s.fs[e.dev] = "ext4" => There(s, e.dev)

\* Arrays that run have different identities, their members carry them, and a
\* partition has a superblock or a file system, not both.
ArraysOK(s) ==
  /\ \A m \in Mds : s.run[m].id = 0 <=> s.run[m].members = {}
  /\ \A m, n \in Mds : s.run[m].id = s.run[n].id => m = n \/ s.run[m].id = 0
  /\ \A m \in Mds : s.run[m].id <= s.made /\ (s.run[m].id # 0 => m \in s.node)
  /\ \A m \in Mds : \A d \in s.run[m].members : s.super[d] = s.run[m].id
  /\ \A d \in Disks : /\ s.super[d] <= s.made
                      /\ s.super[d] # 0 => There(s, <<d, 1>>) /\ s.fs[<<d, 1>>] = "none"

DisksOK(s) ==
  /\ s \in Storage /\ MountsOK(s) /\ ArraysOK(s)
  /\ EntriesOK(s, s.fstab.file) /\ EntriesOK(s, s.fstab.staged)

-----------------------------------------------------------------------------
(* The inductive invariant: the steps that are left                        *)

MountOps == {"mount partition", "remount", "mount", "mount or commit"}
DevOps == MountOps \union {"format", "init array", "mount unmounted", "fstab existing", "format partition",
                           "overlay", "umount device", "erase array", "mkfs", "fstab"}
MdOps == {"format array", "create", "delete", "remove node", "add", "remove"}
DiskOps == {"unmount", "init", "format parts", "mount parts", "init rest", "rest", "erase", "mkpart", "mkpart range",
            "commit", "commit and mount"}
Ops == Decisions \union RaidCommands \union DevOps \union DiskOps
Committing == {"commit", "commit and mount", "mount or commit"}

Steps == [op : Ops, dev : Dev \union {NoDev}, disk : Disks,
          point : Points \union {MemberText(d) : d \in Disks}, md : Nat,
          members : Seq(Disks), range : Int \X Int]

\* What a step is about.
StepOK(c) ==
  /\ c.op \in DevOps => c.dev \in Dev
  /\ c.op \in MdOps => c.md \in Mds
  /\ c.op \in MountOps => c.point \in Points \ {Overlay}
  /\ c.op = "umount path" => c.point # Overlay
  /\ c.op = "fstab" => c.point \in Points /\ c.dev # SysDev
  /\ c.op = "format partition" => c.dev \in Parts
  /\ c.op = "overlay" => c.dev \in Parts
  /\ c.op = "init rest" => c.range \in FreeRegions
  /\ c.op = "mkpart range" => \E region \in FreeRegions : c.range = Aligned(region)
  /\ c.op \in {"choose md", "create"} => c.members # <<>>

\* Decisions come last, but for the disks of a new array; what is staged is
\* committed next.
OrderAt(t, i) ==
  /\ t[i].op \in Decisions \ {"take member"} => i = Len(t)
  /\ t[i].op = "take member" => i < Len(t)
  /\ t[i].op = "fstab" => i < Len(t) /\ t[i + 1].op \in Committing
  /\ t[i].op = "mount or commit" => i < Len(t) /\ t[i + 1].op = "commit and mount"

OrderOK(t) == \A i \in 1 .. Len(t) : OrderAt(t, i)

Earlier(t, i) == {t[j] : j \in 1 .. i - 1}
OnlyOps(t, i, ops) == \A c \in Earlier(t, i) : c.op \in ops

\* Before a disk or an array is erased come the unmountings of all that is
\* mounted from it, and of the array it is a member of, which fails.
EraseAt(s, t, i) ==
  t[i].op = "erase" =>
    /\ OnlyOps(t, i, {"unmount"})
    /\ \A e \in s.mounts : e.dev \in Parts /\ e.dev[1] = t[i].disk =>
         \E c \in Earlier(t, i) : c.point = e.point
    /\ is_raid_member(s, t[i].disk) => \E c \in Earlier(t, i) : c.point = MemberText(t[i].disk)

EraseArrayAt(s, t, i) ==
  t[i].op = "erase array" =>
    /\ OnlyOps(t, i, {"unmount"})
    /\ t[i].dev \notin Parts
    /\ \A e \in s.mounts : e.dev = t[i].dev => \E c \in Earlier(t, i) : c.point = e.point

\* The partitions that are formatted are new and not in use.
FormatPartsAt(s, t, i) ==
  t[i].op = "format parts" =>
    \/ i = 1 /\ s.parts[t[i].disk] = 1 /\ ~Mounted(s, <<t[i].disk, 1>>)
    \/ i > 1 /\ t[i - 1].op = "mkpart" /\ t[i - 1].disk = t[i].disk

MountPartsAt(s, t, i) ==
  t[i].op = "mount parts" => OnlyOps(t, i, {"umount device", "mkfs"}) /\ s.parts[t[i].disk] = 1

UmountDeviceAt(s, t, i) ==
  t[i].op = "umount device" => ~\E e \in s.mounts : e.dev = t[i].dev /\ e.point = Overlay

\* The file system that is found in a new partition is not an overlay's.
FreshPart(s, dev) ==
  ~Mounted(s, dev) /\ (s.fs[dev] = "ext4" => \A e \in s.fstab.file : e.dev = dev => e.point # Overlay)

RestAt(s, t, i) ==
  t[i].op = "rest" =>
    \/ i = 1 /\ FreshPart(s, <<t[i].disk, s.parts[t[i].disk]>>)
    \/ i > 1 /\ t[i - 1].op = "mkpart range" /\ t[i - 1].disk = t[i].disk

ExistingAt(s, t, i) ==
  t[i].op = "fstab existing" =>
    /\ OnlyOps(t, i, {"umount device"}) /\ t[i].dev # SysDev
    /\ \A e \in s.fstab.file : e.dev = t[i].dev => e.point # Overlay

\* A new overlay is the only one.
FstabAt(s, t, i) ==
  t[i].op = "fstab" /\ t[i].point = Overlay =>
    i = 1 /\ There(s, t[i].dev) /\ \A e \in s.fstab.staged : e.point # Overlay

\* The members of a new array are erased first, its number is free.
Wiped(s, d) == s.fs[<<d, 1>>] = "none"

ChooseAt(s, t, i) ==
  t[i].op = "choose md" =>
    /\ OnlyOps(t, i, {"take member", "unmount", "erase", "mkraid"})
    /\ s.made < MaxArrays
    /\ \A k \in 1 .. Len(t[i].members) :
         \/ Wiped(s, t[i].members[k])
         \/ \E c \in Earlier(t, i) : c.op \in {"take member", "erase"} /\ c.disk = t[i].members[k]

CreateAt(s, t, i) ==
  t[i].op = "create" =>
    /\ i = 1 /\ s.made < MaxArrays /\ t[i].md \notin s.node
    /\ \A k \in 1 .. Len(t[i].members) : Wiped(s, t[i].members[k])

AddAt(s, t, i) ==
  t[i].op = "add" =>
    /\ OnlyOps(t, i, {"erase", "mkraid"})
    /\ Wiped(s, t[i].disk) \/ \E c \in Earlier(t, i) : c.op = "erase" /\ c.disk = t[i].disk

\* The array that is deleted shares its members with no other, and loses its
\* node when it is stopped.
DeleteAt(s, t, i) ==
  t[i].op = "delete" =>
    /\ OnlyOps(t, i, {"umount path"})
    /\ \A n \in Mds \ {t[i].md}, k \in 1 .. Len(t[i].members) : t[i].members[k] \notin s.run[n].members

NodeAt(s, t, i) ==
  t[i].op = "remove node" =>
    /\ OnlyOps(t, i, {"umount path", "delete"})
    /\ s.run[t[i].md].id = 0 \/ \E c \in Earlier(t, i) : c.op = "delete" /\ c.md = t[i].md

ReadyAt(s, t, i) ==
  /\ EraseAt(s, t, i) /\ EraseArrayAt(s, t, i)
  /\ FormatPartsAt(s, t, i) /\ MountPartsAt(s, t, i) /\ UmountDeviceAt(s, t, i)
  /\ RestAt(s, t, i) /\ ExistingAt(s, t, i) /\ FstabAt(s, t, i)
  /\ ChooseAt(s, t, i) /\ CreateAt(s, t, i) /\ AddAt(s, t, i) /\ DeleteAt(s, t, i) /\ NodeAt(s, t, i)

\* fstab is staged by the request that runs only, which commits next.
Clean(s) == s.fstab.staged = s.fstab.file
StagedOK(s, t) == Clean(s) \/ (t # <<>> /\ Head(t).op \in Committing)

PlanOK(s, t) ==
  /\ t \in Seq(Steps)
  /\ \A i \in 1 .. Len(t) : StepOK(t[i])
  /\ OrderOK(t) /\ StagedOK(s, t)
  /\ \A i \in 1 .. Len(t) : ReadyAt(s, t, i)

StorageInv == DisksOK(sys) /\ PlanOK(sys, todo)

-----------------------------------------------------------------------------
(* The steps                                                               *)

\* What each step is, by its name.
LEMMA DecideIs ==
  ASSUME NEW s, NEW c
  PROVE  /\ c.op = "mount partition" => Outcome(s, c) = MountPartition(s, c.dev, c.point)
         /\ c.op = "remount" => Outcome(s, c) = MountUnmounted(s, c.dev, c.point)
         /\ c.op = "format" => Outcome(s, c) = FormatByDevicePath(s, c.dev)
         /\ c.op = "format array" => Outcome(s, c) = FormatByDevicePath(s, ArrayOn(s, c.md))
         /\ c.op = "init" => Outcome(s, c) = InitDisk(s, c.disk)
         /\ c.op = "init array" => Outcome(s, c) = InitArray(s, c.dev)
         /\ c.op = "format parts" => Outcome(s, c) = FormatParts(s, c.disk)
         /\ c.op = "mount parts" => Outcome(s, c) = MountParts(s, c.disk)
         /\ c.op = "mount unmounted" => Outcome(s, c) = MountUnmountedArray(s, c.dev)
         /\ c.op = "init rest" => Outcome(s, c) = InitDiskRest(s, c.disk, c.range)
         /\ c.op = "rest" => Outcome(s, c) = RestPartition(s, c.disk)
         /\ c.op = "fstab existing" => Outcome(s, c) = FstabExisting(s, c.dev)
         /\ c.op = "format partition" => Outcome(s, c) = FormatPartition(s, c.dev)
         /\ c.op = "overlay" => Outcome(s, c) = AddOverlay(s, c.dev)
         /\ c.op = "take member" => Outcome(s, c) = TakeMember(s, c.disk)
         /\ c.op = "choose md" => Outcome(s, c) = ChooseMd(s, c.members)
BY DEF Outcome, Decide, Decisions

LEMMA DiskCommandIs ==
  ASSUME NEW s, NEW c
  PROVE  /\ c.op = "mount" => Outcome(s, c) = Mount(s, c.dev, c.point)
         /\ c.op = "mount or commit" => Outcome(s, c) = MountOrCommit(s, c.dev, c.point)
         /\ c.op = "unmount" => Outcome(s, c) = Unmount(s, c.point)
         /\ c.op = "umount device" => Outcome(s, c) = Done(UnMount(s, c.dev))
         /\ c.op = "erase" => Outcome(s, c) = Erase(s, c.disk)
         /\ c.op = "erase array" => Outcome(s, c) = EraseArray(s, c.dev)
         /\ c.op = "mkpart" => Outcome(s, c) = MakePart(s, c.disk)
         /\ c.op = "mkpart range" => Outcome(s, c) = MakePartRange(s, c.disk, c.range[1], c.range[2])
         /\ c.op = "mkfs" => Outcome(s, c) = Ext4Partition(s, c.dev)
         /\ c.op = "fstab" => Outcome(s, c) = AddFstab(s, c.dev, c.point)
         /\ c.op = "commit" => Outcome(s, c) = Done(CommitFstab(s))
         /\ c.op = "commit and mount" => Outcome(s, c) = Done(CommitFstabAndBlockMount(s))
BY DEF Outcome, DiskCommand, Decisions, RaidCommands

LEMMA RaidCommandIs ==
  ASSUME NEW s, NEW c
  PROVE  /\ c.op = "mkraid" => Outcome(s, c) = MakePart(s, c.disk)
         /\ c.op = "create" => Outcome(s, c) = RunCreate(s, c.md, c.members)
         /\ c.op = "umount path" => Outcome(s, c) = UmountPoint(s, c.point)
         /\ c.op = "delete" => Outcome(s, c) = RunDelete(s, c.md, c.members)
         /\ c.op = "remove node" => Outcome(s, c) = RemoveDeletedDevice(s, c.md)
         /\ c.op = "add" => Outcome(s, c) = RunAdd(s, c.md, c.disk)
         /\ c.op = "remove" => Outcome(s, c) = RunRemove(s, c.md, c.disk)
         /\ c.op = "clear arrays" => Outcome(s, c) = clearExistingArrays(s)
         /\ c.op = "scan" => Outcome(s, c) = Scan(s)
         /\ c.op = "autofix" => Outcome(s, c) = AutoFixArrays(s)
         /\ c.op = "commit mdadm" => Outcome(s, c) = CommitMdadm(s)
         /\ c.op = "restart mdadm" => Outcome(s, c) = Done(Assemble(s))
BY DEF Outcome, RaidCommand, Decisions, RaidCommands, makeRaidPart

\* The steps as they are written.
LEMMA StepFields ==
  ASSUME NEW op \in Ops
  PROVE  /\ Step(op) \in Steps /\ Step(op).op = op
         /\ \A dev \in Dev : On(op, dev) \in Steps /\ On(op, dev).op = op /\ On(op, dev).dev = dev
         /\ \A d \in Disks : OnDisk(op, d) \in Steps /\ OnDisk(op, d).op = op /\ OnDisk(op, d).disk = d
         /\ \A dev \in Dev, p \in Points : /\ AtPoint(op, dev, p) \in Steps /\ AtPoint(op, dev, p).op = op
                                           /\ AtPoint(op, dev, p).dev = dev /\ AtPoint(op, dev, p).point = p
         /\ \A m \in Mds, ms \in Seq(Disks) :
              /\ OnArray(op, m, ms) \in Steps /\ OnArray(op, m, ms).op = op
              /\ OnArray(op, m, ms).md = m /\ OnArray(op, m, ms).members = ms
<1>1. Overlay \in Points /\ NoDev \in Dev \union {NoDev} /\ SystemDisk \in Disks /\ Mds \subseteq Nat
  BY BlockDevAssumption DEF Points
<1>2. <<0, 0>> \in Int \X Int /\ <<>> \in Seq(Disks)
  OBVIOUS
<1>3. Step(op) \in Steps /\ Step(op).op = op
  BY <1>1, <1>2 DEF Step, Steps
<1>4. \A dev \in Dev : On(op, dev) \in Steps /\ On(op, dev).op = op /\ On(op, dev).dev = dev
  BY <1>3 DEF On, Steps
<1>5. \A d \in Disks : OnDisk(op, d) \in Steps /\ OnDisk(op, d).op = op /\ OnDisk(op, d).disk = d
  BY <1>3 DEF OnDisk, Steps
<1>6. \A dev \in Dev, p \in Points : /\ AtPoint(op, dev, p) \in Steps /\ AtPoint(op, dev, p).op = op
                                     /\ AtPoint(op, dev, p).dev = dev /\ AtPoint(op, dev, p).point = p
  BY <1>4 DEF AtPoint, Steps
<1>7. \A m \in Mds, ms \in Seq(Disks) :
        /\ OnArray(op, m, ms) \in Steps /\ OnArray(op, m, ms).op = op
        /\ OnArray(op, m, ms).md = m /\ OnArray(op, m, ms).members = ms
  BY <1>3, <1>1 DEF OnArray, Steps
<1> QED BY <1>3, <1>4, <1>5, <1>6, <1>7

-----------------------------------------------------------------------------
(* Commands keep the disks in order                                        *)

\* What a command may do: write to what nobody uses, or mount and unmount, but
\* never the overlay; and a member that stays one keeps its superblock.
SafeStep(s, r) ==
  /\ {e \in r.mounts : e.point = Overlay} = {e \in s.mounts : e.point = Overlay}
  /\ \/ r.fs = s.fs
     \/ r.mounts = s.mounts /\ \A e \in s.mounts : r.fs[e.dev] = s.fs[e.dev]
  /\ \A m \in Mds : \A d \in s.run[m].members :
       r.run[m].id = s.run[m].id /\ d \in r.run[m].members => r.super[d] = s.run[m].id

Fine(s, r) == DisksOK(r) /\ SafeStep(s, r)

LEMMA UmountFine ==
  ASSUME NEW s, DisksOK(s), NEW p, p # Overlay
  PROVE  LET r == UmountPoint(s, p).s
         IN  /\ Fine(s, r)
             /\ r = [s EXCEPT !.mounts = r.mounts]
             /\ \A e \in r.mounts : e \in s.mounts
             /\ UmountPoint(s, p).ok => /\ \E e \in s.mounts : e.point = p
                                        /\ r.mounts = {e \in s.mounts : e.point # p}
<1> DEFINE r == UmountPoint(s, p).s
<1>1. CASE p = Rom \/ ~\E e \in s.mounts : e.point = p
  <2>1. r = s /\ ~UmountPoint(s, p).ok
    BY <1>1 DEF UmountPoint, Fail
  <2> QED BY <2>1 DEF Fine, SafeStep, DisksOK, ArraysOK, Storage
<1>2. CASE p # Rom /\ \E e \in s.mounts : e.point = p
  <2>1. r = [s EXCEPT !.mounts = {e \in s.mounts : e.point # p}] /\ UmountPoint(s, p).ok
    BY <1>2 DEF UmountPoint, Done
  <2> HIDE DEF r
  <2>2. r \in Storage
    BY <2>1 DEF DisksOK, Storage
  <2>3. r.mounts = {e \in s.mounts : e.point # p}
    BY <2>1 DEF DisksOK, Storage
  <2>4. /\ r.fs = s.fs /\ r.parts = s.parts /\ r.super = s.super /\ r.run = s.run /\ r.made = s.made
        /\ r.node = s.node /\ r.fstab = s.fstab
    BY <2>1 DEF DisksOK, Storage
  <2>5. MountsOK(r)
    BY <2>3, <2>4, <1>2 DEF MountsOK, There, DisksOK
  <2>6. ArraysOK(r)
    BY <2>4 DEF ArraysOK, There, DisksOK
  <2>7. EntriesOK(r, r.fstab.file) /\ EntriesOK(r, r.fstab.staged)
    BY <2>4 DEF EntriesOK, There, DisksOK
  <2>8. SafeStep(s, r)
    BY <2>3, <2>4 DEF SafeStep, DisksOK, ArraysOK
  <2> QED BY <2>1, <2>2, <2>3, <2>5, <2>6, <2>7, <2>8, <1>2 DEF Fine, DisksOK, r
<1> QED BY <1>1, <1>2

LEMMA PartsNumber ==
  ASSUME NEW s, s \in Storage, NEW d \in Disks
  PROVE  s.parts[d] \in Nat /\ s.parts[d] <= 2
<1>1. s.parts \in [Disks -> 0 .. 2]
  BY DEF Storage
<1> QED BY <1>1

\* The parts of the invariant see only parts of the disks.
NotFewer(s, r) == \A d \in Disks : s.parts[d] \in Nat /\ r.parts[d] \in Nat /\ r.parts[d] >= s.parts[d]

LEMMA SameMounts ==
  ASSUME NEW s, NEW r, MountsOK(s), r.mounts = s.mounts, r.fs = s.fs,
         NotFewer(s, r)
  PROVE  MountsOK(r)
<1>1. \A dev \in Parts : There(s, dev) => There(r, dev)
  BY DEF There, Parts, NotFewer
<1> QED BY <1>1 DEF MountsOK

LEMMA SameArrays ==
  ASSUME NEW s, NEW r, ArraysOK(s), r.run = s.run, r.super = s.super, r.node = s.node, r.made = s.made,
         r.fs = s.fs, NotFewer(s, r)
  PROVE  ArraysOK(r)
<1>1. \A d \in Disks : There(s, <<d, 1>>) => There(r, <<d, 1>>)
  BY DEF There, Parts, NotFewer
<1> QED BY <1>1 DEF ArraysOK

LEMMA SameEntries ==
  ASSUME NEW s, NEW r, NEW entries, EntriesOK(s, entries), r.fs = s.fs,
         NotFewer(s, r)
  PROVE  EntriesOK(r, entries)
<1>1. \A dev \in Parts : There(s, dev) => There(r, dev)
  BY DEF There, Parts, NotFewer
<1> QED BY <1>1 DEF EntriesOK

\* A command that leaves run and super alone is fine for the members.
LEMMA SameMembers ==
  ASSUME NEW s, ArraysOK(s), NEW r, r.run = s.run, r.super = s.super
  PROVE  \A m \in Mds : \A d \in s.run[m].members :
           r.run[m].id = s.run[m].id /\ d \in r.run[m].members => r.super[d] = s.run[m].id
BY DEF ArraysOK

\* A change of mounts.
LEMMA MountsChange ==
  ASSUME NEW s, DisksOK(s), NEW mounts \in SUBSET Entry, NEW r, r = [s EXCEPT !.mounts = mounts],
         MountsOK(r), {e \in mounts : e.point = Overlay} = {e \in s.mounts : e.point = Overlay}
  PROVE  Fine(s, r) /\ r.mounts = mounts
<1>1. r \in Storage
  BY DEF DisksOK, Storage
<1>2. /\ r.fs = s.fs /\ r.parts = s.parts /\ r.super = s.super /\ r.run = s.run /\ r.made = s.made
      /\ r.node = s.node /\ r.fstab = s.fstab /\ r.mounts = mounts
  BY DEF DisksOK, Storage
<1>3. NotFewer(s, r)
  BY <1>2, PartsNumber DEF DisksOK, NotFewer
<1>4. ArraysOK(r)
  BY <1>2, <1>3, SameArrays DEF DisksOK
<1>a. EntriesOK(r, r.fstab.file)
  BY <1>2, <1>3, SameEntries DEF DisksOK
<1>b. EntriesOK(r, r.fstab.staged)
  BY <1>2, <1>3, SameEntries DEF DisksOK
<1>5. SafeStep(s, r)
  BY <1>2, SameMembers DEF SafeStep, DisksOK
<1> QED BY <1>1, <1>2, <1>4, <1>a, <1>b, <1>5 DEF Fine, DisksOK

LEMMA MountFine ==
  ASSUME NEW s, DisksOK(s), NEW dev \in Dev, NEW p \in Points \ {Overlay}
  PROVE  LET r == Mount(s, dev, p).s
         IN  Fine(s, r) /\ r = [s EXCEPT !.mounts = r.mounts] /\ (~Mount(s, dev, p).ok => r = s)
<1> DEFINE r == Mount(s, dev, p).s
           mounts == s.mounts \union {[dev |-> dev, point |-> p]}
<1>1. CASE ~(Exists(s, dev) /\ s.fs[dev] = "ext4" /\ ~Busy(s, dev))
  <2>1. r = s /\ ~Mount(s, dev, p).ok
    BY <1>1 DEF Mount, Fail
  <2> QED BY <2>1 DEF Fine, SafeStep, DisksOK, ArraysOK, Storage
<1>2. CASE Exists(s, dev) /\ s.fs[dev] = "ext4" /\ ~Busy(s, dev)
  <2>1. r = [s EXCEPT !.mounts = mounts] /\ Mount(s, dev, p).ok
    BY <1>2 DEF Mount, Done
  <2>2. mounts \in SUBSET Entry /\ [dev |-> dev, point |-> p] \in Entry
    BY DEF DisksOK, Storage, Entry
  <2>3. \A e \in s.mounts : e.dev # dev
    BY <1>2 DEF Busy, Mounted
  <2>4. dev \in Parts => There(s, dev)
    BY <1>2 DEF Exists, There
  <2> HIDE DEF r
  <2>5. r.mounts = mounts /\ r.fs = s.fs /\ r.parts = s.parts
    BY <2>1 DEF DisksOK, Storage
  <2>6. MountsOK(r)
    BY <2>3, <2>4, <2>5, <1>2 DEF MountsOK, There, DisksOK
  <2>7. {e \in mounts : e.point = Overlay} = {e \in s.mounts : e.point = Overlay}
    OBVIOUS
  <2> HIDE DEF mounts
  <2> QED BY <2>1, <2>2, <2>5, <2>6, <2>7, MountsChange DEF r
<1> QED BY <1>1, <1>2

\* What "block mount" mounts: devices that are there and were not mounted.
NewMounts(s, entries) == {e \in entries : Mount(s, e.dev, e.point).ok}

LEMMA NewMountsAre ==
  ASSUME NEW s, NEW entries, NEW e \in NewMounts(s, entries)
  PROVE  e \in entries /\ Exists(s, e.dev) /\ s.fs[e.dev] = "ext4" /\ ~Busy(s, e.dev)
BY DEF NewMounts, Mount, Fail, Done

LEMMA BlockMountFine ==
  ASSUME NEW s, DisksOK(s), NEW entries \in SUBSET Entry, EntriesOK(s, entries),
         \A e \in entries : e.point # Overlay
  PROVE  Fine(s, BlockMount(s, entries))
<1> DEFINE r == BlockMount(s, entries)
           new == NewMounts(s, entries)
           mounts == s.mounts \union new
<1>1. r = [s EXCEPT !.mounts = mounts]
  BY DEF BlockMount, NewMounts
<1>2. \A e \in new : /\ e \in entries /\ s.fs[e.dev] = "ext4" /\ Exists(s, e.dev)
                     /\ ~Mounted(s, e.dev)
  BY NewMountsAre DEF Busy
<1> HIDE DEF new, r
<1>3. mounts \in SUBSET Entry
  BY <1>2 DEF DisksOK, Storage
<1>4. r.mounts = mounts /\ r.fs = s.fs /\ r.parts = s.parts
  BY <1>1 DEF DisksOK, Storage
<1>5. \A e \in new : e.dev \in Parts => There(s, e.dev)
  BY <1>2 DEF Exists, There
<1>6. \A e, f \in mounts : e.dev = f.dev => e = f
  BY <1>2 DEF DisksOK, MountsOK, Mounted, EntriesOK
<1>7. MountsOK(r)
  BY <1>2, <1>4, <1>5, <1>6 DEF MountsOK, There, DisksOK
<1>8. {e \in mounts : e.point = Overlay} = {e \in s.mounts : e.point = Overlay}
  BY <1>2
<1> HIDE DEF mounts
<1>9. Fine(s, r)
  BY <1>1, <1>3, <1>7, <1>8, MountsChange
<1> QED BY <1>9 DEF r

\* A change of fstab.
LEMMA FstabChange ==
  ASSUME NEW s, DisksOK(s), NEW fstab \in [file : SUBSET Entry, staged : SUBSET Entry],
         NEW r, r = [s EXCEPT !.fstab = fstab], EntriesOK(s, fstab.file), EntriesOK(s, fstab.staged)
  PROVE  /\ Fine(s, r)
         /\ r.fstab = fstab /\ r.mounts = s.mounts /\ r.parts = s.parts /\ r.fs = s.fs /\ r.run = s.run
<1>1. r \in Storage
  BY DEF DisksOK, Storage
<1>2. /\ r.fs = s.fs /\ r.parts = s.parts /\ r.super = s.super /\ r.run = s.run /\ r.made = s.made
      /\ r.node = s.node /\ r.fstab = fstab /\ r.mounts = s.mounts
  BY DEF DisksOK, Storage
<1>3. NotFewer(s, r)
  BY <1>2, PartsNumber DEF DisksOK, NotFewer
<1>4. ArraysOK(r)
  BY <1>2, <1>3, SameArrays DEF DisksOK
<1>a. MountsOK(r)
  BY <1>2, <1>3, SameMounts DEF DisksOK
<1>5. EntriesOK(r, r.fstab.file)
  BY <1>2, <1>3, SameEntries DEF DisksOK
<1>b. EntriesOK(r, r.fstab.staged)
  BY <1>2, <1>3, SameEntries DEF DisksOK
<1>6. SafeStep(s, r)
  BY <1>2, SameMembers DEF SafeStep, DisksOK
<1> QED BY <1>1, <1>2, <1>4, <1>a, <1>5, <1>b, <1>6 DEF Fine, DisksOK

LEMMA CommitFine ==
  ASSUME NEW s, DisksOK(s)
  PROVE  LET r == CommitFstab(s)
         IN  /\ Fine(s, r) /\ r.fstab.staged = r.fstab.file /\ r.fstab.file = s.fstab.staged
             /\ r.mounts = s.mounts /\ r.parts = s.parts /\ r.fs = s.fs
<1> DEFINE fstab == [file |-> s.fstab.staged, staged |-> s.fstab.staged]
           r == CommitFstab(s)
<1>1. r = [s EXCEPT !.fstab = fstab]
  BY DEF CommitFstab, DisksOK, Storage
<1>2. fstab \in [file : SUBSET Entry, staged : SUBSET Entry]
  BY DEF DisksOK, Storage
<1>3. EntriesOK(s, fstab.file) /\ EntriesOK(s, fstab.staged)
  BY DEF DisksOK
<1>4. fstab.staged = fstab.file /\ fstab.file = s.fstab.staged
  OBVIOUS
<1> HIDE DEF fstab, r
<1>5. Fine(s, r) /\ r.fstab = fstab /\ r.mounts = s.mounts /\ r.parts = s.parts /\ r.fs = s.fs
  BY <1>1, <1>2, <1>3, FstabChange
<1> QED BY <1>4, <1>5 DEF r

LEMMA CommitAndMountFine ==
  ASSUME NEW s, DisksOK(s)
  PROVE  LET r == CommitFstabAndBlockMount(s)
         IN  Fine(s, r) /\ r.fstab.staged = r.fstab.file
<1> DEFINE q == CommitFstab(s)
           entries == {e \in s.fstab.staged : e.point # Overlay}
           r == CommitFstabAndBlockMount(s)
<1>1. /\ Fine(s, q) /\ q.fstab.staged = q.fstab.file /\ q.fstab.file = s.fstab.staged
      /\ q.mounts = s.mounts /\ q.parts = s.parts /\ q.fs = s.fs
  BY CommitFine
<1>2. r = BlockMount(q, entries)
  BY DEF CommitFstabAndBlockMount
<1>3. entries \in SUBSET Entry
  BY DEF DisksOK, Storage
<1>4. EntriesOK(q, entries)
  <2>1. EntriesOK(q, q.fstab.file)
    BY <1>1 DEF Fine, DisksOK
  <2> QED BY <2>1, <1>1 DEF EntriesOK
<1>5. \A e \in entries : e.point # Overlay
  OBVIOUS
<1>6. q.run = s.run /\ q.super = s.super
  BY DEF CommitFstab, DisksOK, Storage
<1> HIDE DEF q, entries, r
<1>7. Fine(q, r)
  BY <1>1, <1>2, <1>3, <1>4, <1>5, BlockMountFine DEF Fine
<1>8. r.fstab = q.fstab /\ r.fs = q.fs /\ r.run = q.run /\ r.super = q.super
  BY <1>1, <1>2 DEF BlockMount, Fine, DisksOK, Storage
<1>9. SafeStep(s, r)
  <2>1. {e \in r.mounts : e.point = Overlay} = {e \in s.mounts : e.point = Overlay}
    BY <1>1, <1>7 DEF Fine, SafeStep
  <2>2. ArraysOK(s)
    BY DEF DisksOK
  <2> QED BY <2>1, <2>2, <1>1, <1>6, <1>8, SameMembers DEF SafeStep
<1> QED BY <1>1, <1>7, <1>8, <1>9 DEF Fine, r

LEMMA MountOrCommitFine ==
  ASSUME NEW s, DisksOK(s), NEW dev \in Dev, NEW p \in Points \ {Overlay}
  PROVE  LET o == MountOrCommit(s, dev, p)
         IN  /\ Fine(s, o.s)
             /\ ~o.ok => o.s.fstab.staged = o.s.fstab.file
<1>1. CASE Mount(s, dev, p).ok
  BY <1>1, MountFine DEF MountOrCommit
<1>2. CASE ~Mount(s, dev, p).ok
  BY <1>2, CommitFine DEF MountOrCommit, Fail
<1> QED BY <1>1, <1>2

LEMMA AddFstabFine ==
  ASSUME NEW s, DisksOK(s), NEW dev \in Dev, NEW p \in Points, dev # SysDev,
         s.fstab.staged = s.fstab.file,
         p = Overlay => There(s, dev) /\ \A e \in s.fstab.staged : e.point # Overlay
  PROVE  LET o == AddFstab(s, dev, p)
         IN  Fine(s, o.s) /\ o.s = [s EXCEPT !.fstab = o.s.fstab] /\ (~o.ok => o.s = s)
<1> DEFINE r == AddFstab(s, dev, p).s
           staged == (s.fstab.staged \ loadFstabMounts(s, dev)) \union {[dev |-> dev, point |-> p]}
           fstab == [file |-> s.fstab.file, staged |-> staged]
<1>1. CASE s.fs[dev] = "none"
  <2>1. r = s /\ ~AddFstab(s, dev, p).ok
    BY <1>1 DEF AddFstab, Fail
  <2>2. s = [s EXCEPT !.fstab = s.fstab]
    BY DEF DisksOK, Storage
  <2> QED BY <2>1, <2>2 DEF Fine, SafeStep, DisksOK, ArraysOK
<1>2. CASE s.fs[dev] # "none"
  <2>a. r = [s EXCEPT !.fstab.staged = staged] /\ AddFstab(s, dev, p).ok
    BY <1>2 DEF AddFstab, Done
  <2>b. s.fstab = [file |-> s.fstab.file, staged |-> s.fstab.staged]
    BY DEF DisksOK, Storage
  <2>1. r = [s EXCEPT !.fstab = fstab] /\ AddFstab(s, dev, p).ok
    <3> HIDE DEF staged, r
    <3>1. [s.fstab EXCEPT !.staged = staged] = fstab
      BY <2>b
    <3> HIDE DEF fstab
    <3> QED BY <2>a, <3>1
  <2>2. fstab \in [file : SUBSET Entry, staged : SUBSET Entry]
    BY DEF DisksOK, Storage, Entry
  <2>3. EntriesOK(s, fstab.file)
    BY DEF DisksOK
  <2>4. EntriesOK(s, staged)
    BY <2>3 DEF EntriesOK, loadFstabMounts, There
  <2>5. EntriesOK(s, fstab.staged)
    BY <2>4
  <2> HIDE DEF fstab, r
  <2>6. Fine(s, r) /\ r.fstab = fstab
    BY <2>1, <2>2, <2>3, <2>5, FstabChange
  <2> QED BY <2>1, <2>6 DEF r
<1> QED BY <1>1, <1>2

LEMMA ClearOverlayFine ==
  ASSUME NEW s, DisksOK(s), s.fstab.staged = s.fstab.file
  PROVE  LET r == ClearOverlayMounts(s)
         IN  /\ Fine(s, r) /\ r.fstab.staged = r.fstab.file /\ r.parts = s.parts
             /\ \A e \in r.fstab.staged : e.point # Overlay
<1> DEFINE r == ClearOverlayMounts(s)
           old == {e \in s.fstab.file : e.point = Overlay}
           left == s.fstab.staged \ old
           fstab == [file |-> left, staged |-> left]
<1>1. CASE old = {}
  <2>1. r = s
    BY <1>1 DEF ClearOverlayMounts
  <2> QED BY <2>1, <1>1 DEF Fine, SafeStep, DisksOK, ArraysOK
<1>2. CASE old # {}
  <2>1. r = [s EXCEPT !.fstab = fstab]
    BY <1>2 DEF ClearOverlayMounts
  <2>2. fstab \in [file : SUBSET Entry, staged : SUBSET Entry]
    BY DEF DisksOK, Storage
  <2>3. EntriesOK(s, left)
    BY DEF DisksOK, EntriesOK
  <2>4. fstab.file = left /\ fstab.staged = left /\ \A e \in left : e.point # Overlay
    OBVIOUS
  <2> HIDE DEF fstab, r, left
  <2>6. Fine(s, r) /\ r.fstab = fstab /\ r.parts = s.parts
    BY <2>1, <2>2, <2>3, <2>4, FstabChange
  <2> QED BY <2>4, <2>6 DEF r
<1> QED BY <1>1, <1>2

\* The callers of UnMount know that the device is not the overlay.
LEMMA UnMountFine ==
  ASSUME NEW s, DisksOK(s), NEW dev, ~\E e \in s.mounts : e.dev = dev /\ e.point = Overlay
  PROVE  LET r == UnMount(s, dev)
         IN  /\ Fine(s, r) /\ r.fstab = s.fstab /\ r.parts = s.parts /\ r.fs = s.fs
             /\ \A e \in r.mounts : e \in s.mounts
<1>1. CASE ~Mounted(s, dev)
  BY <1>1 DEF UnMount, Fine, SafeStep, DisksOK, ArraysOK
<1>2. CASE Mounted(s, dev)
  <2>1. PICK e \in s.mounts : e.dev = dev /\ MountPointOf(s, dev) = e.point
    BY <1>2 DEF Mounted, MountPointOf
  <2> DEFINE r == UmountPoint(s, e.point).s
  <2>2. UnMount(s, dev) = r
    BY <1>2, <2>1 DEF UnMount
  <2>3. Fine(s, r) /\ r = [s EXCEPT !.mounts = r.mounts] /\ \A f \in r.mounts : f \in s.mounts
    BY <2>1, UmountFine
  <2> HIDE DEF r
  <2>4. r.fstab = s.fstab /\ r.parts = s.parts /\ r.fs = s.fs
    BY <2>3 DEF DisksOK, Storage
  <2> QED BY <2>2, <2>3, <2>4
<1> QED BY <1>1, <1>2

\* A disk that nothing uses may be wiped.
Unused(s, d) ==
  /\ \A e \in s.mounts : ~(e.dev \in Parts /\ e.dev[1] = d)
  /\ ~is_raid_member(s, d)

LEMMA DevParts ==
  /\ \A dev \in Dev : dev \in Parts \/ dev[1] = "array"
  /\ \A d \in Disks : d # "array" /\ <<d, 1>> \in Parts /\ <<d, 2>> \in Parts
  /\ \A dev \in Parts : dev[1] \in Disks /\ dev[2] \in {1, 2} /\ dev = <<dev[1], dev[2]>>
  /\ \A dev \in Arrays : dev \notin Parts
  /\ SysDev \in Parts /\ Parts \subseteq Dev
BY BlockDevAssumption DEF Dev, Parts, Arrays, SysDev

LEMMA DdFields ==
  ASSUME NEW s, s \in Storage, NEW d \in Disks, NEW r, r = Dd(s, d)
  PROVE  /\ r \in Storage
         /\ r.mounts = s.mounts /\ r.run = s.run /\ r.node = s.node /\ r.made = s.made /\ r.fstab = s.fstab
         /\ r.parts = [s.parts EXCEPT ![d] = 0]
         /\ r.super = [s.super EXCEPT ![d] = 0]
         /\ r.fs = [dev \in Dev |-> IF dev[1] = d THEN "none" ELSE s.fs[dev]]
<1> DEFINE fs == [dev \in Dev |-> IF dev[1] = d THEN "none" ELSE s.fs[dev]]
<1>1. fs \in [Dev -> {"none", "ext4"}] /\ s.parts \in [Disks -> 0 .. 2] /\ s.super \in [Disks -> 0 .. MaxArrays]
  BY DEF Storage
<1>2. r = [s EXCEPT !.parts = [s.parts EXCEPT ![d] = 0], !.room = @ \ {d}, !.super = [s.super EXCEPT ![d] = 0],
                    !.gone = @ \ {d}, !.fs = fs]
  BY DEF Dd, Storage
<1> HIDE DEF fs
<1>3. [s.parts EXCEPT ![d] = 0] \in [Disks -> 0 .. 2] /\ [s.super EXCEPT ![d] = 0] \in [Disks -> 0 .. MaxArrays]
  BY <1>1, BlockDevAssumption
<1>4. r \in Storage
  <2> DEFINE parts == [s.parts EXCEPT ![d] = 0]
             super == [s.super EXCEPT ![d] = 0]
  <2>1. r = [s EXCEPT !.parts = parts, !.room = @ \ {d}, !.super = super, !.gone = @ \ {d}, !.fs = fs]
    BY <1>2
  <2>2. parts \in [Disks -> 0 .. 2] /\ super \in [Disks -> 0 .. MaxArrays]
    BY <1>3
  <2> HIDE DEF parts, super
  <2>3. s.room \ {d} \in SUBSET Disks /\ s.gone \ {d} \in SUBSET Disks
    BY DEF Storage
  <2> QED BY <1>1, <2>1, <2>2, <2>3, ZenonT(60) DEF Storage
<1>5. /\ r.mounts = s.mounts /\ r.run = s.run /\ r.node = s.node /\ r.made = s.made /\ r.fstab = s.fstab
      /\ r.parts = [s.parts EXCEPT ![d] = 0] /\ r.super = [s.super EXCEPT ![d] = 0] /\ r.fs = fs
  BY <1>2 DEF Storage
<1> QED BY <1>4, <1>5 DEF fs

LEMMA DdFine ==
  ASSUME NEW s, DisksOK(s), NEW d \in Disks, Unused(s, d), NEW r \in Storage,
         r.mounts = s.mounts, r.run = s.run, r.node = s.node, r.made = s.made, r.fstab = s.fstab,
         r.parts = [s.parts EXCEPT ![d] = 0],
         r.super = [s.super EXCEPT ![d] = 0],
         r.fs = [dev \in Dev |-> IF dev[1] = d THEN "none" ELSE s.fs[dev]]
  PROVE  Fine(s, r)
<1>1. \A e \in s.mounts : e.dev \in Dev /\ e.dev[1] # d
  <2>1. \A e \in s.mounts : e.dev \in Dev
    BY DEF DisksOK, Storage, Entry
  <2> QED BY <2>1, DevParts, ZenonT(60) DEF Unused
<1>2. s.parts \in [Disks -> 0 .. 2] /\ s.super \in [Disks -> 0 .. MaxArrays] /\ s.made \in Nat
  BY BlockDevAssumption DEF DisksOK, Storage
<1>3. \A dev \in Parts : dev[1] # d => (There(r, dev) <=> There(s, dev))
  BY <1>2, DevParts DEF There
<1>4. MountsOK(r)
  BY <1>1, <1>3 DEF MountsOK, DisksOK
<1>5. \A e \in s.fstab.file \union s.fstab.staged : e.dev \in Dev
  BY DEF DisksOK, Storage, Entry
<1>6. EntriesOK(r, r.fstab.file)
  BY <1>3, <1>5 DEF EntriesOK, DisksOK
<1>7. EntriesOK(r, r.fstab.staged)
  BY <1>3, <1>5 DEF EntriesOK, DisksOK
<1>8. \A m \in Mds : d \notin s.run[m].members
  BY DEF Unused, is_raid_member
<1>9. \A m \in Mds : s.run[m].members \subseteq Disks
  BY DEF DisksOK, Storage
<1>10. \A x \in Disks : x # d => r.super[x] = s.super[x] /\ r.fs[<<x, 1>>] = s.fs[<<x, 1>>]
                                 /\ (There(r, <<x, 1>>) <=> There(s, <<x, 1>>))
  <2>1. \A x \in Disks : <<x, 1>> \in Dev /\ <<x, 1>>[1] = x
    BY DevParts
  <2> QED BY <2>1, <1>2, <1>3, DevParts, ZenonT(60)
<1>11. r.super[d] = 0
  BY <1>2
<1>12. ArraysOK(r)
  <2>1. ArraysOK(s)
    BY DEF DisksOK
  <2>2. \A m \in Mds : \A x \in s.run[m].members : r.super[x] = s.run[m].id
    BY <2>1, <1>8, <1>9, <1>10 DEF ArraysOK
  <2>3. \A x \in Disks : /\ r.super[x] <= r.made
                         /\ r.super[x] # 0 => There(r, <<x, 1>>) /\ r.fs[<<x, 1>>] = "none"
    <3> TAKE x \in Disks
    <3>1. CASE x = d
      BY <3>1, <1>11, <1>2
    <3>2. CASE x # d
      BY <3>2, <2>1, <1>10 DEF ArraysOK
    <3> QED BY <3>1, <3>2
  <2> QED BY <2>1, <2>2, <2>3 DEF ArraysOK
<1>13. SafeStep(s, r)
  BY <1>1, <1>12 DEF SafeStep, ArraysOK
<1> QED BY <1>4, <1>6, <1>7, <1>12, <1>13 DEF Fine, DisksOK

\* Erasing a disk that nothing uses succeeds, and a failure in between leaves
\* what dd left.
LEMMA EraseFine ==
  ASSUME NEW s, DisksOK(s), NEW d \in Disks, Unused(s, d)
  PROVE  /\ Fine(s, Dd(s, d)) /\ Dd(s, d).fstab = s.fstab
         /\ Erase(s, d).ok /\ Erase(s, d).more = <<>> /\ Fine(s, Erase(s, d).s)
         /\ Erase(s, d).s.fstab = s.fstab /\ Erase(s, d).s.made = s.made
         /\ Erase(s, d).s.fs = [dev \in Dev |-> IF dev[1] = d THEN "none" ELSE s.fs[dev]]
<1> DEFINE q == Dd(s, d)
           r == [q EXCEPT !.room = @ \union {d}]
<1>1. s \in Storage
  BY DEF DisksOK
<1>2. ~DiskBusy(s, d)
  <2> SUFFICES ASSUME NEW n \in 1 .. s.parts[d], Busy(s, <<d, n>>) PROVE FALSE
    BY DEF DiskBusy
  <2>1. n \in {1, 2}
    BY <1>1, PartsNumber
  <2>2. <<d, n>> \in Parts /\ <<d, n>>[1] = d
    BY <2>1, DevParts
  <2> QED BY <2>2 DEF Busy, Mounted, Unused
<1>3. Erase(s, d).ok /\ Erase(s, d).s = r /\ Erase(s, d).more = <<>>
  BY <1>2 DEF Erase, Done
<1>4. /\ q \in Storage
      /\ q.mounts = s.mounts /\ q.run = s.run /\ q.node = s.node /\ q.made = s.made /\ q.fstab = s.fstab
      /\ q.parts = [s.parts EXCEPT ![d] = 0]
      /\ q.super = [s.super EXCEPT ![d] = 0]
      /\ q.fs = [dev \in Dev |-> IF dev[1] = d THEN "none" ELSE s.fs[dev]]
  BY <1>1, DdFields
<1> HIDE DEF q
<1>5. Fine(s, q)
  BY <1>4, DdFine, SMTT(30)
<1>6. /\ r \in Storage /\ r.mounts = q.mounts /\ r.run = q.run /\ r.node = q.node /\ r.made = q.made
      /\ r.fstab = q.fstab /\ r.parts = q.parts /\ r.super = q.super /\ r.fs = q.fs
  BY <1>4 DEF Storage
<1> HIDE DEF r
<1>7. Fine(s, r)
  <2>1. r.mounts = s.mounts /\ r.run = s.run /\ r.node = s.node /\ r.made = s.made /\ r.fstab = s.fstab
    BY <1>4, <1>6
  <2>2. r.parts = [s.parts EXCEPT ![d] = 0] /\ r.super = [s.super EXCEPT ![d] = 0]
    BY <1>4, <1>6
  <2>3. r.fs = [dev \in Dev |-> IF dev[1] = d THEN "none" ELSE s.fs[dev]]
    BY <1>4, <1>6
  <2>4. r \in Storage
    BY <1>6
  <2> QED BY <2>1, <2>2, <2>3, <2>4, DdFine
<1> QED BY <1>3, <1>4, <1>5, <1>6, <1>7 DEF q

LEMMA EraseArrayFine ==
  ASSUME NEW s, DisksOK(s), NEW dev \in Dev, dev \notin Parts, ~Mounted(s, dev)
  PROVE  LET o == EraseArray(s, dev)
         IN  o.ok /\ o.more = <<>> /\ Fine(s, o.s) /\ o.s.fstab = s.fstab
<1> DEFINE r == [s EXCEPT !.fs[dev] = "none"]
<1>1. EraseArray(s, dev) = Done(r)
  BY DEF EraseArray
<1>2. /\ r \in Storage
      /\ r.fs = [s.fs EXCEPT ![dev] = "none"] /\ r.parts = s.parts /\ r.super = s.super /\ r.run = s.run
      /\ r.made = s.made /\ r.node = s.node /\ r.fstab = s.fstab /\ r.mounts = s.mounts
  BY DEF DisksOK, Storage
<1> HIDE DEF r
<1>3. \A x \in Dev : x # dev => r.fs[x] = s.fs[x]
  BY <1>2 DEF DisksOK, Storage
<1>4. \A x \in Parts : r.fs[x] = s.fs[x] /\ (There(r, x) <=> There(s, x))
  BY <1>2, <1>3, DevParts DEF There
<1>5. \A e \in s.mounts : r.fs[e.dev] = s.fs[e.dev]
  BY <1>3 DEF Mounted, DisksOK, Storage, Entry
<1>6. MountsOK(r)
  BY <1>2, <1>4, <1>5 DEF MountsOK, DisksOK
<1>7. EntriesOK(r, r.fstab.file)
  BY <1>2, <1>4 DEF EntriesOK, DisksOK
<1>8. EntriesOK(r, r.fstab.staged)
  BY <1>2, <1>4 DEF EntriesOK, DisksOK
<1>9. ArraysOK(r)
  <2>1. \A d \in Disks : r.fs[<<d, 1>>] = s.fs[<<d, 1>>] /\ (There(r, <<d, 1>>) <=> There(s, <<d, 1>>))
    BY <1>4, DevParts
  <2> QED BY <1>2, <2>1 DEF ArraysOK, DisksOK
<1>10. SafeStep(s, r)
  BY <1>2, <1>5, SameMembers DEF SafeStep, DisksOK
<1> QED BY <1>1, <1>2, <1>6, <1>7, <1>8, <1>9, <1>10 DEF Fine, DisksOK, Done

\* A partition is added behind the others.
LEMMA PartAdded ==
  ASSUME NEW s, DisksOK(s), NEW d \in Disks, s.parts[d] < 2, NEW r,
         r = [s EXCEPT !.parts[d] = s.parts[d] + 1, !.room = @ \ {d}]
  PROVE  /\ Fine(s, r) /\ r.fstab = s.fstab /\ r.fs = s.fs /\ r.mounts = s.mounts /\ r.made = s.made
         /\ r.parts[d] = s.parts[d] + 1 /\ ~Mounted(r, <<d, s.parts[d] + 1>>)
<1> DEFINE parts == [s.parts EXCEPT ![d] = s.parts[d] + 1]
<1>1. s.parts \in [Disks -> 0 .. 2] /\ s.room \ {d} \in SUBSET Disks /\ s.parts[d] \in Nat
  BY PartsNumber DEF DisksOK, Storage
<1>2. parts \in [Disks -> 0 .. 2] /\ parts[d] = s.parts[d] + 1 /\ \A x \in Disks : parts[x] >= s.parts[x]
  BY <1>1
<1>3. r = [s EXCEPT !.parts = parts, !.room = @ \ {d}]
  BY DEF DisksOK, Storage
<1> HIDE DEF parts
<1>4. r \in Storage
  BY <1>1, <1>2, <1>3 DEF DisksOK, Storage
<1>5. /\ r.fs = s.fs /\ r.parts = parts /\ r.super = s.super /\ r.run = s.run /\ r.made = s.made
      /\ r.node = s.node /\ r.fstab = s.fstab /\ r.mounts = s.mounts
  BY <1>3 DEF DisksOK, Storage
<1>6. NotFewer(s, r)
  BY <1>1, <1>2, <1>5 DEF NotFewer
<1>7. ArraysOK(r)
  BY <1>5, <1>6, SameArrays DEF DisksOK
<1>8. MountsOK(r)
  BY <1>5, <1>6, SameMounts DEF DisksOK
<1>9. EntriesOK(r, r.fstab.file)
  BY <1>5, <1>6, SameEntries DEF DisksOK
<1>10. EntriesOK(r, r.fstab.staged)
  BY <1>5, <1>6, SameEntries DEF DisksOK
<1>11. SafeStep(s, r)
  BY <1>5, SameMembers DEF SafeStep, DisksOK
<1>12. ~Mounted(r, <<d, s.parts[d] + 1>>)
  <2>1. <<d, s.parts[d] + 1>> \in Parts
    BY <1>1 DEF Parts
  <2>2. ~There(s, <<d, s.parts[d] + 1>>)
    BY <1>1 DEF There
  <2> QED BY <2>1, <2>2, <1>5 DEF Mounted, DisksOK, MountsOK
<1> QED BY <1>2, <1>4, <1>5, <1>7, <1>8, <1>9, <1>10, <1>11, <1>12 DEF Fine, DisksOK

LEMMA SameFine == ASSUME NEW s, DisksOK(s) PROVE Fine(s, s)
BY DEF Fine, SafeStep, DisksOK, ArraysOK

LEMMA MakePartFine ==
  ASSUME NEW s, DisksOK(s), NEW d \in Disks
  PROVE  LET o == MakePart(s, d)
         IN  /\ o.more = <<>> /\ Fine(s, o.s) /\ o.s.fstab = s.fstab
             /\ o.s.fs = s.fs /\ o.s.made = s.made
             /\ o.ok => o.s.parts[d] = 1 /\ ~Mounted(o.s, <<d, 1>>)
<1>1. CASE ~(d \in s.room /\ s.parts[d] = 0)
  BY <1>1, SameFine DEF MakePart, Fail
<1>2. CASE d \in s.room /\ s.parts[d] = 0
  <2> DEFINE r == [s EXCEPT !.parts[d] = 1, !.room = @ \ {d}]
  <2>1. MakePart(s, d) = Done(r)
    BY <1>2 DEF MakePart
  <2>2. r = [s EXCEPT !.parts[d] = s.parts[d] + 1, !.room = @ \ {d}] /\ s.parts[d] + 1 = 1 /\ s.parts[d] < 2
    BY <1>2
  <2> HIDE DEF r
  <2>3. /\ Fine(s, r) /\ r.fstab = s.fstab /\ r.fs = s.fs /\ r.made = s.made
        /\ r.parts[d] = s.parts[d] + 1 /\ ~Mounted(r, <<d, s.parts[d] + 1>>)
    BY <2>2, PartAdded, ZenonT(60)
  <2>4. r.parts[d] = 1 /\ ~Mounted(r, <<d, 1>>)
    BY <2>2, <2>3
  <2> QED BY <2>1, <2>3, <2>4 DEF Done
<1> QED BY <1>1, <1>2

\* The file system that is found in a new partition is not an overlay's.
LEMMA MakePartRangeFine ==
  ASSUME NEW s, DisksOK(s), NEW d \in Disks, NEW start \in Int, NEW end \in Int
  PROVE  LET o == MakePartRange(s, d, start, end)
             dev == <<d, o.s.parts[d]>>
         IN  /\ o.more = <<>> /\ Fine(s, o.s) /\ o.s.fstab = s.fstab
             /\ o.ok => /\ ~Mounted(o.s, dev)
                        /\ o.s.fs[dev] = "ext4" => \A e \in o.s.fstab.file : e.dev = dev => e.point # Overlay
<1>1. CASE ~(d \in s.room /\ s.parts[d] < 2 /\ start <= end)
  BY <1>1, SameFine DEF MakePartRange, Fail
<1>2. CASE d \in s.room /\ s.parts[d] < 2 /\ start <= end
  <2> DEFINE r == [s EXCEPT !.parts[d] = s.parts[d] + 1, !.room = @ \ {d}]
             dev == <<d, s.parts[d] + 1>>
  <2>1. MakePartRange(s, d, start, end) = Done(r)
    BY <1>2 DEF MakePartRange
  <2> HIDE DEF r
  <2>2. /\ Fine(s, r) /\ r.fstab = s.fstab /\ r.fs = s.fs
        /\ r.parts[d] = s.parts[d] + 1 /\ ~Mounted(r, <<d, s.parts[d] + 1>>)
    BY <1>2, PartAdded, ZenonT(60) DEF r
  <2>3. ~There(s, dev)
    BY PartsNumber DEF There, DisksOK
  <2>4. s.fs[dev] = "ext4" => \A e \in s.fstab.file : e.dev = dev => e.point # Overlay
    BY <2>3 DEF DisksOK, EntriesOK
  <2> QED BY <2>1, <2>2, <2>4 DEF Done
<1> QED BY <1>1, <1>2

LEMMA MkfsFine ==
  ASSUME NEW s, DisksOK(s), NEW dev \in Dev
  PROVE  LET o == Ext4Partition(s, dev)
         IN  /\ o.more = <<>> /\ Fine(s, o.s) /\ o.s.parts = s.parts
             /\ s.fstab.staged = s.fstab.file => o.s.fstab.staged = o.s.fstab.file
<1>1. CASE ~(Exists(s, dev) /\ ~Busy(s, dev))
  BY <1>1, SameFine DEF Ext4Partition, Fail
<1>2. CASE Exists(s, dev) /\ ~Busy(s, dev)
  <2> DEFINE super == [d \in Disks |-> IF dev = <<d, 1>> THEN 0 ELSE s.super[d]]
             fs == [s.fs EXCEPT ![dev] = "ext4"]
             gone == {d \in s.gone : dev # <<d, 1>>}
             fstab == [file |-> Forget(s.fstab.file, dev), staged |-> Forget(s.fstab.staged, dev)]
             r == [s EXCEPT !.fs = fs, !.super = super, !.gone = gone, !.fstab = fstab]
  <2>1. Ext4Partition(s, dev) = Done(r)
    BY <1>2 DEF Ext4Partition, DisksOK, Storage
  <2>2. fs \in [Dev -> {"none", "ext4"}] /\ super \in [Disks -> 0 .. MaxArrays] /\ gone \in SUBSET Disks
    BY BlockDevAssumption DEF DisksOK, Storage
  <2>3. fstab \in [file : SUBSET Entry, staged : SUBSET Entry]
    BY DEF DisksOK, Storage, Forget
  <2>4. \A x \in Dev : fs[x] = IF x = dev THEN "ext4" ELSE s.fs[x]
    BY DEF DisksOK, Storage
  <2>5. \A d \in Disks : super[d] = IF dev = <<d, 1>> THEN 0 ELSE s.super[d]
    OBVIOUS
  <2>6. /\ \A e \in fstab.file : e \in s.fstab.file /\ e.dev # dev
        /\ \A e \in fstab.staged : e \in s.fstab.staged /\ e.dev # dev
        /\ s.fstab.staged = s.fstab.file => fstab.staged = fstab.file
    BY DEF Forget
  <2> HIDE DEF fs, super, gone, fstab
  <2>7. r \in Storage
    BY <2>2, <2>3 DEF DisksOK, Storage
  <2>8. /\ r.fs = fs /\ r.parts = s.parts /\ r.super = super /\ r.run = s.run /\ r.made = s.made
        /\ r.node = s.node /\ r.fstab = fstab /\ r.mounts = s.mounts
    BY DEF DisksOK, Storage
  <2> HIDE DEF r
  <2>9. \A x : There(r, x) <=> There(s, x)
    BY <2>8 DEF There
  <2>10. \A e \in s.mounts : e.dev \in Dev /\ e.dev # dev
    BY <1>2 DEF Busy, Mounted, DisksOK, Storage, Entry
  <2>11. MountsOK(r)
    BY <2>4, <2>8, <2>9, <2>10 DEF MountsOK, DisksOK
  <2>12. \A e \in s.fstab.file \union s.fstab.staged : e.dev \in Dev
    BY DEF DisksOK, Storage, Entry
  <2>13. EntriesOK(r, fstab.file)
    BY <2>4, <2>6, <2>8, <2>9, <2>12 DEF EntriesOK, DisksOK
  <2>14. EntriesOK(r, fstab.staged)
    BY <2>4, <2>6, <2>8, <2>9, <2>12 DEF EntriesOK, DisksOK
  <2>15. \A m \in Mds : \A d \in s.run[m].members : d \in Disks /\ dev # <<d, 1>>
    <3>1. \A m \in Mds : s.run[m].members \subseteq Disks
      BY DEF DisksOK, Storage
    <3>2. \A d \in Disks : dev = <<d, 1>> => dev \in Parts /\ dev[2] = 1 /\ dev[1] = d
      BY DevParts
    <3> QED BY <3>1, <3>2, <1>2 DEF Busy, is_raid_member
  <2>16. \A m \in Mds : \A d \in s.run[m].members : super[d] = s.super[d]
    BY <2>5, <2>15
  <2>17. \A d \in Disks : /\ super[d] <= s.made
                          /\ super[d] # 0 => There(r, <<d, 1>>) /\ fs[<<d, 1>>] = "none"
    <3> TAKE d \in Disks
    <3>1. <<d, 1>> \in Dev
      BY DevParts
    <3>2. s.made \in Nat
      BY BlockDevAssumption DEF DisksOK, Storage
    <3> QED BY <3>1, <3>2, <2>4, <2>5, <2>9 DEF DisksOK, ArraysOK
  <2>18. ArraysOK(r)
    BY <2>8, <2>16, <2>17 DEF ArraysOK, DisksOK
  <2>19. SafeStep(s, r)
    BY <2>4, <2>8, <2>10, <2>16 DEF SafeStep, DisksOK, ArraysOK
  <2> QED BY <2>1, <2>6, <2>7, <2>8, <2>11, <2>13, <2>14, <2>18, <2>19 DEF Fine, DisksOK, Done
<1> QED BY <1>1, <1>2

-----------------------------------------------------------------------------
(* Commands on arrays                                                      *)

\* What they leave alone.
SameData(s, r) == r.parts = s.parts /\ r.fs = s.fs /\ r.mounts = s.mounts /\ r.fstab = s.fstab

MembersKeep(s, r) ==
  \A m \in Mds : \A d \in s.run[m].members :
    r.run[m].id = s.run[m].id /\ d \in r.run[m].members => r.super[d] = s.run[m].id

LEMMA RaidChange ==
  ASSUME NEW s, DisksOK(s), NEW r \in Storage, SameData(s, r), ArraysOK(r), MembersKeep(s, r)
  PROVE  Fine(s, r)
<1>1. NotFewer(s, r)
  BY PartsNumber DEF SameData, NotFewer, DisksOK
<1>2. MountsOK(r)
  BY <1>1, SameMounts DEF SameData, DisksOK
<1>3. EntriesOK(r, r.fstab.file)
  BY <1>1, SameEntries DEF SameData, DisksOK
<1>4. EntriesOK(r, r.fstab.staged)
  BY <1>1, SameEntries DEF SameData, DisksOK
<1> QED BY <1>2, <1>3, <1>4 DEF Fine, DisksOK, SafeStep, SameData, MembersKeep

\* The node of an array that does not run may go.
LEMMA NodeGone ==
  ASSUME NEW s, DisksOK(s), NEW m \in Mds, s.run[m].id = 0, NEW r, r = [s EXCEPT !.node = @ \ {m}]
  PROVE  Fine(s, r) /\ SameData(s, r) /\ r.run = s.run
<1>1. r \in Storage
  BY DEF DisksOK, Storage
<1>2. /\ r.run = s.run /\ r.super = s.super /\ r.made = s.made /\ r.node = s.node \ {m} /\ SameData(s, r)
  BY DEF DisksOK, Storage, SameData
<1>3. ArraysOK(r)
  BY <1>2 DEF ArraysOK, DisksOK, There, SameData
<1>4. MembersKeep(s, r)
  BY <1>2, SameMembers DEF MembersKeep, DisksOK
<1> QED BY <1>1, <1>2, <1>3, <1>4, RaidChange

\* An array that is stopped, and superblocks that no other array needs.
LEMMA StopFine ==
  ASSUME NEW s, DisksOK(s), NEW m \in Mds, NEW zeroed \in SUBSET Disks,
         \A n \in Mds \ {m} : \A d \in zeroed : d \notin s.run[n].members
  PROVE  LET r == Stop(s, m, zeroed)
         IN  Fine(s, r) /\ SameData(s, r) /\ r.run[m].id = 0 /\ \A n \in Mds : s.run[n].id = 0 => r.run[n].id = 0
<1> DEFINE run == [s.run EXCEPT ![m] = NoArray]
           super == [d \in Disks |-> IF d \in zeroed THEN 0 ELSE s.super[d]]
           r == [s EXCEPT !.run = run, !.super = super]
<1>1. Stop(s, m, zeroed) = r
  BY DEF Stop, DisksOK, Storage
<1>2. run \in [Mds -> [id : 0 .. MaxArrays, members : SUBSET Disks]] /\ super \in [Disks -> 0 .. MaxArrays]
  BY BlockDevAssumption DEF DisksOK, Storage, NoArray
<1>3. run[m].id = 0 /\ run[m].members = {} /\ \A n \in Mds : n # m => run[n] = s.run[n]
  BY DEF DisksOK, Storage, NoArray
<1>4. \A d \in Disks : super[d] = IF d \in zeroed THEN 0 ELSE s.super[d]
  OBVIOUS
<1> HIDE DEF run, super
<1>5. r \in Storage
  BY <1>2 DEF DisksOK, Storage
<1>6. r.run = run /\ r.super = super /\ r.made = s.made /\ r.node = s.node /\ SameData(s, r)
  BY DEF DisksOK, Storage, SameData
<1> HIDE DEF r
<1>7. s.made \in Nat /\ \A n \in Mds : s.run[n].members \subseteq Disks
  BY BlockDevAssumption DEF DisksOK, Storage
<1>8. \A n \in Mds : \A d \in run[n].members : super[d] = run[n].id
  BY <1>3, <1>4, <1>7 DEF DisksOK, ArraysOK
<1>9. \A d \in Disks : /\ super[d] <= s.made
                       /\ super[d] # 0 => There(s, <<d, 1>>) /\ s.fs[<<d, 1>>] = "none"
  <2> TAKE d \in Disks
  <2>1. CASE d \in zeroed
    BY <2>1, <1>4, <1>7
  <2>2. CASE d \notin zeroed
    BY <2>2, <1>4 DEF DisksOK, ArraysOK
  <2> QED BY <2>1, <2>2
<1>10. \A x : There(r, x) <=> There(s, x)
  BY <1>6 DEF There, SameData
<1>11. ArraysOK(r)
  BY <1>3, <1>6, <1>7, <1>8, <1>9, <1>10 DEF ArraysOK, DisksOK, SameData
<1>12. MembersKeep(s, r)
  BY <1>3, <1>6, <1>8 DEF MembersKeep, DisksOK, ArraysOK
<1> QED BY <1>1, <1>3, <1>5, <1>6, <1>11, <1>12, RaidChange

\* A disk that is written to by mdadm is no member, and not mounted.
LEMMA NotBusy ==
  ASSUME NEW s, DisksOK(s), NEW d \in Disks, s.parts[d] = 1, ~DiskBusy(s, d)
  PROVE  ~is_raid_member(s, d) /\ There(s, <<d, 1>>) /\ ~Mounted(s, <<d, 1>>)
<1>1. <<d, 1>> \in Parts /\ <<d, 1>>[1] = d /\ <<d, 1>>[2] = 1
  BY DevParts
<1>2. ~Busy(s, <<d, 1>>)
  BY DEF DiskBusy
<1> QED BY <1>1, <1>2 DEF Busy, There

LEMMA CreateFine ==
  ASSUME NEW s, DisksOK(s), NEW m \in Mds, NEW members \in Seq(Disks), members # <<>>,
         s.made < MaxArrays, m \notin s.node,
         \A k \in 1 .. Len(members) : s.fs[<<members[k], 1>>] = "none"
  PROVE  /\ Fine(s, RunCreate(s, m, members).s) /\ SameData(s, RunCreate(s, m, members).s)
         /\ RunCreate(s, m, members).more = <<>>
         /\ Fine(s, CleanupCreatedDevice(s, m).s) /\ SameData(s, CleanupCreatedDevice(s, m).s)
<1> DEFINE id == s.made + 1
           disks == {members[i] : i \in 1 .. Len(members)}
           run == [s.run EXCEPT ![m] = [id |-> id, members |-> disks]]
           super == [d \in Disks |-> IF d \in disks THEN id ELSE s.super[d]]
           node == s.node \union {m}
           r == [s EXCEPT !.made = id, !.node = node, !.run = run, !.super = super]
           bad == s.run[m].id # 0 \/ ~IsInjective(members) \/ \E d \in disks : s.parts[d] # 1 \/ DiskBusy(s, d)
<1>1. s.run[m].id = 0
  BY DEF DisksOK, ArraysOK
<1>2. Fine(s, CleanupCreatedDevice(s, m).s) /\ SameData(s, CleanupCreatedDevice(s, m).s) /\ CleanupCreatedDevice(s, m).more = <<>>
  BY <1>1, NodeGone DEF CleanupCreatedDevice, Fail
<1>3. CASE bad
  <2>1. RunCreate(s, m, members) = CleanupCreatedDevice(s, m)
    BY <1>3 DEF RunCreate
  <2> QED BY <2>1, <1>2
<1>4. CASE ~bad
  <2>1. RunCreate(s, m, members) = Done(r)
    BY <1>4 DEF RunCreate, DisksOK, Storage
  <2>2. disks \subseteq Disks /\ disks # {} /\ \A d \in disks : s.fs[<<d, 1>>] = "none"
    <3>1. Len(members) \in Nat /\ Len(members) # 0 /\ \A i \in 1 .. Len(members) : members[i] \in Disks
      BY EmptySeq, ElementOfSeq
    <3>2. 1 \in 1 .. Len(members)
      BY <3>1
    <3> QED BY <3>1, <3>2
  <2>3. \A d \in disks : ~is_raid_member(s, d) /\ There(s, <<d, 1>>)
    BY <1>4, <2>2, NotBusy
  <2>4. id \in 0 .. MaxArrays /\ s.made \in Nat /\ id # 0
    BY BlockDevAssumption DEF DisksOK, Storage
  <2>5. run \in [Mds -> [id : 0 .. MaxArrays, members : SUBSET Disks]] /\ super \in [Disks -> 0 .. MaxArrays]
        /\ node \in SUBSET Mds
    BY <2>2, <2>4 DEF DisksOK, Storage
  <2>6. run[m].id = id /\ run[m].members = disks /\ \A n \in Mds : n # m => run[n] = s.run[n]
    BY DEF DisksOK, Storage
  <2>7. \A d \in Disks : super[d] = IF d \in disks THEN id ELSE s.super[d]
    OBVIOUS
  <2>8. \A n \in Mds : s.run[n].members \subseteq Disks /\ s.run[n].id \in Nat
    BY BlockDevAssumption DEF DisksOK, Storage
  <2>9. \A n \in Mds : \A d \in s.run[n].members : d \notin disks
    BY <2>3 DEF is_raid_member
  <2>w. s.super \in [Disks -> Nat]
    BY BlockDevAssumption DEF DisksOK, Storage
  <2> HIDE DEF run, super, id, disks, bad
  <2>10. r \in Storage
    BY <2>4, <2>5 DEF DisksOK, Storage
  <2>11. r.run = run /\ r.super = super /\ r.made = id /\ r.node = node /\ SameData(s, r)
    BY DEF DisksOK, Storage, SameData
  <2> HIDE DEF r
  <2>12. \A n \in Mds : \A d \in run[n].members : super[d] = run[n].id
    BY <2>2, <2>6, <2>7, <2>8, <2>9 DEF DisksOK, ArraysOK
  <2>13. \A x : There(r, x) <=> There(s, x)
    BY <2>11 DEF There, SameData
  <2>14. \A d \in Disks : /\ super[d] <= id
                          /\ super[d] # 0 => There(r, <<d, 1>>) /\ r.fs[<<d, 1>>] = "none"
    <3> TAKE d \in Disks
    <3>1. CASE d \in disks
      BY <3>1, <2>2, <2>3, <2>4, <2>7, <2>11, <2>13 DEF SameData
    <3>2. CASE d \notin disks
      <4>1. super[d] = s.super[d] /\ s.super[d] \in Nat
        BY <3>2, <2>7, <2>w
      <4>2. s.super[d] <= s.made /\ (s.super[d] # 0 => There(s, <<d, 1>>) /\ s.fs[<<d, 1>>] = "none")
        BY DEF DisksOK, ArraysOK
      <4> QED BY <4>1, <4>2, <2>4, <2>11, <2>13 DEF SameData, id
    <3> QED BY <3>1, <3>2
  <2>15. \A n \in Mds : run[n].id = 0 <=> run[n].members = {}
    BY <2>2, <2>4, <2>6 DEF DisksOK, ArraysOK
  <2>16. \A n \in Mds : s.run[n].id <= s.made
    BY DEF DisksOK, ArraysOK
  <2>17. \A n \in Mds : run[n].id <= id /\ (n # m => run[n].id < id)
    BY <2>4, <2>6, <2>8, <2>16 DEF id
  <2>18. \A n, k \in Mds : run[n].id = run[k].id => n = k \/ run[n].id = 0
    <3> TAKE n, k \in Mds
    <3>1. CASE n = m \/ k = m
      BY <3>1, <2>4, <2>6, <2>8, <2>17
    <3>2. CASE n # m /\ k # m
      BY <3>2, <2>6 DEF DisksOK, ArraysOK
    <3> QED BY <3>1, <3>2
  <2>19. \A n \in Mds : run[n].id # 0 => n \in node
    BY <2>6 DEF DisksOK, ArraysOK
  <2>20. ArraysOK(r)
    BY <2>11, <2>12, <2>14, <2>15, <2>17, <2>18, <2>19 DEF ArraysOK
  <2>21. MembersKeep(s, r)
    BY <2>7, <2>8, <2>9, <2>11 DEF MembersKeep, DisksOK, ArraysOK
  <2> QED BY <2>1, <2>10, <2>11, <2>20, <2>21, <1>2, RaidChange DEF Done
<1> QED BY <1>3, <1>4

LEMMA AddFine ==
  ASSUME NEW s, DisksOK(s), NEW m \in Mds, NEW d \in Disks, s.fs[<<d, 1>>] = "none"
  PROVE  LET o == RunAdd(s, m, d)
         IN  o.more = <<>> /\ Fine(s, o.s) /\ SameData(s, o.s)
<1> DEFINE bad == s.run[m].id = 0 \/ s.parts[d] # 1 \/ DiskBusy(s, d)
           run == [s.run EXCEPT ![m] = [id |-> s.run[m].id, members |-> s.run[m].members \union {d}]]
           super == [s.super EXCEPT ![d] = s.run[m].id]
           gone == s.gone \ {d}
           r == [s EXCEPT !.run = run, !.super = super, !.gone = gone]
<1>1. CASE bad
  BY <1>1, SameFine DEF RunAdd, Fail, SameData
<1>2. CASE ~bad
  <2>a. s.run \in [Mds -> [id : 0 .. MaxArrays, members : SUBSET Disks]] /\ s.super \in [Disks -> 0 .. MaxArrays]
        /\ s.gone \in SUBSET Disks
    BY DEF DisksOK, Storage
  <2>b. [s.run EXCEPT ![m].members = @ \union {d}] = run
    <3>1. s.run[m] = [id |-> s.run[m].id, members |-> s.run[m].members]
      BY <2>a
    <3>2. [s.run[m] EXCEPT !.members = @ \union {d}] = [id |-> s.run[m].id, members |-> s.run[m].members \union {d}]
      BY <3>1
    <3> QED BY <3>2
  <2>1. RunAdd(s, m, d) = Done(r)
    <3>1. RunAdd(s, m, d) = Done([s EXCEPT !.run = [s.run EXCEPT ![m].members = @ \union {d}], !.super = super, !.gone = gone])
      BY <1>2 DEF RunAdd, DisksOK, Storage
    <3> QED BY <3>1, <2>b
  <2>2. ~is_raid_member(s, d) /\ There(s, <<d, 1>>) /\ s.run[m].id # 0
    BY <1>2, NotBusy
  <2>3. run \in [Mds -> [id : 0 .. MaxArrays, members : SUBSET Disks]] /\ super \in [Disks -> 0 .. MaxArrays]
        /\ gone \in SUBSET Disks
    BY <2>a
  <2>4. run[m].id = s.run[m].id /\ run[m].members = s.run[m].members \union {d} /\ \A n \in Mds : n # m => run[n] = s.run[n]
    BY <2>a
  <2>5. \A x \in Disks : super[x] = IF x = d THEN s.run[m].id ELSE s.super[x]
    BY <2>a
  <2>6. \A n \in Mds : s.run[n].members \subseteq Disks /\ d \notin s.run[n].members
    BY <2>a, <2>2 DEF is_raid_member
  <2> HIDE DEF run, super, gone, bad
  <2>7. r \in Storage
    BY <2>3 DEF DisksOK, Storage
  <2>8. r.run = run /\ r.super = super /\ r.made = s.made /\ r.node = s.node /\ SameData(s, r)
    BY DEF DisksOK, Storage, SameData
  <2> HIDE DEF r
  <2>9. \A n \in Mds : \A x \in run[n].members : super[x] = run[n].id
    BY <2>4, <2>5, <2>6 DEF DisksOK, ArraysOK
  <2>10. \A x : There(r, x) <=> There(s, x)
    BY <2>8 DEF There, SameData
  <2>11. \A x \in Disks : /\ super[x] <= s.made
                          /\ super[x] # 0 => There(r, <<x, 1>>) /\ r.fs[<<x, 1>>] = "none"
    <3> TAKE x \in Disks
    <3>1. CASE x = d
      BY <3>1, <2>2, <2>5, <2>8, <2>10 DEF SameData, DisksOK, ArraysOK
    <3>2. CASE x # d
      BY <3>2, <2>5, <2>8, <2>10 DEF SameData, DisksOK, ArraysOK
    <3> QED BY <3>1, <3>2
  <2>12. \A n \in Mds : run[n].id = s.run[n].id /\ (run[n].members = {} <=> s.run[n].members = {})
    BY <2>2, <2>4 DEF DisksOK, ArraysOK
  <2>13. ArraysOK(r)
    BY <2>8, <2>9, <2>11, <2>12 DEF ArraysOK, DisksOK
  <2>14. MembersKeep(s, r)
    BY <2>5, <2>6, <2>8 DEF MembersKeep, DisksOK, ArraysOK
  <2> QED BY <2>1, <2>7, <2>8, <2>13, <2>14, RaidChange DEF Done
<1> QED BY <1>1, <1>2

LEMMA RemoveFine ==
  ASSUME NEW s, DisksOK(s), NEW m \in Mds, NEW d \in Disks
  PROVE  LET o == RunRemove(s, m, d)
         IN  o.more = <<>> /\ Fine(s, o.s) /\ SameData(s, o.s)
<1> DEFINE bad == d \notin s.run[m].members \/ s.run[m].members = {d}
           run == [s.run EXCEPT ![m] = [id |-> s.run[m].id, members |-> s.run[m].members \ {d}]]
           gone == s.gone \union {d}
           r == [s EXCEPT !.run = run, !.gone = gone]
<1>1. CASE bad
  BY <1>1, SameFine DEF RunRemove, Fail, SameData
<1>2. CASE ~bad
  <2>a. s.run \in [Mds -> [id : 0 .. MaxArrays, members : SUBSET Disks]] /\ s.gone \in SUBSET Disks
    BY DEF DisksOK, Storage
  <2>b. [s.run EXCEPT ![m].members = @ \ {d}] = run
    <3>1. s.run[m] = [id |-> s.run[m].id, members |-> s.run[m].members]
      BY <2>a
    <3>2. [s.run[m] EXCEPT !.members = @ \ {d}] = [id |-> s.run[m].id, members |-> s.run[m].members \ {d}]
      BY <3>1
    <3> QED BY <3>2
  <2>1. RunRemove(s, m, d) = Done(r)
    <3>1. RunRemove(s, m, d) = Done([s EXCEPT !.run = [s.run EXCEPT ![m].members = @ \ {d}], !.gone = gone])
      BY <1>2 DEF RunRemove, DisksOK, Storage
    <3> QED BY <3>1, <2>b
  <2>3. run \in [Mds -> [id : 0 .. MaxArrays, members : SUBSET Disks]] /\ gone \in SUBSET Disks
    BY <2>a
  <2>4. run[m].id = s.run[m].id /\ run[m].members = s.run[m].members \ {d} /\ \A n \in Mds : n # m => run[n] = s.run[n]
    BY <2>a
  <2>5. \A n \in Mds : run[n].id = s.run[n].id /\ run[n].members \subseteq s.run[n].members
                       /\ (run[n].members = {} <=> s.run[n].members = {})
    BY <2>4, <1>2
  <2> HIDE DEF run, gone, bad
  <2>7. r \in Storage
    BY <2>3 DEF DisksOK, Storage
  <2>8. r.run = run /\ r.super = s.super /\ r.made = s.made /\ r.node = s.node /\ SameData(s, r)
    BY DEF DisksOK, Storage, SameData
  <2> HIDE DEF r
  <2>10. \A x : There(r, x) <=> There(s, x)
    BY <2>8 DEF There, SameData
  <2>13. ArraysOK(r)
    BY <2>5, <2>8, <2>10 DEF ArraysOK, DisksOK, SameData
  <2>14. MembersKeep(s, r)
    BY <2>8 DEF MembersKeep, DisksOK, ArraysOK
  <2> QED BY <2>1, <2>7, <2>8, <2>13, <2>14, RaidChange DEF Done
<1> QED BY <1>1, <1>2

\* A change of mdadm.
ListedArray == [md : Mds, id : 0 .. MaxArrays]

LEMMA MdadmChange ==
  ASSUME NEW s, DisksOK(s), NEW mdadm \in [file : Seq(ListedArray), staged : Seq(ListedArray)],
         NEW r, r = [s EXCEPT !.mdadm = mdadm]
  PROVE  Fine(s, r) /\ SameData(s, r)
<1>1. r \in Storage
  BY DEF DisksOK, Storage, ListedArray
<1>2. r.run = s.run /\ r.super = s.super /\ r.made = s.made /\ r.node = s.node /\ SameData(s, r)
  BY DEF DisksOK, Storage, SameData
<1>3. ArraysOK(r)
  BY <1>2 DEF ArraysOK, DisksOK, There, SameData
<1>4. MembersKeep(s, r)
  BY <1>2, SameMembers DEF MembersKeep, DisksOK
<1> QED BY <1>1, <1>2, <1>3, <1>4, RaidChange

\* A set of numbers has one with k smaller ones, for every k below its size.
LEMMA Ranked ==
  ASSUME NEW S, S \subseteq Nat, IsFiniteSet(S), NEW k \in Nat, k < Cardinality(S)
  PROVE  \E m \in S : Cardinality({n \in S : n < m}) = k
<1> DEFINE Below(m) == {n \in S : n < m}
           Good == {j \in Nat : j < Cardinality(S) => \E m \in S : Cardinality(Below(m)) = j}
<1>0. \A n \in S : n \in Nat
  OBVIOUS
<1>1. Cardinality(S) \in Nat /\ \A m : IsFiniteSet(Below(m)) /\ Cardinality(Below(m)) \in Nat
  <2>1. \A m : Below(m) \subseteq S
    OBVIOUS
  <2> QED BY <2>1, FS_Subset, FS_CardinalityType
<1>2. 0 \in Good
  <2>1. CASE S = {}
    BY <2>1, FS_EmptySet
  <2>2. CASE S # {}
    <3>1. PICK m \in S : \A y \in S : m <= y
      BY <2>2, LeastNat
    <3>2. \A n \in S : ~(n < m)
      BY <3>1, <1>0
    <3>3. Below(m) = {}
      BY <3>2
    <3> QED BY <3>1, <3>3, FS_EmptySet
  <2> QED BY <2>1, <2>2
<1>3. ASSUME NEW j \in Nat, j \in Good PROVE j + 1 \in Good
  <2> SUFFICES ASSUME j + 1 < Cardinality(S) PROVE \E m \in S : Cardinality(Below(m)) = j + 1
    OBVIOUS
  <2>1. PICK m \in S : Cardinality(Below(m)) = j
    BY <1>1, <1>3
  <2> DEFINE Up == {n \in S : n > m}
             B == Below(m) \union {m}
  <2>2. IsFiniteSet(B) /\ Cardinality(B) = j + 1
    <3>1. m \notin Below(m)
      OBVIOUS
    <3>2. IsFiniteSet(Below(m))
      BY <1>1
    <3> HIDE DEF Below
    <3> QED BY <2>1, <3>1, <3>2, FS_AddElement
  <2>3. Up # {}
    <3>a. \A n \in S : n < m \/ n = m \/ n > m
      BY <1>0
    <3>1. Up = {} => S = B
      BY <3>a
    <3> QED BY <3>1, <2>2
  <2>4. PICK x \in Up : \A y \in Up : x <= y
    <3>1. Up \subseteq Nat
      OBVIOUS
    <3> HIDE DEF Up
    <3> QED BY <2>3, <3>1, LeastNat
  <2>5. x \in S /\ x > m /\ \A y \in S : y > m => x <= y
    BY <2>4
  <2>6. \A n \in S : n < x <=> n < m \/ n = m
    BY <2>5, <1>0
  <2>7. Below(x) = B
    BY <2>6
  <2> QED BY <2>2, <2>5, <2>7
<1>4. Nat \subseteq Good
  <2> HIDE DEF Good
  <2> QED BY <1>2, <1>3, NatInSet
<1> QED BY <1>4

LEMMA InOrderType ==
  ASSUME NEW S, S \subseteq Nat, IsFiniteSet(S)
  PROVE  InOrder(S) \in Seq(S) /\ Len(InOrder(S)) = Cardinality(S)
<1>1. Cardinality(S) \in Nat
  BY FS_CardinalityType
<1>2. \A i \in 1 .. Cardinality(S) : (CHOOSE m \in S : Cardinality({n \in S : n < m}) = i - 1) \in S
  <2> TAKE i \in 1 .. Cardinality(S)
  <2>1. i - 1 \in Nat /\ i - 1 < Cardinality(S)
    BY <1>1
  <2>2. \E m \in S : Cardinality({n \in S : n < m}) = i - 1
    BY <2>1, Ranked
  <2> QED BY <2>2
<1>3. InOrder(S) \in [1 .. Cardinality(S) -> S]
  BY <1>2 DEF InOrder
<1> QED BY <1>1, <1>3

LEMMA SeqWider ==
  ASSUME NEW S, NEW T, S \subseteq T, NEW q \in Seq(S)
  PROVE  q \in Seq(T)
OBVIOUS

LEMMA MdadmFine ==
  ASSUME NEW s, DisksOK(s)
  PROVE  /\ Fine(s, clearExistingArrays(s).s) /\ SameData(s, clearExistingArrays(s).s) /\ clearExistingArrays(s).more = <<>>
         /\ Fine(s, Scan(s).s) /\ SameData(s, Scan(s).s) /\ Scan(s).more = <<>> /\ Scan(s).ok
         /\ Fine(s, AutoFixArrays(s).s) /\ SameData(s, AutoFixArrays(s).s) /\ AutoFixArrays(s).more = <<>>
         /\ Fine(s, CommitMdadm(s).s) /\ SameData(s, CommitMdadm(s).s) /\ CommitMdadm(s).more = <<>>
<1> DEFINE file == s.mdadm.file
           staged == s.mdadm.staged
           With(f, l) == [s EXCEPT !.mdadm = [file |-> f, staged |-> l]]
<1>1. file \in Seq(ListedArray) /\ staged \in Seq(ListedArray) /\ s.mdadm = [file |-> file, staged |-> staged]
  BY DEF DisksOK, Storage, ListedArray
<1>2. \A l : [s EXCEPT !.mdadm.staged = l] = With(file, l)
  <2> TAKE l
  <2>1. [s.mdadm EXCEPT !.staged = l] = [file |-> file, staged |-> l]
    BY <1>1
  <2> QED BY <2>1
<1>3. [s EXCEPT !.mdadm.file = staged] = With(staged, staged)
  <2>1. [s.mdadm EXCEPT !.file = staged] = [file |-> staged, staged |-> staged]
    BY <1>1
  <2> QED BY <2>1
<1>4. \A f, l \in Seq(ListedArray) : Fine(s, With(f, l)) /\ SameData(s, With(f, l))
  <2> TAKE f, l \in Seq(ListedArray)
  <2>1. [file |-> f, staged |-> l] \in [file : Seq(ListedArray), staged : Seq(ListedArray)]
    OBVIOUS
  <2> QED BY <2>1, MdadmChange
<1> HIDE DEF With
<1>5. Fine(s, clearExistingArrays(s).s) /\ SameData(s, clearExistingArrays(s).s) /\ clearExistingArrays(s).more = <<>>
  <2>1. CASE Len(staged) < Len(file)
    <3> DEFINE none == <<>>
    <3>1. clearExistingArrays(s) = Fail([s EXCEPT !.mdadm.staged = none])
      BY <2>1 DEF clearExistingArrays
    <3>2. none \in Seq(ListedArray)
      OBVIOUS
    <3>3. Fail(With(file, none)).s = With(file, none) /\ Fail(With(file, none)).more = <<>>
      BY DEF Fail
    <3> HIDE DEF none
    <3>4. clearExistingArrays(s) = Fail(With(file, none))
      BY <3>1, <1>2
    <3> QED BY <3>2, <3>3, <3>4, <1>1, <1>4
  <2>2. CASE ~(Len(staged) < Len(file))
    <3> DEFINE l == SubSeq(staged, Len(file) + 1, Len(staged))
    <3>1. clearExistingArrays(s) = Done([s EXCEPT !.mdadm.staged = l])
      BY <2>2 DEF clearExistingArrays
    <3>2. l \in Seq(ListedArray)
      BY <2>2, <1>1, SubSeqProperties
    <3> HIDE DEF l
    <3> QED BY <3>1, <3>2, <1>1, <1>2, <1>4 DEF Done
  <2> QED BY <2>1, <2>2
<1>6. Fine(s, Scan(s).s) /\ SameData(s, Scan(s).s) /\ Scan(s).more = <<>> /\ Scan(s).ok
  <2> DEFINE S == {m \in Mds : s.run[m].id # 0}
             running == InOrder(S)
             found == [i \in 1 .. Len(running) |-> [md |-> running[i], id |-> s.run[running[i]].id]]
             l == staged \o found
  <2>1. Scan(s) = Done([s EXCEPT !.mdadm.staged = l])
    BY DEF Scan
  <2>2. running \in Seq(S) /\ Len(running) \in Nat
    <3>1. S \subseteq Nat /\ IsFiniteSet(S)
      BY BlockDevAssumption, FS_Subset
    <3>2. Cardinality(S) \in Nat
      BY <3>1, FS_CardinalityType
    <3> HIDE DEF S
    <3> QED BY <3>1, <3>2, InOrderType
  <2>3. \A i \in 1 .. Len(running) : running[i] \in Mds
    <3>1. \A i \in 1 .. Len(running) : running[i] \in S
      <4> HIDE DEF S, running
      <4> QED BY <2>2, ElementOfSeq
    <3> QED BY <3>1
  <2>4. s.run \in [Mds -> [id : 0 .. MaxArrays, members : SUBSET Disks]]
    BY DEF DisksOK, Storage
  <2> HIDE DEF running
  <2>5. found \in [1 .. Len(running) -> ListedArray]
    BY <2>3, <2>4 DEF ListedArray
  <2> HIDE DEF found
  <2>6. l \in Seq(ListedArray)
    <3>1. found \in Seq(ListedArray)
      BY <2>2, <2>5
    <3> QED BY <3>1, <1>1, ConcatProperties
  <2> HIDE DEF l
  <2> QED BY <2>1, <2>6, <1>1, <1>2, <1>4 DEF Done
<1>7. Fine(s, AutoFixArrays(s).s) /\ SameData(s, AutoFixArrays(s).s) /\ AutoFixArrays(s).more = <<>>
  <2> DEFINE S == {s.super[d] : d \in Disks} \ {0}
             ids == MemberUUIDs(s)
             free == InOrder(Mds \ s.node)
             n == IF Len(ids) < Len(free) THEN Len(ids) ELSE Len(free)
             found == [i \in 1 .. n |-> [md |-> free[i], id |-> ids[i]]]
             l == staged \o found
  <2>1. AutoFixArrays(s) = Done([s EXCEPT !.mdadm.staged = l])
    BY DEF AutoFixArrays
  <2>2. free \in Seq(Mds) /\ Len(free) \in Nat
    <3>1. Mds \ s.node \subseteq Nat /\ IsFiniteSet(Mds \ s.node) /\ Mds \ s.node \subseteq Mds
      BY BlockDevAssumption, FS_Subset
    <3>2. free \in Seq(Mds \ s.node)
      BY <3>1, InOrderType
    <3> QED BY <3>1, <3>2
  <2>3. ids \in Seq(0 .. MaxArrays) /\ Len(ids) \in Nat
    <3>0. s.super \in [Disks -> 0 .. MaxArrays]
      BY DEF DisksOK, Storage
    <3>1. S \subseteq 0 .. MaxArrays
      BY <3>0
    <3>2. IsFiniteSet(0 .. MaxArrays) /\ 0 .. MaxArrays \subseteq Nat
      BY BlockDevAssumption, FS_Interval
    <3>3. CASE S = {}
      <4>1. ids = <<0>>
        BY <3>3 DEF MemberUUIDs
      <4> QED BY <4>1, BlockDevAssumption
    <3>4. CASE S # {}
      <4>1. ids = InOrder(S)
        BY <3>4 DEF MemberUUIDs
      <4> HIDE DEF S, ids
      <4>2. IsFiniteSet(S) /\ S \subseteq Nat
        BY <3>1, <3>2, FS_Subset
      <4>3. ids \in Seq(S)
        BY <4>1, <4>2, InOrderType
      <4>4. ids \in Seq(0 .. MaxArrays)
        BY <4>3, <3>1, SeqWider
      <4> QED BY <4>4, LenProperties
    <3> QED BY <3>3, <3>4
  <2> HIDE DEF free, ids
  <2>4. n \in Nat /\ n <= Len(ids) /\ n <= Len(free)
    BY <2>2, <2>3
  <2> HIDE DEF n
  <2>5. \A i \in 1 .. n : free[i] \in Mds /\ ids[i] \in 0 .. MaxArrays
    <3> TAKE i \in 1 .. n
    <3>1. i \in 1 .. Len(free) /\ i \in 1 .. Len(ids)
      BY <2>2, <2>3, <2>4
    <3> QED BY <3>1, <2>2, <2>3, ElementOfSeq
  <2>6. found \in [1 .. n -> ListedArray]
    BY <2>5 DEF ListedArray
  <2> HIDE DEF found
  <2>7. l \in Seq(ListedArray)
    <3>1. found \in Seq(ListedArray)
      BY <2>4, <2>6
    <3> QED BY <3>1, <1>1, ConcatProperties
  <2> HIDE DEF l
  <2> QED BY <2>1, <2>7, <1>1, <1>2, <1>4 DEF Done
<1>8. Fine(s, CommitMdadm(s).s) /\ SameData(s, CommitMdadm(s).s) /\ CommitMdadm(s).more = <<>>
  <2>1. CommitMdadm(s) = Done(With(staged, staged))
    BY <1>3 DEF CommitMdadm
  <2> QED BY <2>1, <1>1, <1>4 DEF Done
<1> QED BY <1>5, <1>6, <1>7, <1>8

-----------------------------------------------------------------------------
(* Assembling                                                              *)

\* What assembling may change.
Assembled(s, r) ==
  /\ r \in Storage /\ ArraysOK(r) /\ SameData(s, r)
  /\ r.super = s.super /\ r.gone = s.gone /\ r.made = s.made /\ r.mdadm = s.mdadm

LEMMA StartArrayOK ==
  ASSUME NEW s, s \in Storage, ArraysOK(s), NEW e \in ListedArray
  PROVE  Assembled(s, StartArray(s, e))
<1> DEFINE members == {d \in Disks : s.super[d] = e.id /\ d \notin s.gone}
           bad == e.id = 0 \/ members = {} \/ s.run[e.md].id # 0 \/ \E m \in Mds : s.run[m].id = e.id
           run == [s.run EXCEPT ![e.md] = [id |-> e.id, members |-> members]]
           node == s.node \union {e.md}
           r == [s EXCEPT !.run = run, !.node = node]
<1>1. CASE bad
  BY <1>1 DEF StartArray, Assembled, SameData
<1>2. CASE ~bad
  <2>1. StartArray(s, e) = r
    BY <1>2 DEF StartArray
  <2>2. e.md \in Mds /\ e.id \in 0 .. MaxArrays /\ e.id # 0 /\ members # {} /\ members \subseteq Disks
    BY <1>2 DEF ListedArray
  <2>3. s.run \in [Mds -> [id : 0 .. MaxArrays, members : SUBSET Disks]] /\ node \in SUBSET Mds
    BY <2>2 DEF Storage
  <2>4. run \in [Mds -> [id : 0 .. MaxArrays, members : SUBSET Disks]]
    BY <2>2, <2>3
  <2>5. run[e.md].id = e.id /\ run[e.md].members = members /\ \A n \in Mds : n # e.md => run[n] = s.run[n]
    BY <2>2, <2>3
  <2>6. \A d \in members : s.super[d] = e.id
    OBVIOUS
  <2>7. \A m \in Mds : s.run[m].id # e.id
    BY <1>2
  <2> HIDE DEF run, members, bad
  <2>8. r \in Storage
    BY <2>3, <2>4 DEF Storage
  <2>9. /\ r.run = run /\ r.node = node /\ r.super = s.super /\ r.gone = s.gone /\ r.made = s.made /\ r.mdadm = s.mdadm
        /\ SameData(s, r)
    BY DEF Storage, SameData
  <2> HIDE DEF r
  <2>10. \A x : There(r, x) <=> There(s, x)
    BY <2>9 DEF There, SameData
  <2>11. \A m \in Mds : run[m].id = 0 <=> run[m].members = {}
    BY <2>2, <2>5 DEF ArraysOK
  <2>12. \A m, n \in Mds : run[m].id = run[n].id => m = n \/ run[m].id = 0
    BY <2>5, <2>7 DEF ArraysOK
  <2>13. e.id <= s.made
    <3>1. PICK d \in members : TRUE
      BY <2>2
    <3> QED BY <3>1, <2>2, <2>6 DEF ArraysOK
  <2>14. \A m \in Mds : run[m].id <= s.made /\ (run[m].id # 0 => m \in node)
    BY <2>5, <2>13 DEF ArraysOK
  <2>15. \A m \in Mds : \A d \in run[m].members : s.super[d] = run[m].id
    BY <2>5, <2>6 DEF ArraysOK
  <2>16. ArraysOK(r)
    BY <2>9, <2>10, <2>11, <2>12, <2>14, <2>15 DEF ArraysOK, SameData
  <2> QED BY <2>1, <2>8, <2>9, <2>16 DEF Assembled
<1> QED BY <1>1, <1>2

\* The function that Assemble defines: the disks after each entry.
Ups(s, n, f) == f = [k \in 0 .. n |-> IF k = 0 THEN s ELSE StartArray(f[k - 1], s.mdadm.file[k])]

LEMMA UpsExist ==
  ASSUME NEW s
  PROVE  \A n \in Nat : \E f : Ups(s, n, f)
<1> DEFINE Good == {n \in Nat : \E f : Ups(s, n, f)}
<1>1. 0 \in Good
  <2> DEFINE f == [k \in 0 .. 0 |-> s]
  <2>1. \A k \in 0 .. 0 : k = 0
    OBVIOUS
  <2>2. Ups(s, 0, f)
    BY <2>1 DEF Ups
  <2> QED BY <2>2
<1>2. ASSUME NEW n \in Nat, n \in Good PROVE n + 1 \in Good
  <2>1. PICK f : Ups(s, n, f)
    BY <1>2
  <2> DEFINE g == [k \in 0 .. n + 1 |-> IF k = 0 THEN s ELSE StartArray(f[k - 1], s.mdadm.file[k])]
  <2>2. \A k \in 0 .. n : g[k] = f[k]
    <3> TAKE k \in 0 .. n
    <3>1. k \in 0 .. n + 1
      OBVIOUS
    <3>2. f[k] = IF k = 0 THEN s ELSE StartArray(f[k - 1], s.mdadm.file[k])
      BY <2>1 DEF Ups
    <3> QED BY <3>1, <3>2
  <2>3. \A k \in 0 .. n + 1 : k # 0 => g[k - 1] = f[k - 1]
    <3> TAKE k \in 0 .. n + 1
    <3> HAVE k # 0
    <3>1. k - 1 \in 0 .. n
      OBVIOUS
    <3> HIDE DEF g
    <3> QED BY <3>1, <2>2
  <2>4. \A k \in 0 .. n + 1 : g[k] = IF k = 0 THEN s ELSE StartArray(g[k - 1], s.mdadm.file[k])
    <3> TAKE k \in 0 .. n + 1
    <3>1. g[k] = IF k = 0 THEN s ELSE StartArray(f[k - 1], s.mdadm.file[k])
      OBVIOUS
    <3> HIDE DEF g
    <3> QED BY <3>1, <2>3
  <2>5. g = [k \in 0 .. n + 1 |-> g[k]]
    OBVIOUS
  <2> HIDE DEF g
  <2>6. Ups(s, n + 1, g)
    BY <2>4, <2>5 DEF Ups
  <2> QED BY <2>6
<1>3. Nat \subseteq Good
  <2> HIDE DEF Good
  <2> QED BY <1>1, <1>2, NatInSet
<1> QED BY <1>3

LEMMA AssembleOK ==
  ASSUME NEW s, s \in Storage, ArraysOK(s)
  PROVE  Assembled(s, Assemble(s))
<1> DEFINE n == Len(s.mdadm.file)
           up == CHOOSE f : f = [k \in 0 .. n |-> IF k = 0 THEN s ELSE StartArray(f[k - 1], s.mdadm.file[k])]
<1>1. Assemble(s) = up[n]
  BY DEF Assemble
<1>2. s.mdadm.file \in Seq(ListedArray)
  BY DEF Storage, ListedArray
<1>3. n \in Nat
  BY <1>2
<1>4. up = CHOOSE f : Ups(s, n, f)
  BY DEF Ups
<1> HIDE DEF n, up
<1>5. Ups(s, n, up)
  BY <1>3, <1>4, UpsExist
<1>6. up[0] = s /\ \A k \in 1 .. n : up[k] = StartArray(up[k - 1], s.mdadm.file[k])
  BY <1>3, <1>5 DEF Ups
<1> DEFINE Good == {k \in Nat : k <= n => Assembled(s, up[k])}
<1>7. 0 \in Good
  BY <1>6 DEF Assembled, SameData
<1>8. ASSUME NEW k \in Nat, k \in Good PROVE k + 1 \in Good
  <2> SUFFICES ASSUME k + 1 <= n PROVE Assembled(s, up[k + 1])
    OBVIOUS
  <2>1. Assembled(s, up[k])
    BY <1>3, <1>8
  <2>2. k + 1 \in 1 .. n /\ (k + 1) - 1 = k
    BY <1>3
  <2>3. up[k + 1] = StartArray(up[k], s.mdadm.file[k + 1])
    BY <1>6, <2>2
  <2>4. s.mdadm.file[k + 1] \in ListedArray
    BY <1>2, <2>2, ElementOfSeq DEF n
  <2>5. Assembled(up[k], up[k + 1])
    BY <2>1, <2>3, <2>4, StartArrayOK DEF Assembled
  <2> QED BY <2>1, <2>5 DEF Assembled, SameData
<1>9. Nat \subseteq Good
  <2> HIDE DEF Good
  <2> QED BY <1>7, <1>8, NatInSet
<1> QED BY <1>1, <1>3, <1>9

LEMMA AssembleFine ==
  ASSUME NEW s, DisksOK(s)
  PROVE  Fine(s, Assemble(s)) /\ SameData(s, Assemble(s))
<1> DEFINE r == Assemble(s)
<1>1. Assembled(s, r)
  BY AssembleOK DEF DisksOK
<1> HIDE DEF r
<1>2. MembersKeep(s, r)
  BY <1>1 DEF Assembled, MembersKeep, DisksOK, ArraysOK
<1>3. Fine(s, r) /\ SameData(s, r)
  BY <1>1, <1>2, RaidChange DEF Assembled
<1> QED BY <1>3 DEF r

\* A boot keeps all file systems, mounts one overlay, and leaves nothing staged.
LEMMA BootOK ==
  ASSUME NEW s, DisksOK(s)
  PROVE  LET r == Boot(s)
         IN  /\ DisksOK(r) /\ r.fs = s.fs /\ MembersKeep(s, r)
             /\ r.fstab.staged = r.fstab.file
<1> DEFINE down == [s EXCEPT !.run = [m \in Mds |-> NoArray], !.node = {}, !.mounts = {},
                             !.fstab.staged = s.fstab.file, !.mdadm.staged = s.mdadm.file]
           up == Assemble(down)
           new == NewMounts(up, s.fstab.file)
           mounted == BlockMount(up, s.fstab.file)
           other == \E e \in mounted.mounts : e.point = Overlay
           own == [dev |-> SysDev, point |-> IF other THEN Rom ELSE Overlay]
           r == [mounted EXCEPT !.mounts = mounted.mounts \union {own}]
           run == [m \in Mds |-> NoArray]
           fstab == [file |-> s.fstab.file, staged |-> s.fstab.file]
           mdadm == [file |-> s.mdadm.file, staged |-> s.mdadm.file]
<1>1. Boot(s) = r
  BY DEF Boot, SysDev
<1>2. down = [s EXCEPT !.run = run, !.node = {}, !.mounts = {}, !.fstab = fstab, !.mdadm = mdadm]
  <2>1. [s.fstab EXCEPT !.staged = s.fstab.file] = fstab
    BY DEF DisksOK, Storage
  <2>2. [s.mdadm EXCEPT !.staged = s.mdadm.file] = mdadm
    BY DEF DisksOK, Storage
  <2> QED BY <2>1, <2>2
<1>3. /\ run \in [Mds -> [id : 0 .. MaxArrays, members : SUBSET Disks]]
      /\ \A m \in Mds : run[m].id = 0 /\ run[m].members = {}
  BY BlockDevAssumption DEF NoArray
<1>4. fstab \in [file : SUBSET Entry, staged : SUBSET Entry] /\ s.fstab.file \in SUBSET Entry
  BY DEF DisksOK, Storage
<1>5. mdadm \in [file : Seq(ListedArray), staged : Seq(ListedArray)]
  BY DEF DisksOK, Storage, ListedArray
<1>6. fstab.file = s.fstab.file /\ fstab.staged = s.fstab.file
  OBVIOUS
<1> HIDE DEF down, run, fstab, mdadm
<1>7. down \in Storage
  BY <1>2, <1>3, <1>4, <1>5 DEF DisksOK, Storage, ListedArray
<1>8. /\ down.run = run /\ down.node = {} /\ down.mounts = {} /\ down.fstab = fstab /\ down.super = s.super
      /\ down.made = s.made /\ down.parts = s.parts /\ down.fs = s.fs
  BY <1>2 DEF DisksOK, Storage
<1>9. s.made \in Nat
  BY BlockDevAssumption DEF DisksOK, Storage
<1>10. ArraysOK(down)
  BY <1>3, <1>8, <1>9 DEF ArraysOK, DisksOK, There
<1>11. Assembled(down, up)
  BY <1>7, <1>10, AssembleOK
<1> HIDE DEF up
<1>12. /\ up \in Storage /\ ArraysOK(up) /\ up.super = s.super /\ up.parts = s.parts /\ up.fs = s.fs
       /\ up.mounts = {} /\ up.fstab = fstab
  BY <1>8, <1>11 DEF Assembled, SameData
<1>13. mounted = [up EXCEPT !.mounts = new]
  <2>1. mounted = [up EXCEPT !.mounts = up.mounts \union new]
    BY DEF BlockMount, NewMounts
  <2>2. up.mounts \union new = new
    BY <1>12
  <2> QED BY <2>1, <2>2
<1>14. \A e \in new : e \in s.fstab.file /\ Exists(up, e.dev) /\ up.fs[e.dev] = "ext4"
  BY NewMountsAre
<1> HIDE DEF new
<1>15. new \in SUBSET Entry /\ \A e \in new : e.dev \in Parts => There(s, e.dev)
  BY <1>4, <1>12, <1>14 DEF Exists, There
<1>16. mounted \in Storage /\ mounted.mounts = new
  BY <1>12, <1>13, <1>15 DEF Storage
<1>17. own \in Entry /\ own.dev = SysDev /\ own.point \in {Overlay, Rom} /\ (own.point = Overlay <=> ~other)
  BY DevParts DEF Entry, Points, Overlay, Rom
<1>18. r \in Storage
  BY <1>16, <1>17 DEF Storage
<1>19. /\ r.mounts = new \union {own} /\ r.run = up.run /\ r.node = up.node /\ r.super = up.super /\ r.made = up.made
       /\ r.parts = s.parts /\ r.fs = s.fs /\ r.fstab = fstab
  BY <1>12, <1>13, <1>16 DEF Storage
<1>20. other <=> \E e \in new : e.point = Overlay
  BY <1>16
<1> HIDE DEF r, own, mounted, other
<1>21. EntriesOK(s, s.fstab.file)
  BY DEF DisksOK
<1>22. \A e, f \in new \union {own} : e.dev = f.dev => e = f
  BY <1>14, <1>17, <1>21 DEF EntriesOK
<1>23. s.fs[SysDev] = "ext4" /\ There(s, SysDev)
  BY DevParts DEF DisksOK, MountsOK
<1>24. \E o \in new \union {own} : /\ o.point = Overlay /\ o.dev \in Parts
                                   /\ \A e \in new \union {own} : e.point = Overlay => e = o
  <2>1. CASE other
    <3>1. PICK o \in new : o.point = Overlay
      BY <2>1, <1>20
    <3>2. o.dev \in Parts /\ \A e \in new : e.point = Overlay => e = o
      BY <3>1, <1>14, <1>21 DEF EntriesOK
    <3>3. own.point # Overlay
      BY <2>1, <1>17
    <3> QED BY <3>1, <3>2, <3>3
  <2>2. CASE ~other
    BY <2>2, <1>17, <1>20, DevParts
  <2> QED BY <2>1, <2>2
<1>25. \A e \in new \union {own} : s.fs[e.dev] = "ext4" /\ (e.dev \in Parts => There(s, e.dev))
  BY <1>12, <1>14, <1>15, <1>17, <1>23
<1>26. \A x : There(r, x) <=> There(s, x)
  BY <1>19 DEF There
<1>27. MountsOK(r)
  BY <1>17, <1>19, <1>22, <1>24, <1>25, <1>26 DEF MountsOK
<1>28. ArraysOK(r)
  BY <1>12, <1>19 DEF ArraysOK, There
<1>29. EntriesOK(r, s.fstab.file)
  BY <1>19, <1>21, <1>26 DEF EntriesOK
<1>30. DisksOK(r)
  BY <1>6, <1>18, <1>19, <1>27, <1>28, <1>29 DEF DisksOK
<1>31. MembersKeep(s, r)
  BY <1>12, <1>19 DEF MembersKeep, DisksOK, ArraysOK
<1> QED BY <1>1, <1>6, <1>19, <1>30, <1>31

-----------------------------------------------------------------------------
(* The steps that are left after a command                                 *)

LEMMA TailIs ==
  ASSUME NEW t, t \in Seq(Steps), t # <<>>, NEW u, u = Tail(t)
  PROVE  /\ u \in Seq(Steps) /\ Len(t) \in Nat /\ Len(t) >= 1 /\ Len(u) = Len(t) - 1
         /\ Head(t) = t[1] /\ t[1] \in Steps
         /\ \A i \in 1 .. Len(u) : /\ i + 1 \in 1 .. Len(t) /\ u[i] = t[i + 1] /\ i \in Nat
                                   /\ Earlier(t, i + 1) = {t[1]} \union Earlier(u, i)
<1>1. Len(t) \in Nat /\ Len(t) >= 1 /\ Head(t) = t[1] /\ u \in Seq(Steps) /\ Len(u) = Len(t) - 1
  BY HeadTailProperties, EmptySeq, LenProperties
<1>2. t[1] \in Steps
  BY <1>1, ElementOfSeq
<1>3. \A i \in 1 .. Len(u) : i + 1 \in 1 .. Len(t) /\ u[i] = t[i + 1] /\ i \in Nat
  BY <1>1, HeadTailProperties
<1>4. ASSUME NEW i \in 1 .. Len(u) PROVE Earlier(t, i + 1) = {t[1]} \union Earlier(u, i)
  <2>1. i \in Nat /\ i <= Len(u) /\ (i + 1) - 1 = i
    BY <1>1
  <2>2. ASSUME NEW j \in 1 .. i PROVE t[j] \in {t[1]} \union Earlier(u, i)
    <3>1. CASE j = 1
      BY <3>1
    <3>2. CASE j # 1
      <4>1. j - 1 \in 1 .. i - 1 /\ j - 1 \in 1 .. Len(u) /\ (j - 1) + 1 = j
        BY <3>2, <2>1, <1>1
      <4>2. u[j - 1] = t[j]
        BY <4>1, <1>3
      <4> QED BY <4>1, <4>2 DEF Earlier
    <3> QED BY <3>1, <3>2
  <2>3. ASSUME NEW j \in 1 .. i - 1 PROVE u[j] \in Earlier(t, i + 1)
    <3>1. j \in 1 .. Len(u) /\ j + 1 \in 1 .. (i + 1) - 1
      BY <2>1, <1>1
    <3>2. u[j] = t[j + 1]
      BY <3>1, <1>3
    <3> QED BY <3>1, <3>2 DEF Earlier
  <2>4. t[1] \in Earlier(t, i + 1)
    <3>1. 1 \in 1 .. (i + 1) - 1
      BY <2>1
    <3> QED BY <3>1 DEF Earlier
  <2>5. Earlier(t, i + 1) = {t[j] : j \in 1 .. i}
    BY <2>1 DEF Earlier
  <2>6. Earlier(u, i) = {u[j] : j \in 1 .. i - 1}
    BY DEF Earlier
  <2> QED BY <2>2, <2>3, <2>4, <2>5, <2>6
<1> QED BY <1>1, <1>2, <1>3, <1>4

LEMMA NoPoint == \A d : MemberText(d) \notin Points
BY DEF MemberText, Points, Generated, Chosen, Overlay, Rom

\* What a command has to leave as it was for the steps that follow it.
Follows(s, c, r) ==
  /\ c.op \notin Decisions
  /\ c.op = "unmount" => /\ r.mounts = {e \in s.mounts : e.point # c.point}
                         /\ c.point \in Points /\ r.run = s.run /\ r.fs = s.fs /\ r.made = s.made
  /\ \A e \in r.mounts : e.point = Overlay => e \in s.mounts
  /\ c.op = "mkpart" => r.parts[c.disk] = 1 /\ ~Mounted(r, <<c.disk, 1>>)
  /\ c.op \in {"umount device", "mkfs"} => r.parts = s.parts
  /\ c.op = "mkpart range" => FreshPart(r, <<c.disk, r.parts[c.disk]>>)
  /\ c.op = "umount device" => r.fstab = s.fstab
  /\ c.op \notin {"fstab", "mount or commit"} => Clean(r)
  /\ c.op = "mkraid" => r.fs = s.fs /\ r.made = s.made
  /\ c.op = "erase" => /\ \A d \in Disks : Wiped(s, d) \/ d = c.disk => Wiped(r, d)
                       /\ r.made = s.made
  /\ c.op = "umount path" => r.run = s.run
  /\ c.op = "delete" => r.run[c.md].id = 0 /\ \A n \in Mds : s.run[n].id = 0 => r.run[n].id = 0

LEMMA PlanTail ==
  ASSUME NEW s, NEW t, PlanOK(s, t), t # <<>>, NEW r, Follows(s, Head(t), r)
  PROVE  PlanOK(r, Tail(t))
<1> DEFINE u == Tail(t)
           c == t[1]
<1>1. /\ u \in Seq(Steps) /\ Len(t) \in Nat /\ Len(t) >= 1 /\ Len(u) = Len(t) - 1
      /\ Head(t) = c /\ c \in Steps
      /\ \A i \in 1 .. Len(u) : /\ i + 1 \in 1 .. Len(t) /\ u[i] = t[i + 1] /\ i \in Nat
                                /\ Earlier(t, i + 1) = {c} \union Earlier(u, i)
  BY TailIs DEF PlanOK
<1>2. Follows(s, c, r) /\ StepOK(c)
  BY <1>1 DEF PlanOK
<1>a. t[1] = c
  BY DEF c
<1> HIDE DEF u, c
<1>3. \A i \in 1 .. Len(u) : StepOK(u[i])
  BY <1>1 DEF PlanOK
<1>4. OrderOK(u)
  <2> SUFFICES ASSUME NEW i \in 1 .. Len(u) PROVE OrderAt(u, i)
    BY DEF OrderOK
  <2>1. u[i] = t[i + 1] /\ i + 1 \in 1 .. Len(t) /\ i \in Nat
    BY <1>1
  <2>2. OrderAt(t, i + 1)
    BY <2>1 DEF PlanOK, OrderOK
  <2>3. i + 1 < Len(t) => i + 1 \in 1 .. Len(u) /\ u[i + 1] = t[(i + 1) + 1]
    BY <2>1, <1>1
  <2>4. (i = Len(u) <=> i + 1 = Len(t)) /\ (i < Len(u) <=> i + 1 < Len(t))
    BY <2>1, <1>1
  <2> QED BY <2>1, <2>2, <2>3, <2>4 DEF OrderAt
<1>5. StagedOK(r, u)
  <2>1. CASE c.op \notin {"fstab", "mount or commit"}
    BY <2>1, <1>2 DEF Follows, StagedOK
  <2>2. CASE c.op \in {"fstab", "mount or commit"}
    <3>1. OrderAt(t, 1)
      BY <1>1 DEF PlanOK, OrderOK
    <3>2. 1 < Len(t) /\ t[1 + 1].op \in Committing
      BY <2>2, <3>1, <1>a DEF OrderAt, Committing
    <3>3. 1 \in 1 .. Len(u) /\ u # <<>>
      BY <3>2, <1>1
    <3>4. Head(u) = u[1] /\ u[1] = t[1 + 1]
      BY <3>3, <1>1
    <3> QED BY <3>2, <3>3, <3>4 DEF StagedOK
  <2> QED BY <2>1, <2>2
<1>6. ASSUME NEW i \in 1 .. Len(u) PROVE ReadyAt(r, u, i)
  <2>1. u[i] = t[i + 1] /\ i + 1 \in 1 .. Len(t) /\ Earlier(t, i + 1) = {c} \union Earlier(u, i)
        /\ i \in Nat /\ i + 1 # 1 /\ (i + 1) - 1 = i
    BY <1>1
  <2>2. ReadyAt(s, t, i + 1)
    BY <2>1 DEF PlanOK
  <2>3. \A ops : OnlyOps(t, i + 1, ops) => c.op \in ops /\ OnlyOps(u, i, ops)
    BY <2>1 DEF OnlyOps
  <2>b. \A op : OnlyOps(t, i + 1, {op}) => c.op = op /\ OnlyOps(u, i, {op})
    BY <2>1 DEF OnlyOps
  <2>4. u[i] \in Steps
    BY <1>1, ElementOfSeq
  <2>5. i = 1 => t[i] = c
    BY <1>a
  <2>6. i > 1 => t[i] = u[i - 1]
    <3> HAVE i > 1
    <3>1. i - 1 \in 1 .. Len(u) /\ (i - 1) + 1 = i
      BY <2>1, <1>1
    <3> QED BY <3>1, <1>1
  <2>7. i = 1 \/ i > 1
    BY <2>1
  <2>8. EraseAt(r, u, i) /\ EraseArrayAt(r, u, i)
    <3> SUFFICES ASSUME u[i].op \in {"erase", "erase array"} PROVE EraseAt(r, u, i) /\ EraseArrayAt(r, u, i)
      BY DEF EraseAt, EraseArrayAt
    <3>1. EraseAt(s, t, i + 1) /\ EraseArrayAt(s, t, i + 1)
      BY <2>2 DEF ReadyAt
    <3>2. OnlyOps(t, i + 1, {"unmount"})
      BY <3>1, <2>1 DEF EraseAt, EraseArrayAt
    <3>3. c.op = "unmount" /\ OnlyOps(u, i, {"unmount"})
      BY <3>2, <2>b
    <3>4. r.mounts = {e \in s.mounts : e.point # c.point} /\ r.run = s.run /\ c.point \in Points
      BY <3>3, <1>2 DEF Follows
    <3>5. c.point # MemberText(u[i].disk)
      BY <3>4, NoPoint
    <3>6. is_raid_member(r, u[i].disk) <=> is_raid_member(s, u[i].disk)
      BY <3>4 DEF is_raid_member
    <3>7. EraseAt(r, u, i)
      BY <3>1, <3>3, <3>4, <3>5, <3>6, <2>1 DEF EraseAt
    <3>8. EraseArrayAt(r, u, i)
      BY <3>1, <3>3, <3>4, <2>1 DEF EraseArrayAt
    <3> QED BY <3>7, <3>8
  <2>9. FormatPartsAt(r, u, i)
    <3> SUFFICES ASSUME u[i].op = "format parts" PROVE FormatPartsAt(r, u, i)
      BY DEF FormatPartsAt
    <3>1. t[i].op = "mkpart" /\ t[i].disk = u[i].disk
      BY <2>1, <2>2 DEF ReadyAt, FormatPartsAt
    <3>2. CASE i = 1
      BY <3>1, <3>2, <2>5, <1>2 DEF Follows, FormatPartsAt
    <3>3. CASE i > 1
      BY <3>1, <3>3, <2>6 DEF FormatPartsAt
    <3> QED BY <3>2, <3>3, <2>7
  <2>10. MountPartsAt(r, u, i)
    BY <2>1, <2>2, <2>3, <1>2 DEF ReadyAt, MountPartsAt, Follows
  <2>11. UmountDeviceAt(r, u, i)
    BY <2>1, <2>2, <1>2 DEF ReadyAt, UmountDeviceAt, Follows
  <2>12. RestAt(r, u, i)
    <3> SUFFICES ASSUME u[i].op = "rest" PROVE RestAt(r, u, i)
      BY DEF RestAt
    <3>1. t[i].op = "mkpart range" /\ t[i].disk = u[i].disk
      BY <2>1, <2>2 DEF ReadyAt, RestAt
    <3>2. CASE i = 1
      BY <3>1, <3>2, <2>5, <1>2 DEF Follows, RestAt
    <3>3. CASE i > 1
      BY <3>1, <3>3, <2>6 DEF RestAt
    <3> QED BY <3>2, <3>3, <2>7
  <2>13. ExistingAt(r, u, i)
    <3> SUFFICES ASSUME u[i].op = "fstab existing" PROVE ExistingAt(r, u, i)
      BY DEF ExistingAt
    <3>1. ExistingAt(s, t, i + 1)
      BY <2>2 DEF ReadyAt
    <3>2. c.op = "umount device" /\ OnlyOps(u, i, {"umount device"})
      BY <3>1, <2>1, <2>b DEF ExistingAt
    <3>3. r.fstab = s.fstab
      BY <3>2, <1>2 DEF Follows
    <3> QED BY <3>1, <3>2, <3>3, <2>1 DEF ExistingAt
  <2>14. FstabAt(r, u, i)
    BY <2>1, <2>2 DEF ReadyAt, FstabAt
  <2>15. ChooseAt(r, u, i)
    <3> SUFFICES ASSUME u[i].op = "choose md" PROVE ChooseAt(r, u, i)
      BY DEF ChooseAt
    <3>1. ChooseAt(s, t, i + 1)
      BY <2>2 DEF ReadyAt
    <3>2. c.op \in {"take member", "unmount", "erase", "mkraid"}
          /\ OnlyOps(u, i, {"take member", "unmount", "erase", "mkraid"}) /\ s.made < MaxArrays
      BY <3>1, <2>1, <2>3 DEF ChooseAt
    <3>3. c.op \in {"unmount", "erase", "mkraid"}
      BY <3>2, <1>2 DEF Follows, Decisions
    <3>4. r.made = s.made /\ (c.op # "erase" => r.fs = s.fs)
      BY <3>3, <1>2 DEF Follows
    <3>5. ASSUME NEW k \in 1 .. Len(u[i].members)
          PROVE \/ Wiped(r, u[i].members[k])
                \/ \E x \in Earlier(u, i) : x.op \in {"take member", "erase"} /\ x.disk = u[i].members[k]
      <4> DEFINE d == u[i].members[k]
      <4>1. d \in Disks
        BY <2>4, ElementOfSeq DEF Steps
      <4>2. \/ Wiped(s, d)
            \/ \E x \in {c} \union Earlier(u, i) : x.op \in {"take member", "erase"} /\ x.disk = d
        BY <3>1, <2>1 DEF ChooseAt
      <4> HIDE DEF d
      <4>3. CASE c.op = "erase"
        <5>1. Wiped(s, d) \/ d = c.disk => Wiped(r, d)
          BY <4>1, <4>3, <1>2 DEF Follows
        <5> QED BY <4>2, <5>1 DEF d
      <4>4. CASE c.op # "erase"
        <5>1. Wiped(s, d) => Wiped(r, d)
          BY <4>4, <3>4 DEF Wiped
        <5>2. c.op # "take member"
          BY <3>3
        <5> QED BY <4>2, <4>4, <5>1, <5>2 DEF d
      <4> QED BY <4>3, <4>4
    <3> QED BY <3>2, <3>4, <3>5 DEF ChooseAt
  <2>16. CreateAt(r, u, i)
    BY <2>1, <2>2 DEF ReadyAt, CreateAt
  <2>17. AddAt(r, u, i)
    <3> SUFFICES ASSUME u[i].op = "add" PROVE AddAt(r, u, i)
      BY DEF AddAt
    <3>1. AddAt(s, t, i + 1) /\ u[i].disk \in Disks
      BY <2>2, <2>4 DEF ReadyAt, Steps
    <3>2. c.op \in {"erase", "mkraid"} /\ OnlyOps(u, i, {"erase", "mkraid"})
      BY <3>1, <2>1, <2>3 DEF AddAt
    <3>3. Wiped(s, u[i].disk) \/ \E x \in {c} \union Earlier(u, i) : x.op = "erase" /\ x.disk = u[i].disk
      BY <3>1, <2>1 DEF AddAt
    <3>4. Wiped(s, u[i].disk) => Wiped(r, u[i].disk)
      BY <3>1, <3>2, <1>2 DEF Follows, Wiped
    <3>5. c.op = "erase" /\ c.disk = u[i].disk => Wiped(r, u[i].disk)
      BY <3>1, <1>2 DEF Follows
    <3> QED BY <3>2, <3>3, <3>4, <3>5 DEF AddAt
  <2>18. DeleteAt(r, u, i)
    <3> SUFFICES ASSUME u[i].op = "delete" PROVE DeleteAt(r, u, i)
      BY DEF DeleteAt
    <3>1. DeleteAt(s, t, i + 1)
      BY <2>2 DEF ReadyAt
    <3>2. c.op = "umount path" /\ OnlyOps(u, i, {"umount path"})
      BY <3>1, <2>1, <2>b DEF DeleteAt
    <3>3. r.run = s.run
      BY <3>2, <1>2 DEF Follows
    <3> QED BY <3>1, <3>2, <3>3, <2>1 DEF DeleteAt
  <2>19. NodeAt(r, u, i)
    <3> SUFFICES ASSUME u[i].op = "remove node" PROVE NodeAt(r, u, i)
      BY DEF NodeAt
    <3>1. NodeAt(s, t, i + 1)
      BY <2>2 DEF ReadyAt
    <3>2. c.op \in {"umount path", "delete"} /\ OnlyOps(u, i, {"umount path", "delete"})
      BY <3>1, <2>1, <2>3 DEF NodeAt
    <3>3. s.run[u[i].md].id = 0 \/ \E x \in {c} \union Earlier(u, i) : x.op = "delete" /\ x.md = u[i].md
      BY <3>1, <2>1 DEF NodeAt
    <3>4. u[i].md \in Mds
      BY <1>3 DEF StepOK, MdOps
    <3>5. s.run[u[i].md].id = 0 => r.run[u[i].md].id = 0
      BY <3>2, <3>4, <1>2 DEF Follows
    <3>6. c.op = "delete" /\ c.md = u[i].md => r.run[u[i].md].id = 0
      BY <1>2 DEF Follows
    <3> QED BY <3>2, <3>3, <3>5, <3>6 DEF NodeAt
  <2> QED BY <2>8, <2>9, <2>10, <2>11, <2>12, <2>13, <2>14, <2>15, <2>16, <2>17, <2>18, <2>19 DEF ReadyAt
<1> QED BY <1>1, <1>3, <1>4, <1>5, <1>6 DEF PlanOK, u

-----------------------------------------------------------------------------
(* Every command                                                           *)

\* A command that succeeds leaves the disks in order and ready for the steps
\* that follow; one that fails leaves nothing staged.
Good(s, c, o) ==
  /\ o.more = <<>> /\ Fine(s, o.s)
  /\ o.ok => Follows(s, c, o.s)
  /\ ~o.ok => Clean(o.s)

LEMMA FineOverlay ==
  ASSUME NEW s, NEW r, Fine(s, r)
  PROVE  \A e \in r.mounts : e.point = Overlay => e \in s.mounts
BY DEF Fine, SafeStep

\* The first step: nothing comes before it.
LEMMA FirstStep ==
  ASSUME NEW s, NEW t, PlanOK(s, t), t # <<>>, NEW c, c = Head(t)
  PROVE  /\ c = t[1] /\ c \in Steps /\ StepOK(c) /\ ReadyAt(s, t, 1) /\ OrderAt(t, 1) /\ Earlier(t, 1) = {}
         /\ 1 \in 1 .. Len(t)
         /\ c.op \notin Committing => Clean(s)
<1>1. Len(t) \in Nat /\ Len(t) >= 1 /\ Head(t) = t[1] /\ t[1] \in Steps
  BY TailIs DEF PlanOK
<1>2. 1 \in 1 .. Len(t)
  BY <1>1
<1>3. Earlier(t, 1) = {}
  <2>1. 1 .. 1 - 1 = {}
    OBVIOUS
  <2> QED BY <2>1 DEF Earlier
<1> QED BY <1>1, <1>2, <1>3 DEF PlanOK, OrderOK, StagedOK


\* One command after the other.
LEMMA MountGood ==
  ASSUME NEW s, DisksOK(s), Clean(s), NEW c, c.op = "mount", c.dev \in Dev, c.point \in Points \ {Overlay}
  PROVE  Good(s, c, Mount(s, c.dev, c.point))
<1> DEFINE o == Mount(s, c.dev, c.point)
<1>1. o.more = <<>>
  BY DEF Mount, Done, Fail
<1>2. Fine(s, o.s) /\ o.s = [s EXCEPT !.mounts = o.s.mounts]
  BY MountFine
<1> HIDE DEF o
<1>3. Clean(o.s)
  BY <1>2 DEF Clean, DisksOK, Storage
<1>4. Follows(s, c, o.s)
  BY <1>2, <1>3, FineOverlay DEF Follows, Decisions
<1>5. Good(s, c, o)
  BY <1>1, <1>2, <1>3, <1>4 DEF Good
<1> QED BY <1>5 DEF o

LEMMA MountOrCommitGood ==
  ASSUME NEW s, DisksOK(s), NEW c, c.op = "mount or commit", c.dev \in Dev, c.point \in Points \ {Overlay}
  PROVE  Good(s, c, MountOrCommit(s, c.dev, c.point))
<1> DEFINE o == MountOrCommit(s, c.dev, c.point)
<1>1. o.more = <<>>
  BY DEF MountOrCommit, Mount, Done, Fail
<1>2. Fine(s, o.s) /\ (~o.ok => Clean(o.s))
  BY MountOrCommitFine DEF Clean
<1> HIDE DEF o
<1>4. Follows(s, c, o.s)
  BY <1>2, FineOverlay DEF Follows, Decisions
<1>5. Good(s, c, o)
  BY <1>1, <1>2, <1>4 DEF Good
<1> QED BY <1>5 DEF o

MountsBut(s, p) == {e \in s.mounts : e.point # p}

\* What an unmounting does.
Unmounted(s, p, o) ==
  /\ o.s.fstab = s.fstab /\ o.s.run = s.run /\ o.s.fs = s.fs /\ o.s.made = s.made
  /\ o.ok => (\E e \in s.mounts : e.point = p) /\ o.s.mounts = MountsBut(s, p)

LEMMA UmountKeeps ==
  ASSUME NEW s, DisksOK(s), NEW p
  PROVE  Unmounted(s, p, UmountPoint(s, p))
<1> DEFINE left == {e \in s.mounts : e.point # p}
           o == UmountPoint(s, p)
<1>1. \/ o.s = s /\ ~o.ok
      \/ o.s = [s EXCEPT !.mounts = left] /\ \E e \in s.mounts : e.point = p
  BY DEF UmountPoint, Fail, Done
<1> HIDE DEF left, o
<1>2. /\ o.s.fstab = s.fstab /\ o.s.run = s.run /\ o.s.fs = s.fs /\ o.s.made = s.made
      /\ o.ok => (\E e \in s.mounts : e.point = p) /\ o.s.mounts = left
  BY <1>1 DEF DisksOK, Storage
<1> QED BY <1>2 DEF left, o, MountsBut, Unmounted

LEMMA UmountPointGood ==
  ASSUME NEW s, DisksOK(s), Clean(s), NEW c, c.op = "unmount" \/ c.op = "umount path", c.point # Overlay
  PROVE  Good(s, c, UmountPoint(s, c.point))
<1> DEFINE o == UmountPoint(s, c.point)
<1>1. o.more = <<>>
  BY DEF UmountPoint, Done, Fail
<1>p. PICK p : p = c.point
  OBVIOUS
<1>f. p # Overlay
  BY <1>p
<1>2. Fine(s, o.s)
  <2>1. Fine(s, UmountPoint(s, p).s)
    BY <1>f, UmountFine
  <2> QED BY <1>p, <2>1
<1>3. Unmounted(s, p, o)
  BY <1>p, UmountKeeps
<1> HIDE DEF o
<1>4. o.ok => c.point \in Points
  BY <1>3, <1>p, ZenonT(60) DEF DisksOK, Storage, Entry, Unmounted
<1>5. Clean(o.s)
  BY <1>3 DEF Clean, Unmounted
<1>7. o.ok => Follows(s, c, o.s)
  BY <1>2, <1>3, <1>4, <1>5, <1>p, FineOverlay DEF Follows, Decisions, MountsBut, Unmounted
<1>6. Good(s, c, o)
  BY <1>1, <1>2, <1>5, <1>7 DEF Good
<1> QED BY <1>6 DEF o

LEMMA UnmountGood ==
  ASSUME NEW s, DisksOK(s), Clean(s), NEW c, c.op = "unmount"
  PROVE  Good(s, c, Unmount(s, c.point))
<1>1. CASE c.point = Overlay
  <2>1. Unmount(s, c.point) = Fail(s)
    BY <1>1 DEF Unmount
  <2>2. Fail(s).more = <<>> /\ Fail(s).s = s /\ ~Fail(s).ok
    BY DEF Fail
  <2> QED BY <2>1, <2>2, SameFine DEF Good
<1>2. CASE c.point # Overlay
  <2>1. Unmount(s, c.point) = UmountPoint(s, c.point)
    BY <1>2 DEF Unmount
  <2>2. Good(s, c, UmountPoint(s, c.point))
    BY <1>2, UmountPointGood
  <2> QED BY <2>1, <2>2
<1> QED BY <1>1, <1>2

LEMMA DoneGood ==
  ASSUME NEW s, NEW c, NEW r, Fine(s, r), Follows(s, c, r)
  PROVE  Good(s, c, Done(r))
<1>1. Done(r).more = <<>> /\ Done(r).s = r /\ Done(r).ok
  BY DEF Done
<1> QED BY <1>1 DEF Good

LEMMA UmountDeviceGood ==
  ASSUME NEW s, DisksOK(s), Clean(s), NEW c, c.op = "umount device",
         ~\E e \in s.mounts : e.dev = c.dev /\ e.point = Overlay
  PROVE  Good(s, c, Done(UnMount(s, c.dev)))
<1> DEFINE r == UnMount(s, c.dev)
<1>1. Fine(s, r) /\ r.fstab = s.fstab /\ r.parts = s.parts
  BY UnMountFine
<1> HIDE DEF r
<1>2. Follows(s, c, r)
  BY <1>1, FineOverlay DEF Follows, Clean, Decisions
<1> QED BY <1>1, <1>2, DoneGood DEF r

LEMMA EraseGood ==
  ASSUME NEW s, DisksOK(s), Clean(s), NEW c, c.op = "erase", c.disk \in Disks, Unused(s, c.disk)
  PROVE  Good(s, c, Erase(s, c.disk))
<1> DEFINE o == Erase(s, c.disk)
<1>1. /\ o.ok /\ o.more = <<>> /\ Fine(s, o.s) /\ o.s.fstab = s.fstab /\ o.s.made = s.made
      /\ o.s.fs = [dev \in Dev |-> IF dev[1] = c.disk THEN "none" ELSE s.fs[dev]]
  BY EraseFine
<1> HIDE DEF o
<1>2. ASSUME NEW d \in Disks, Wiped(s, d) \/ d = c.disk PROVE Wiped(o.s, d)
  <2>1. <<d, 1>> \in Dev /\ <<d, 1>>[1] = d
    BY DevParts
  <2>2. o.s.fs[<<d, 1>>] = IF <<d, 1>>[1] = c.disk THEN "none" ELSE s.fs[<<d, 1>>]
    BY <2>1, <1>1
  <2> QED BY <1>2, <2>1, <2>2 DEF Wiped
<1>3. Follows(s, c, o.s)
  BY <1>1, <1>2, FineOverlay DEF Follows, Clean, Decisions
<1>4. Good(s, c, o)
  BY <1>1, <1>3 DEF Good
<1> QED BY <1>4 DEF o

LEMMA EraseArrayGood ==
  ASSUME NEW s, DisksOK(s), Clean(s), NEW c, c.op = "erase array", c.dev \in Dev, c.dev \notin Parts,
         ~Mounted(s, c.dev)
  PROVE  Good(s, c, EraseArray(s, c.dev))
<1> DEFINE o == EraseArray(s, c.dev)
<1>1. o.ok /\ o.more = <<>> /\ Fine(s, o.s) /\ o.s.fstab = s.fstab
  BY EraseArrayFine
<1> HIDE DEF o
<1>2. Follows(s, c, o.s)
  BY <1>1, FineOverlay DEF Follows, Clean, Decisions
<1>3. Good(s, c, o)
  BY <1>1, <1>2 DEF Good
<1> QED BY <1>3 DEF o

LEMMA MakePartGood ==
  ASSUME NEW s, DisksOK(s), Clean(s), NEW c, c.op \in {"mkpart", "mkraid"}, c.disk \in Disks
  PROVE  Good(s, c, MakePart(s, c.disk))
<1> DEFINE o == MakePart(s, c.disk)
<1>1. /\ o.more = <<>> /\ Fine(s, o.s) /\ o.s.fstab = s.fstab /\ o.s.fs = s.fs /\ o.s.made = s.made
      /\ o.ok => o.s.parts[c.disk] = 1 /\ ~Mounted(o.s, <<c.disk, 1>>)
  BY MakePartFine
<1> HIDE DEF o
<1>2. Clean(o.s)
  BY <1>1 DEF Clean
<1>3. o.ok => Follows(s, c, o.s)
  BY <1>1, <1>2, FineOverlay DEF Follows, Decisions
<1>4. Good(s, c, o)
  BY <1>1, <1>2, <1>3 DEF Good
<1> QED BY <1>4 DEF o

LEMMA MakePartRangeGood ==
  ASSUME NEW s, DisksOK(s), Clean(s), NEW c, c.op = "mkpart range", c.disk \in Disks,
         c.range[1] \in Int, c.range[2] \in Int
  PROVE  Good(s, c, MakePartRange(s, c.disk, c.range[1], c.range[2]))
<1> DEFINE o == MakePartRange(s, c.disk, c.range[1], c.range[2])
           dev == <<c.disk, o.s.parts[c.disk]>>
<1>1. /\ o.more = <<>> /\ Fine(s, o.s) /\ o.s.fstab = s.fstab
      /\ o.ok => /\ ~Mounted(o.s, dev)
                 /\ o.s.fs[dev] = "ext4" => \A e \in o.s.fstab.file : e.dev = dev => e.point # Overlay
  <2> DEFINE a == c.range[1]
             b == c.range[2]
             d == c.disk
             q == MakePartRange(s, d, a, b)
  <2>1. a \in Int /\ b \in Int /\ d \in Disks
    OBVIOUS
  <2> HIDE DEF a, b, d
  <2>2. /\ q.more = <<>> /\ Fine(s, q.s) /\ q.s.fstab = s.fstab
        /\ q.ok => /\ ~Mounted(q.s, <<d, q.s.parts[d]>>)
                   /\ q.s.fs[<<d, q.s.parts[d]>>] = "ext4" =>
                        \A e \in q.s.fstab.file : e.dev = <<d, q.s.parts[d]>> => e.point # Overlay
    BY <2>1, MakePartRangeFine, ZenonT(60)
  <2>5. q = o /\ <<d, q.s.parts[d]>> = dev
    BY DEF a, b, d
  <2> HIDE DEF q, o, dev
  <2> QED BY <2>2, <2>5
<1> HIDE DEF o
<1>2. Clean(o.s)
  BY <1>1 DEF Clean
<1>3. o.ok => FreshPart(o.s, dev)
  BY <1>1 DEF FreshPart
<1>4. o.ok => Follows(s, c, o.s)
  BY <1>1, <1>2, <1>3, FineOverlay DEF Follows, Decisions
<1>5. Good(s, c, o)
  BY <1>1, <1>2, <1>4 DEF Good
<1> QED BY <1>5 DEF o

LEMMA MkfsGood ==
  ASSUME NEW s, DisksOK(s), Clean(s), NEW c, c.op = "mkfs", c.dev \in Dev
  PROVE  Good(s, c, Ext4Partition(s, c.dev))
<1> DEFINE o == Ext4Partition(s, c.dev)
<1>1. o.more = <<>> /\ Fine(s, o.s) /\ o.s.parts = s.parts /\ Clean(o.s)
  BY MkfsFine DEF Clean
<1> HIDE DEF o
<1>2. Follows(s, c, o.s)
  BY <1>1, FineOverlay DEF Follows, Decisions
<1>3. Good(s, c, o)
  BY <1>1, <1>2 DEF Good
<1> QED BY <1>3 DEF o

LEMMA FstabGood ==
  ASSUME NEW s, DisksOK(s), Clean(s), NEW c, c.op = "fstab", c.dev \in Dev, c.point \in Points, c.dev # SysDev,
         c.point = Overlay => There(s, c.dev) /\ \A e \in s.fstab.staged : e.point # Overlay
  PROVE  Good(s, c, AddFstab(s, c.dev, c.point))
<1> DEFINE o == AddFstab(s, c.dev, c.point)
<1>1. o.more = <<>>
  BY DEF AddFstab, Done, Fail
<1>2. s.fstab.staged = s.fstab.file
  BY DEF Clean
<1>3. Fine(s, o.s) /\ (~o.ok => o.s = s)
  <2> DEFINE dev == c.dev
             p == c.point
  <2>1. dev \in Dev /\ p \in Points /\ dev # SysDev
    OBVIOUS
  <2>2. p = Overlay => There(s, dev) /\ \A e \in s.fstab.staged : e.point # Overlay
    OBVIOUS
  <2> HIDE DEF dev, p
  <2>3. Fine(s, AddFstab(s, dev, p).s)
    BY <2>1, <2>2, <1>2, AddFstabFine
  <2>4. ~AddFstab(s, dev, p).ok => AddFstab(s, dev, p).s = s
    BY <2>1, <2>2, <1>2, AddFstabFine, ZenonT(60)
  <2> QED BY <2>3, <2>4 DEF dev, p
<1> HIDE DEF o
<1>4. Follows(s, c, o.s)
  BY <1>3, FineOverlay DEF Follows, Decisions
<1>5. ~o.ok => Clean(o.s)
  BY <1>3
<1>6. Good(s, c, o)
  BY <1>1, <1>3, <1>4, <1>5 DEF Good
<1> QED BY <1>6 DEF o

LEMMA CommitGood ==
  ASSUME NEW s, DisksOK(s), NEW c
  PROVE  /\ c.op = "commit" => Good(s, c, Done(CommitFstab(s)))
         /\ c.op = "commit and mount" => Good(s, c, Done(CommitFstabAndBlockMount(s)))
<1>1. ASSUME NEW r, c.op = "commit" \/ c.op = "commit and mount", Fine(s, r), Clean(r)
      PROVE  Good(s, c, Done(r))
  <2>1. Follows(s, c, r)
    BY <1>1, FineOverlay DEF Follows, Decisions
  <2> QED BY <1>1, <2>1, DoneGood
<1>2. Fine(s, CommitFstab(s)) /\ Clean(CommitFstab(s))
  BY CommitFine DEF Clean
<1>3. Fine(s, CommitFstabAndBlockMount(s)) /\ Clean(CommitFstabAndBlockMount(s))
  BY CommitAndMountFine DEF Clean
<1>4. ASSUME c.op = "commit" PROVE Good(s, c, Done(CommitFstab(s)))
  BY <1>1, <1>2, <1>4
<1>5. ASSUME c.op = "commit and mount" PROVE Good(s, c, Done(CommitFstabAndBlockMount(s)))
  BY <1>1, <1>3, <1>5
<1> QED BY <1>4, <1>5
\* The commands on arrays, but for the deletion, leave to the steps that follow
\* what they look at.
LEMMA ArrayGood ==
  ASSUME NEW s, Clean(s), NEW c,
         c.op \notin Decisions, c.op \notin DevOps, c.op \notin DiskOps,
         c.op # "mkraid", c.op # "umount path", c.op # "delete",
         NEW o, o.more = <<>>, Fine(s, o.s), SameData(s, o.s)
  PROVE  Good(s, c, o)
<1>1. Clean(o.s)
  BY DEF Clean, SameData
<1>2. Follows(s, c, o.s)
  BY <1>1, FineOverlay DEF Follows, DevOps, DiskOps, MountOps
<1> QED BY <1>1, <1>2 DEF Good

LEMMA DeleteGood ==
  ASSUME NEW s, DisksOK(s), Clean(s), NEW c, c.op = "delete", c.md \in Mds, c.members \in Seq(Disks),
         \A n \in Mds \ {c.md}, k \in 1 .. Len(c.members) : c.members[k] \notin s.run[n].members
  PROVE  Good(s, c, RunDelete(s, c.md, c.members))
<1> DEFINE zeroed == {c.members[i] : i \in 1 .. Len(c.members)}
           m == c.md
           r == Stop(s, m, zeroed)
<1>1. CASE Mounted(s, ArrayOn(s, m))
  <2>1. RunDelete(s, m, c.members) = Fail(s)
    BY <1>1 DEF RunDelete
  <2>2. Fail(s).more = <<>> /\ Fail(s).s = s /\ ~Fail(s).ok
    BY DEF Fail
  <2> QED BY <2>1, <2>2, SameFine DEF Good
<1>2. CASE ~Mounted(s, ArrayOn(s, m))
  <2>1. RunDelete(s, m, c.members) = Done(r)
    BY <1>2 DEF RunDelete
  <2>2. zeroed \in SUBSET Disks
    BY ElementOfSeq
  <2>3. \A n \in Mds \ {m} : \A d \in zeroed : d \notin s.run[n].members
    OBVIOUS
  <2> HIDE DEF zeroed
  <2>4. Fine(s, r) /\ SameData(s, r) /\ r.run[m].id = 0 /\ \A n \in Mds : s.run[n].id = 0 => r.run[n].id = 0
    BY <2>2, <2>3, StopFine
  <2> HIDE DEF r
  <2>5. Follows(s, c, r)
    BY <2>4, FineOverlay DEF Follows, Decisions, SameData, Clean
  <2> QED BY <2>1, <2>4, <2>5, DoneGood
<1> QED BY <1>1, <1>2

\* What the first step can rely on.
Ready(s, c) ==
  /\ c.op \notin Committing => Clean(s)
  /\ c.op = "erase" => Unused(s, c.disk)
  /\ c.op = "erase array" => c.dev \notin Parts /\ ~Mounted(s, c.dev)
  /\ c.op = "umount device" => ~\E e \in s.mounts : e.dev = c.dev /\ e.point = Overlay
  /\ c.op = "fstab" /\ c.point = Overlay => There(s, c.dev) /\ \A e \in s.fstab.staged : e.point # Overlay
  /\ c.op = "create" => /\ s.made < MaxArrays /\ c.md \notin s.node
                        /\ \A k \in 1 .. Len(c.members) : Wiped(s, c.members[k])
  /\ c.op = "add" => Wiped(s, c.disk)
  /\ c.op = "delete" =>
       \A n \in Mds \ {c.md}, k \in 1 .. Len(c.members) : c.members[k] \notin s.run[n].members
  /\ c.op = "remove node" => s.run[c.md].id = 0

LEMMA ReadyFirst ==
  ASSUME NEW s, NEW t, PlanOK(s, t), t # <<>>
  PROVE  Head(t) \in Steps /\ StepOK(Head(t)) /\ Ready(s, Head(t))
<1> DEFINE c == Head(t)
<1>1. c = t[1] /\ c \in Steps /\ StepOK(c) /\ ReadyAt(s, t, 1) /\ Earlier(t, 1) = {}
  BY FirstStep
<1>2. c.op \notin Committing => Clean(s)
  BY FirstStep
<1> HIDE DEF c
<1>3. c.op = "erase" => Unused(s, c.disk)
  BY <1>1 DEF ReadyAt, EraseAt, Unused
<1>4. c.op = "erase array" => c.dev \notin Parts /\ ~Mounted(s, c.dev)
  BY <1>1 DEF ReadyAt, EraseArrayAt, Mounted
<1>5. c.op = "umount device" => ~\E e \in s.mounts : e.dev = c.dev /\ e.point = Overlay
  BY <1>1 DEF ReadyAt, UmountDeviceAt
<1>6. c.op = "fstab" /\ c.point = Overlay => There(s, c.dev) /\ \A e \in s.fstab.staged : e.point # Overlay
  BY <1>1 DEF ReadyAt, FstabAt
<1>7. c.op = "create" => /\ s.made < MaxArrays /\ c.md \notin s.node
                         /\ \A k \in 1 .. Len(c.members) : Wiped(s, c.members[k])
  BY <1>1 DEF ReadyAt, CreateAt
<1>8. c.op = "add" => Wiped(s, c.disk)
  BY <1>1 DEF ReadyAt, AddAt
<1>9. c.op = "delete" =>
        \A n \in Mds \ {c.md}, k \in 1 .. Len(c.members) : c.members[k] \notin s.run[n].members
  BY <1>1 DEF ReadyAt, DeleteAt
<1>10. c.op = "remove node" => s.run[c.md].id = 0
  BY <1>1 DEF ReadyAt, NodeAt
<1>11. Ready(s, c)
  BY <1>2, <1>3, <1>4, <1>5, <1>6, <1>7, <1>8, <1>9, <1>10 DEF Ready
<1> QED BY <1>1, <1>11 DEF c

LEMMA DiskCommandGood ==
  ASSUME NEW s, DisksOK(s), NEW c \in Steps, StepOK(c), Ready(s, c), c.op \in DevOps \union DiskOps,
         c.op \notin Decisions
  PROVE  Good(s, c, Outcome(s, c))
<1>1. c.disk \in Disks /\ c.range[1] \in Int /\ c.range[2] \in Int
  BY DEF Steps
<1>2. c.op \in DevOps => c.dev \in Dev
  BY DEF StepOK
<1>3. c.op \in MountOps => c.point \in Points \ {Overlay}
  BY DEF StepOK
<1>4. CASE c.op = "mount"
  <2>1. Outcome(s, c) = Mount(s, c.dev, c.point)
    BY <1>4, DiskCommandIs
  <2>2. Clean(s) /\ c.dev \in Dev /\ c.point \in Points \ {Overlay}
    BY <1>2, <1>3, <1>4 DEF Ready, Committing, DevOps, MountOps
  <2>3. Good(s, c, Mount(s, c.dev, c.point))
    BY <1>4, <2>2, MountGood
  <2> QED BY <2>1, <2>3
<1>5. CASE c.op = "mount or commit"
  <2>1. Outcome(s, c) = MountOrCommit(s, c.dev, c.point)
    BY <1>5, DiskCommandIs
  <2>2. c.dev \in Dev /\ c.point \in Points \ {Overlay}
    BY <1>2, <1>3, <1>5 DEF DevOps, MountOps
  <2>3. Good(s, c, MountOrCommit(s, c.dev, c.point))
    BY <1>5, <2>2, MountOrCommitGood
  <2> QED BY <2>1, <2>3
<1>6. CASE c.op = "unmount"
  <2>1. Outcome(s, c) = Unmount(s, c.point)
    BY <1>6, DiskCommandIs
  <2>2. Clean(s)
    BY <1>6 DEF Ready, Committing
  <2>3. Good(s, c, Unmount(s, c.point))
    BY <1>6, <2>2, UnmountGood
  <2> QED BY <2>1, <2>3
<1>7. CASE c.op = "umount device"
  <2>1. Outcome(s, c) = Done(UnMount(s, c.dev))
    BY <1>7, DiskCommandIs
  <2>2. Clean(s) /\ ~\E e \in s.mounts : e.dev = c.dev /\ e.point = Overlay
    BY <1>7 DEF Ready, Committing
  <2>3. Good(s, c, Done(UnMount(s, c.dev)))
    BY <1>7, <2>2, UmountDeviceGood
  <2> QED BY <2>1, <2>3
<1>8. CASE c.op = "erase"
  <2>1. Outcome(s, c) = Erase(s, c.disk)
    BY <1>8, DiskCommandIs
  <2>2. Clean(s) /\ Unused(s, c.disk)
    BY <1>8 DEF Ready, Committing
  <2>3. Good(s, c, Erase(s, c.disk))
    BY <1>8, <1>1, <2>2, EraseGood
  <2> QED BY <2>1, <2>3
<1>9. CASE c.op = "erase array"
  <2>1. Outcome(s, c) = EraseArray(s, c.dev)
    BY <1>9, DiskCommandIs
  <2>2. Clean(s) /\ c.dev \in Dev /\ c.dev \notin Parts /\ ~Mounted(s, c.dev)
    BY <1>2, <1>9 DEF Ready, Committing, DevOps
  <2>3. Good(s, c, EraseArray(s, c.dev))
    BY <1>9, <2>2, EraseArrayGood
  <2> QED BY <2>1, <2>3
<1>10. CASE c.op = "mkpart"
  <2>1. Outcome(s, c) = MakePart(s, c.disk)
    BY <1>10, DiskCommandIs
  <2>2. Clean(s) /\ c.op \in {"mkpart", "mkraid"}
    BY <1>10 DEF Ready, Committing
  <2>3. Good(s, c, MakePart(s, c.disk))
    BY <1>1, <2>2, MakePartGood
  <2> QED BY <2>1, <2>3
<1>11. CASE c.op = "mkpart range"
  <2>1. Outcome(s, c) = MakePartRange(s, c.disk, c.range[1], c.range[2])
    BY <1>11, DiskCommandIs
  <2>2. Clean(s)
    BY <1>11 DEF Ready, Committing
  <2>3. Good(s, c, MakePartRange(s, c.disk, c.range[1], c.range[2]))
    BY <1>1, <1>11, <2>2, MakePartRangeGood
  <2> QED BY <2>1, <2>3
<1>12. CASE c.op = "mkfs"
  <2>1. Outcome(s, c) = Ext4Partition(s, c.dev)
    BY <1>12, DiskCommandIs
  <2>2. Clean(s) /\ c.dev \in Dev
    BY <1>2, <1>12 DEF Ready, Committing, DevOps
  <2>3. Good(s, c, Ext4Partition(s, c.dev))
    BY <1>12, <2>2, MkfsGood
  <2> QED BY <2>1, <2>3
<1>13. CASE c.op = "fstab"
  <2>1. Outcome(s, c) = AddFstab(s, c.dev, c.point)
    BY <1>13, DiskCommandIs
  <2>2. Clean(s) /\ c.dev \in Dev /\ c.point \in Points /\ c.dev # SysDev
    BY <1>2, <1>13 DEF Ready, Committing, DevOps, StepOK
  <2>3. c.point = Overlay => There(s, c.dev) /\ \A e \in s.fstab.staged : e.point # Overlay
    BY <1>13 DEF Ready
  <2>4. Good(s, c, AddFstab(s, c.dev, c.point))
    BY <1>13, <2>2, <2>3, FstabGood
  <2> QED BY <2>1, <2>4
<1>14. CASE c.op = "commit"
  <2>1. Outcome(s, c) = Done(CommitFstab(s))
    BY <1>14, DiskCommandIs
  <2> QED BY <1>14, <2>1, CommitGood
<1>15. CASE c.op = "commit and mount"
  <2>1. Outcome(s, c) = Done(CommitFstabAndBlockMount(s))
    BY <1>15, DiskCommandIs
  <2> QED BY <1>15, <2>1, CommitGood
<1>16. c.op \in {"mount", "mount or commit", "unmount", "umount device", "erase", "erase array", "mkpart",
                 "mkpart range", "mkfs", "fstab", "commit", "commit and mount"}
  BY DEF DevOps, DiskOps, MountOps, Decisions
<1> QED BY <1>4, <1>5, <1>6, <1>7, <1>8, <1>9, <1>10, <1>11, <1>12, <1>13, <1>14, <1>15, <1>16

LEMMA RaidCommandGood ==
  ASSUME NEW s, DisksOK(s), NEW c \in Steps, StepOK(c), Ready(s, c), c.op \in RaidCommands
  PROVE  Good(s, c, Outcome(s, c))
<1>1. c.disk \in Disks /\ c.members \in Seq(Disks)
  BY DEF Steps
<1>2. Clean(s) /\ c.op \notin Decisions /\ c.op \notin DevOps /\ c.op \notin DiskOps
  BY DEF Ready, Committing, RaidCommands, Decisions, DevOps, MountOps, DiskOps
<1>3. c.op \in MdOps => c.md \in Mds
  BY DEF StepOK
<1>4. CASE c.op = "mkraid"
  <2>1. Outcome(s, c) = MakePart(s, c.disk)
    BY <1>4, RaidCommandIs
  <2>2. c.op \in {"mkpart", "mkraid"}
    BY <1>4
  <2>3. Good(s, c, MakePart(s, c.disk))
    BY <1>1, <1>2, <2>2, MakePartGood
  <2> QED BY <2>1, <2>3
<1>5. CASE c.op = "create"
  <2> DEFINE m == c.md
             ms == c.members
  <2>1. Outcome(s, c) = RunCreate(s, m, ms)
    BY <1>5, RaidCommandIs
  <2>2. m \in Mds /\ ms \in Seq(Disks) /\ ms # <<>> /\ s.made < MaxArrays /\ m \notin s.node
    BY <1>1, <1>3, <1>5 DEF StepOK, Ready, MdOps
  <2>3. \A k \in 1 .. Len(ms) : s.fs[<<ms[k], 1>>] = "none"
    BY <1>5 DEF Ready, Wiped
  <2> HIDE DEF m, ms
  <2> DEFINE o == RunCreate(s, m, ms)
  <2>4. o.more = <<>> /\ Fine(s, o.s) /\ SameData(s, o.s)
    BY <2>2, <2>3, CreateFine
  <2> HIDE DEF o
  <2>5. Good(s, c, o)
    BY <1>2, <1>5, <2>4, ArrayGood
  <2> QED BY <2>1, <2>5 DEF o
<1>6. CASE c.op = "umount path"
  <2>1. Outcome(s, c) = UmountPoint(s, c.point)
    BY <1>6, RaidCommandIs
  <2>2. c.point # Overlay
    BY <1>6 DEF StepOK
  <2>3. Good(s, c, UmountPoint(s, c.point))
    BY <1>2, <1>6, <2>2, UmountPointGood
  <2> QED BY <2>1, <2>3
<1>7. CASE c.op = "delete"
  <2>1. Outcome(s, c) = RunDelete(s, c.md, c.members)
    BY <1>7, RaidCommandIs
  <2>2. c.md \in Mds
    BY <1>3, <1>7 DEF MdOps
  <2>3. \A n \in Mds \ {c.md}, k \in 1 .. Len(c.members) : c.members[k] \notin s.run[n].members
    BY <1>7 DEF Ready
  <2>4. Good(s, c, RunDelete(s, c.md, c.members))
    BY <1>1, <1>2, <1>7, <2>2, <2>3, DeleteGood
  <2> QED BY <2>1, <2>4
<1>8. CASE c.op = "remove node"
  <2> DEFINE m == c.md
             r == [s EXCEPT !.node = @ \ {m}]
             o == RemoveDeletedDevice(s, m)
  <2>1. Outcome(s, c) = o
    BY <1>8, RaidCommandIs
  <2>2. o.more = <<>> /\ o.s = r
    BY DEF RemoveDeletedDevice, Done
  <2>3. m \in Mds /\ s.run[m].id = 0
    BY <1>3, <1>8 DEF MdOps, Ready
  <2>4. Fine(s, r) /\ SameData(s, r)
    <3> HIDE DEF m
    <3> QED BY <2>3, NodeGone
  <2> HIDE DEF o, r
  <2>5. o.more = <<>> /\ Fine(s, o.s) /\ SameData(s, o.s)
    BY <2>2, <2>4
  <2>6. Good(s, c, o)
    BY <1>2, <1>8, <2>5, ArrayGood
  <2> QED BY <2>1, <2>6
<1>9. CASE c.op = "add"
  <2> DEFINE m == c.md
             d == c.disk
             o == RunAdd(s, m, d)
  <2>1. Outcome(s, c) = o
    BY <1>9, RaidCommandIs
  <2>2. m \in Mds /\ d \in Disks /\ s.fs[<<d, 1>>] = "none"
    BY <1>1, <1>3, <1>9 DEF MdOps, Ready, Wiped
  <2> HIDE DEF m, d
  <2>3. o.more = <<>> /\ Fine(s, o.s) /\ SameData(s, o.s)
    BY <2>2, AddFine
  <2> HIDE DEF o
  <2>4. Good(s, c, o)
    BY <1>2, <1>9, <2>3, ArrayGood
  <2> QED BY <2>1, <2>4
<1>10. CASE c.op = "remove"
  <2> DEFINE m == c.md
             d == c.disk
             o == RunRemove(s, m, d)
  <2>1. Outcome(s, c) = o
    BY <1>10, RaidCommandIs
  <2>2. m \in Mds /\ d \in Disks
    BY <1>1, <1>3, <1>10 DEF MdOps
  <2> HIDE DEF m, d
  <2>3. o.more = <<>> /\ Fine(s, o.s) /\ SameData(s, o.s)
    BY <2>2, RemoveFine
  <2> HIDE DEF o
  <2>4. Good(s, c, o)
    BY <1>2, <1>10, <2>3, ArrayGood
  <2> QED BY <2>1, <2>4
<1>11. CASE c.op \in {"clear arrays", "scan", "autofix", "commit mdadm", "restart mdadm"}
  <2> DEFINE o == Outcome(s, c)
  <2>1. o.more = <<>> /\ Fine(s, o.s) /\ SameData(s, o.s)
    <3>1. CASE c.op = "clear arrays"
      <4>1. o = clearExistingArrays(s)
        BY <3>1, RaidCommandIs
      <4> QED BY <4>1, MdadmFine
    <3>2. CASE c.op = "scan"
      <4>1. o = Scan(s)
        BY <3>2, RaidCommandIs
      <4> QED BY <4>1, MdadmFine
    <3>3. CASE c.op = "autofix"
      <4>1. o = AutoFixArrays(s)
        BY <3>3, RaidCommandIs
      <4> QED BY <4>1, MdadmFine
    <3>4. CASE c.op = "commit mdadm"
      <4>1. o = CommitMdadm(s)
        BY <3>4, RaidCommandIs
      <4> QED BY <4>1, MdadmFine
    <3>5. CASE c.op = "restart mdadm"
      <4>1. o = Done(Assemble(s))
        BY <3>5, RaidCommandIs
      <4>2. Done(Assemble(s)).more = <<>> /\ Done(Assemble(s)).s = Assemble(s)
        BY DEF Done
      <4> QED BY <4>1, <4>2, AssembleFine
    <3> QED BY <1>11, <3>1, <3>2, <3>3, <3>4, <3>5
  <2>2. c.op # "mkraid" /\ c.op # "umount path" /\ c.op # "delete"
    BY <1>11
  <2> HIDE DEF o
  <2>3. Good(s, c, o)
    BY <1>2, <2>1, <2>2, ArrayGood
  <2> QED BY <2>3 DEF o
<1> QED BY <1>4, <1>5, <1>6, <1>7, <1>8, <1>9, <1>10, <1>11 DEF RaidCommands

\* A command that fails for reasons of its own leaves the disks in order, and
\* nothing staged.
LEMMA FaultFine ==
  ASSUME NEW s, DisksOK(s), NEW c \in Steps, StepOK(c), Ready(s, c), NEW r \in Faults(s, c)
  PROVE  Fine(s, r) /\ Clean(r)
<1>1. c.disk \in Disks /\ c.members \in Seq(Disks)
  BY DEF Steps
<1>2. c.op \in MdOps => c.md \in Mds
  BY DEF StepOK
<1>3. c.op \notin Committing => Clean(s)
  BY DEF Ready
<1>4. CASE c.op \in {"unmount", "umount path", "mkpart", "mkraid", "mkpart range", "mkfs", "mount", "scan", "add"}
  <2>1. r = s /\ Clean(s)
    BY <1>3, <1>4 DEF Faults, Committing
  <2> QED BY <2>1, SameFine
<1>5. CASE c.op = "mount or commit"
  <2>1. r = CommitFstab(s)
    BY <1>5 DEF Faults
  <2>2. Fine(s, CommitFstab(s)) /\ Clean(CommitFstab(s))
    BY CommitFine DEF Clean
  <2> QED BY <2>1, <2>2
<1>6. CASE c.op = "erase"
  <2>1. r = Dd(s, c.disk) /\ Clean(s) /\ Unused(s, c.disk)
    BY <1>3, <1>6 DEF Faults, Committing, Ready
  <2>2. Fine(s, Dd(s, c.disk)) /\ Dd(s, c.disk).fstab = s.fstab
    BY <1>1, <2>1, EraseFine
  <2> QED BY <2>1, <2>2 DEF Clean
<1>7. CASE c.op = "create"
  <2> DEFINE m == c.md
             ms == c.members
  <2>1. r = CleanupCreatedDevice(s, m).s /\ Clean(s)
    BY <1>3, <1>7 DEF Faults, Committing
  <2>2. m \in Mds /\ ms \in Seq(Disks) /\ ms # <<>> /\ s.made < MaxArrays /\ m \notin s.node
    BY <1>1, <1>2, <1>7 DEF StepOK, Ready, MdOps
  <2>3. \A k \in 1 .. Len(ms) : s.fs[<<ms[k], 1>>] = "none"
    BY <1>7 DEF Ready, Wiped
  <2> HIDE DEF m, ms
  <2>4. Fine(s, CleanupCreatedDevice(s, m).s) /\ SameData(s, CleanupCreatedDevice(s, m).s)
    BY <2>2, <2>3, CreateFine
  <2> QED BY <2>1, <2>4 DEF Clean, SameData
<1>8. CASE c.op = "delete"
  <2> DEFINE m == c.md
             q == Stop(s, m, {})
  <2>1. (r = s \/ r = q) /\ Clean(s) /\ m \in Mds
    BY <1>2, <1>3, <1>8 DEF Faults, Committing, MdOps
  <2>2. Fine(s, q) /\ SameData(s, q)
    <3> HIDE DEF m
    <3>1. \A n \in Mds \ {m} : \A d \in {} : d \notin s.run[n].members
      OBVIOUS
    <3>2. {} \in SUBSET Disks
      OBVIOUS
    <3> QED BY <2>1, <3>1, <3>2, StopFine
  <2> HIDE DEF q
  <2> QED BY <2>1, <2>2, SameFine DEF Clean, SameData
<1>9. CASE c.op \notin {"unmount", "umount path", "mkpart", "mkraid", "mkpart range", "mkfs", "mount", "scan", "add",
                        "mount or commit", "erase", "create", "delete"}
  BY <1>9 DEF Faults
<1> QED BY <1>4, <1>5, <1>6, <1>7, <1>8, <1>9
==============================================================================
