---------------------------- MODULE StorageProofs ----------------------------
(***************************************************************************)
(* Proofs about Storage, for any disks, any numbers of arrays and any      *)
(* number of failing commands: what a request plans (PlanOK), that each    *)
(* step leaves a plan that is still right for the disks as they have       *)
(* become, and from the two the theorems at the end of the module.         *)
(***************************************************************************)
EXTENDS StorageCommands

-----------------------------------------------------------------------------
(* What the decisions decide                                               *)

\* Steps that rely on nothing.
BoundOps == {"erase", "erase array", "format parts", "mount parts", "umount device", "rest", "fstab existing", "fstab",
             "choose md", "create", "add", "delete", "remove node"}

LEMMA FreeStep ==
  ASSUME NEW s, NEW t, NEW i, t[i].op \notin BoundOps
  PROVE  ReadyAt(s, t, i)
BY DEF BoundOps, ReadyAt, EraseAt, EraseArrayAt, FormatPartsAt, MountPartsAt, UmountDeviceAt, RestAt, ExistingAt, FstabAt,
       ChooseAt, CreateAt, AddAt, DeleteAt, NodeAt

Unmountings(u) == u \in Seq(Steps) /\ \A i \in 1 .. Len(u) : u[i].op = "unmount"
Range1(u) == {u[j] : j \in 1 .. Len(u)}

BehindAt(u, w, t, i) ==
  /\ t[Len(u) + i] = w[i]
  /\ Earlier(t, Len(u) + i) = Range1(u) \union Earlier(w, i)

\* Two lists after one another.
LEMMA Joined ==
  ASSUME NEW u, u \in Seq(Steps), NEW w, w \in Seq(Steps), NEW t, t = u \o w
  PROVE  /\ t \in Seq(Steps) /\ Len(u) \in Nat /\ Len(w) \in Nat /\ Len(t) = Len(u) + Len(w)
         /\ \A i \in 1 .. Len(u) : t[i] = u[i] /\ i \in 1 .. Len(t) /\ Earlier(t, i) = Earlier(u, i)
         /\ \A i \in 1 .. Len(w) : BehindAt(u, w, t, i)
<1> DEFINE n == Len(u)
<1>1. t \in Seq(Steps) /\ n \in Nat /\ Len(w) \in Nat /\ Len(t) = n + Len(w)
  BY ConcatProperties, LenProperties
<1>2. \A i \in 1 .. n + Len(w) : t[i] = IF i <= n THEN u[i] ELSE w[i - n]
  BY ConcatProperties
<1> HIDE DEF n
<1>3. ASSUME NEW i \in 1 .. n PROVE t[i] = u[i] /\ i \in 1 .. Len(t)
  BY <1>1, <1>2, <1>3
<1>4. ASSUME NEW i \in 1 .. Len(w) PROVE n + i \in 1 .. Len(t) /\ t[n + i] = w[i]
  <2>1. n + i \in 1 .. n + Len(w) /\ ~(n + i <= n) /\ (n + i) - n = i
    BY <1>1
  <2> QED BY <1>1, <1>2, <2>1
<1>5. ASSUME NEW i \in 1 .. n PROVE Earlier(t, i) = Earlier(u, i)
  <2>1. \A j \in 1 .. i - 1 : t[j] = u[j]
    BY <1>1, <1>3
  <2> QED BY <2>1 DEF Earlier
<1>6. ASSUME NEW i \in 1 .. Len(w) PROVE Earlier(t, n + i) = Range1(u) \union Earlier(w, i)
  <2>1. ASSUME NEW x \in Earlier(t, n + i) PROVE x \in Range1(u) \union Earlier(w, i)
    <3>1. PICK j \in 1 .. (n + i) - 1 : x = t[j]
      BY DEF Earlier
    <3>2. CASE j <= n
      <4>1. j \in 1 .. n
        BY <1>1, <3>1, <3>2
      <4> QED BY <4>1, <3>1, <1>3 DEF Range1, n
    <3>3. CASE ~(j <= n)
      <4>1. j - n \in 1 .. i - 1 /\ j - n \in 1 .. Len(w) /\ j = n + (j - n)
        BY <1>1, <3>1, <3>3
      <4>2. x = w[j - n]
        BY <4>1, <3>1, <1>4
      <4> QED BY <4>1, <4>2 DEF Earlier
    <3> QED BY <3>2, <3>3
  <2>2. ASSUME NEW x \in Range1(u) PROVE x \in Earlier(t, n + i)
    <3>1. PICK j \in 1 .. n : x = u[j]
      BY DEF Range1, n
    <3>2. j \in 1 .. (n + i) - 1 /\ x = t[j]
      BY <1>1, <1>3, <3>1
    <3> QED BY <3>2 DEF Earlier
  <2>3. ASSUME NEW x \in Earlier(w, i) PROVE x \in Earlier(t, n + i)
    <3>1. PICK j \in 1 .. i - 1 : x = w[j]
      BY DEF Earlier
    <3>2. j \in 1 .. Len(w) /\ n + j \in 1 .. (n + i) - 1
      BY <1>1, <3>1
    <3>3. x = t[n + j]
      BY <1>4, <3>1, <3>2
    <3> QED BY <3>2, <3>3 DEF Earlier
  <2> QED BY <2>1, <2>2, <2>3
<1>7. \A i \in 1 .. Len(w) : BehindAt(u, w, t, i)
  BY <1>4, <1>6 DEF BehindAt, n
<1> QED BY <1>1, <1>3, <1>5, <1>7 DEF n

LEMMA JoinedAt ==
  ASSUME NEW u, u \in Seq(Steps), NEW w, w \in Seq(Steps), NEW i \in 1 .. Len(w)
  PROVE  BehindAt(u, w, u \o w, i)
BY Joined

LEMMA JoinedLen ==
  ASSUME NEW u, u \in Seq(Steps), NEW w, w \in Seq(Steps)
  PROVE  Len(u) \in Nat /\ Len(u \o w) = Len(u) + Len(w)
BY Joined

LEMMA Places ==
  ASSUME NEW n \in Nat, NEW k \in Nat, NEW j \in 1 .. n + k
  PROVE  j \in 1 .. n \/ \E i \in 1 .. k : j = n + i
<1>1. CASE j <= n
  BY <1>1
<1>2. CASE ~(j <= n)
  <2>1. j - n \in 1 .. k /\ j = n + (j - n)
    BY <1>2
  <2> QED BY <2>1
<1> QED BY <1>1, <1>2

\* A decision leaves the disks in order, and a plan that suits them.
Decided(s, o) ==
  /\ Fine(s, o.s)
  /\ o.ok => PlanOK(o.s, o.more)
  /\ ~o.ok => Clean(o.s)

LEMMA ThenDecided ==
  ASSUME NEW s, DisksOK(s), NEW more, PlanOK(s, more)
  PROVE  Decided(s, Then(s, more))
<1>1. Then(s, more).ok /\ Then(s, more).s = s /\ Then(s, more).more = more
  BY DEF Then
<1> QED BY <1>1, SameFine DEF Decided

LEMMA FailDecided ==
  ASSUME NEW s, DisksOK(s), Clean(s)
  PROVE  Decided(s, Fail(s))
<1>1. ~Fail(s).ok /\ Fail(s).s = s
  BY DEF Fail
<1> QED BY <1>1, SameFine DEF Decided

\* What the unmounting of a partition unmounts.
LEMMA UnmountStepsAre ==
  ASSUME NEW s, DisksOK(s), NEW dev \in Dev
  PROVE  /\ Unmountings(UnmountSteps(s, dev))
         /\ \A e \in s.mounts : e.dev = dev => \E c \in Range1(UnmountSteps(s, dev)) : c.point = e.point
         /\ ~Mounted(s, dev) /\ dev \in Parts /\ dev[2] = 1 /\ is_raid_member(s, dev[1]) =>
              \E c \in Range1(UnmountSteps(s, dev)) : c.point = MemberText(dev[1])
<1> DEFINE u == UnmountSteps(s, dev)
           G == get_mount_point(s, dev)
           member == dev \in Parts /\ dev[2] = 1 /\ is_raid_member(s, dev[1])
<1>1. CASE Mounted(s, dev)
  <2>1. PICK e \in s.mounts : e.dev = dev /\ MountPointOf(s, dev) = e.point
    BY <1>1 DEF Mounted, MountPointOf
  <2>2. \A f \in s.mounts : f.dev = dev => f = e
    BY <2>1 DEF DisksOK, MountsOK
  <2> DEFINE c == [Step("unmount") EXCEPT !.point = e.point]
  <2>3. G = {e.point}
    BY <1>1, <2>1 DEF get_mount_point
  <2>4. u = <<c>>
    <3>1. (CHOOSE p \in G : TRUE) = e.point /\ G # {}
      BY <2>3
    <3> QED BY <3>1 DEF UnmountSteps
  <2>5. e.point \in Points
    BY <2>1 DEF DisksOK, Storage, Entry
  <2>6. c \in Steps /\ c.op = "unmount" /\ c.point = e.point
    <3>1. Step("unmount") \in Steps /\ Step("unmount").op = "unmount"
      BY StepFields DEF Ops, DiskOps
    <3> QED BY <3>1, <2>5 DEF Steps
  <2> HIDE DEF c, u
  <2>7. Len(u) = 1 /\ u[1] = c /\ u \in Seq(Steps)
    BY <2>4, <2>6
  <2>8. Unmountings(u) /\ c \in Range1(u)
    BY <2>6, <2>7 DEF Unmountings, Range1
  <2> QED BY <1>1, <2>2, <2>6, <2>8 DEF u
<1>2. CASE ~Mounted(s, dev) /\ member
  <2> DEFINE p == MemberText(dev[1])
             c == [Step("unmount") EXCEPT !.point = p]
  <2>3. G = {p}
    BY <1>2 DEF get_mount_point
  <2>4. u = <<c>>
    <3>1. (CHOOSE q \in G : TRUE) = p /\ G # {}
      BY <2>3
    <3> QED BY <3>1 DEF UnmountSteps
  <2>6. c \in Steps /\ c.op = "unmount" /\ c.point = p
    <3>1. Step("unmount") \in Steps /\ Step("unmount").op = "unmount"
      BY StepFields DEF Ops, DiskOps
    <3>2. p \in {MemberText(d) : d \in Disks}
      BY <1>2, DevParts
    <3> HIDE DEF p
    <3> QED BY <3>1, <3>2 DEF Steps
  <2> HIDE DEF c, u
  <2>7. Len(u) = 1 /\ u[1] = c /\ u \in Seq(Steps)
    BY <2>4, <2>6
  <2>8. Unmountings(u) /\ c \in Range1(u)
    BY <2>6, <2>7 DEF Unmountings, Range1
  <2>9. ~\E e \in s.mounts : e.dev = dev
    BY <1>2 DEF Mounted
  <2> QED BY <2>6, <2>8, <2>9 DEF u
<1>3. CASE ~Mounted(s, dev) /\ ~member
  <2>1. G = {}
    BY <1>3 DEF get_mount_point
  <2>2. u = <<>>
    BY <2>1 DEF UnmountSteps
  <2>3. Unmountings(u)
    BY <2>2 DEF Unmountings
  <2>4. ~\E e \in s.mounts : e.dev = dev
    BY <1>3 DEF Mounted
  <2> QED BY <1>3, <2>3, <2>4
<1> QED BY <1>1, <1>2, <1>3

\* A step of a plan.
Sound(s, t, i) == StepOK(t[i]) /\ OrderAt(t, i) /\ ReadyAt(s, t, i)

LEMMA PlanList ==
  ASSUME NEW s, Clean(s), NEW t, t \in Seq(Steps), \A i \in 1 .. Len(t) : Sound(s, t, i)
  PROVE  PlanOK(s, t)
BY DEF PlanOK, OrderOK, StagedOK, Sound

PlainOps == {"unmount", "mkpart", "mkraid", "commit", "commit and mount", "clear arrays", "scan", "autofix",
             "commit mdadm", "restart mdadm"}

LEMMA SoundPlain ==
  ASSUME NEW s, NEW t, NEW i, t[i].op \in PlainOps
  PROVE  Sound(s, t, i)
<1>1. StepOK(t[i])
  BY DEF StepOK, DevOps, MdOps, MountOps, PlainOps
<1>2. OrderAt(t, i)
  BY DEF OrderAt, Decisions, PlainOps
<1>3. ReadyAt(s, t, i)
  BY FreeStep DEF BoundOps, PlainOps
<1> QED BY <1>1, <1>2, <1>3 DEF Sound

LEMMA SoundMkfs ==
  ASSUME NEW s, NEW t, NEW i, t[i].op = "mkfs", t[i].dev \in Dev
  PROVE  Sound(s, t, i)
<1>1. StepOK(t[i])
  BY DEF StepOK, DevOps, MdOps, MountOps
<1>2. OrderAt(t, i)
  BY DEF OrderAt, Decisions
<1>3. ReadyAt(s, t, i)
  BY FreeStep DEF BoundOps
<1> QED BY <1>1, <1>2, <1>3 DEF Sound

LEMMA SoundMount ==
  ASSUME NEW s, NEW t, NEW i, t[i].op = "mount", t[i].dev \in Dev, t[i].point \in Points \ {Overlay}
  PROVE  Sound(s, t, i)
<1>1. StepOK(t[i])
  BY DEF StepOK, DevOps, MdOps, MountOps
<1>2. OrderAt(t, i)
  BY DEF OrderAt, Decisions
<1>3. ReadyAt(s, t, i)
  BY FreeStep DEF BoundOps
<1> QED BY <1>1, <1>2, <1>3 DEF Sound

LEMMA SoundMountOrCommit ==
  ASSUME NEW s, NEW t, NEW i, t[i].op = "mount or commit", t[i].dev \in Dev, t[i].point \in Points \ {Overlay},
         i < Len(t), t[i + 1].op = "commit and mount"
  PROVE  Sound(s, t, i)
<1>1. StepOK(t[i])
  BY DEF StepOK, DevOps, MdOps, MountOps
<1>2. OrderAt(t, i)
  BY DEF OrderAt, Decisions
<1>3. ReadyAt(s, t, i)
  BY FreeStep DEF BoundOps
<1> QED BY <1>1, <1>2, <1>3 DEF Sound

\* An entry for a place that is not the overlay relies on nothing.
LEMMA SoundFstab ==
  ASSUME NEW s, NEW t, NEW i, t[i].op = "fstab", t[i].dev \in Dev, t[i].dev # SysDev,
         t[i].point \in Points \ {Overlay}, i < Len(t), t[i + 1].op \in Committing
  PROVE  Sound(s, t, i)
<1>1. StepOK(t[i])
  BY DEF StepOK, DevOps, MdOps, MountOps
<1>2. OrderAt(t, i)
  BY DEF OrderAt, Decisions
<1>3. ReadyAt(s, t, i)
  BY DEF ReadyAt, EraseAt, EraseArrayAt, FormatPartsAt, MountPartsAt, UmountDeviceAt, RestAt, ExistingAt,
         FstabAt, ChooseAt, CreateAt, AddAt, DeleteAt, NodeAt
<1> QED BY <1>1, <1>2, <1>3 DEF Sound

LEMMA SoundDecision ==
  ASSUME NEW s, NEW t, NEW i, t[i].op \in Decisions, t[i].op \notin BoundOps, t[i].op # "take member",
         i = Len(t), StepOK(t[i])
  PROVE  Sound(s, t, i)
<1>2. OrderAt(t, i)
  BY DEF OrderAt, Decisions
<1>3. ReadyAt(s, t, i)
  BY FreeStep
<1> QED BY <1>2, <1>3 DEF Sound

\* A plan behind unmountings.
LEMMA PrefixedPlan ==
  ASSUME NEW s, Clean(s), NEW u, Unmountings(u), NEW w, w \in Seq(Steps), NEW t, t = u \o w,
         \A i \in 1 .. Len(w) : Sound(s, t, Len(u) + i)
  PROVE  PlanOK(s, t)
<1>1. u \in Seq(Steps)
  BY DEF Unmountings
<1>2. t \in Seq(Steps) /\ Len(u) \in Nat /\ Len(w) \in Nat /\ Len(t) = Len(u) + Len(w)
  BY <1>1, Joined
<1>3. \A i \in 1 .. Len(u) : t[i] = u[i] /\ i \in 1 .. Len(t)
  BY <1>1, Joined
<1>4. \A j \in 1 .. Len(t) : j \in 1 .. Len(u) \/ \E i \in 1 .. Len(w) : j = Len(u) + i
  <2> TAKE j \in 1 .. Len(t)
  <2>1. j \in 1 .. Len(u) + Len(w)
    BY <1>2
  <2> QED BY <1>2, <2>1, Places
<1>5. ASSUME NEW j \in 1 .. Len(u) PROVE Sound(s, t, j)
  <2>1. t[j].op \in PlainOps
    BY <1>3 DEF Unmountings, PlainOps
  <2> QED BY <2>1, SoundPlain
<1>6. \A j \in 1 .. Len(t) : Sound(s, t, j)
  BY <1>4, <1>5
<1> QED BY <1>2, <1>6, PlanList

\* A device without a mount point is not the system's own.
LEMMA NotInUse ==
  ASSUME NEW s, DisksOK(s), NEW dev, get_mount_point(s, dev) = {}
  PROVE  ~Mounted(s, dev) /\ dev # SysDev
<1>1. ~Mounted(s, dev)
  BY DEF get_mount_point
<1>2. Mounted(s, SysDev)
  BY DEF DisksOK, MountsOK, Mounted
<1> QED BY <1>1, <1>2

LEMMA PointsAre ==
  ASSUME NEW dev \in Dev
  PROVE  Generated(dev) \in Points \ {Overlay} /\ Chosen(dev) \in Points \ {Overlay}
BY DEF Points, Generated, Chosen, Overlay

LEMMA OpsAre ==
  {"mount", "mount or commit", "remount", "mount partition", "format", "format array", "init", "init array",
   "format parts", "mount parts", "mount unmounted", "init rest", "rest", "fstab existing", "format partition",
   "overlay", "take member", "choose md", "unmount", "umount device", "erase", "erase array", "mkpart",
   "mkpart range", "mkfs", "fstab", "commit", "commit and mount", "mkraid", "create", "umount path", "delete",
   "remove node", "add", "remove", "clear arrays", "scan", "autofix", "commit mdadm", "restart mdadm"} \subseteq Ops
BY DEF Ops, Decisions, RaidCommands, DevOps, MountOps, DiskOps

IsStep(c, op) == c \in Steps /\ c.op = op
IsOn(c, op, dev) == IsStep(c, op) /\ c.dev = dev
IsOnDisk(c, op, d) == IsStep(c, op) /\ c.disk = d
IsAtPoint(c, op, dev, p) == IsStep(c, op) /\ c.dev = dev /\ c.point = p
IsOnArray(c, op, m, ms) == IsStep(c, op) /\ c.md = m /\ c.members = ms

LEMMA StepIs ==
  ASSUME NEW op \in Ops PROVE IsStep(Step(op), op)
BY StepFields DEF IsStep

LEMMA OnIs ==
  ASSUME NEW op \in Ops, NEW dev \in Dev PROVE IsOn(On(op, dev), op, dev)
BY StepFields DEF IsOn, IsStep

LEMMA OnDiskIs ==
  ASSUME NEW op \in Ops, NEW d \in Disks PROVE IsOnDisk(OnDisk(op, d), op, d)
BY StepFields DEF IsOnDisk, IsStep

LEMMA AtPointIs ==
  ASSUME NEW op \in Ops, NEW dev \in Dev, NEW p \in Points PROVE IsAtPoint(AtPoint(op, dev, p), op, dev, p)
BY StepFields DEF IsAtPoint, IsStep

LEMMA OnArrayIs ==
  ASSUME NEW op \in Ops, NEW m \in Mds, NEW ms \in Seq(Disks) PROVE IsOnArray(OnArray(op, m, ms), op, m, ms)
BY StepFields DEF IsOnArray, IsStep

LEMMA OneStep ==
  ASSUME NEW a \in Steps, NEW t, t = <<a>>
  PROVE  t \in Seq(Steps) /\ Len(t) = 1 /\ t[1] = a /\ \A i \in 1 .. Len(t) : i = 1
OBVIOUS

LEMMA TwoSteps ==
  ASSUME NEW a \in Steps, NEW b \in Steps, NEW t, t = <<a, b>>
  PROVE  t \in Seq(Steps) /\ Len(t) = 2 /\ t[1] = a /\ t[2] = b /\ \A i \in 1 .. Len(t) : i = 1 \/ i = 2
OBVIOUS

LEMMA ThreeSteps ==
  ASSUME NEW a \in Steps, NEW b \in Steps, NEW c \in Steps, NEW t, t = <<a, b, c>>
  PROVE  /\ t \in Seq(Steps) /\ Len(t) = 3 /\ t[1] = a /\ t[2] = b /\ t[3] = c
         /\ \A i \in 1 .. Len(t) : i = 1 \/ i = 2 \/ i = 3
<1>1. t \in Seq(Steps)
  OBVIOUS
<1>2. Len(t) = 3 /\ t[1] = a /\ t[2] = b /\ t[3] = c
  OBVIOUS
<1>3. \A i \in 1 .. 3 : i = 1 \/ i = 2 \/ i = 3
  OBVIOUS
<1> QED BY <1>1, <1>2, <1>3

Five(t, a, b, c, d, e) ==
  /\ t \in Seq(Steps) /\ Len(t) = 5 /\ t[1] = a /\ t[2] = b /\ t[3] = c /\ t[4] = d /\ t[5] = e
  /\ \A i \in 1 .. Len(t) : i = 1 \/ i = 2 \/ i = 3 \/ i = 4 \/ i = 5

LEMMA FiveSteps ==
  ASSUME NEW a \in Steps, NEW b \in Steps, NEW c \in Steps, NEW d \in Steps, NEW e \in Steps
  PROVE  Five(<<a, b, c, d, e>>, a, b, c, d, e)
<1> DEFINE t == <<a, b, c, d, e>>
<1>1. t \in Seq(Steps)
  OBVIOUS
<1>2. Len(t) = 5 /\ t[1] = a /\ t[2] = b /\ t[3] = c /\ t[4] = d /\ t[5] = e
  OBVIOUS
<1>3. \A i \in 1 .. 5 : i = 1 \/ i = 2 \/ i = 3 \/ i = 4 \/ i = 5
  OBVIOUS
<1> HIDE DEF t
<1>4. Five(t, a, b, c, d, e)
  BY <1>1, <1>2, <1>3 DEF Five
<1> QED BY <1>4 DEF t

LEMMA FiveJoined ==
  ASSUME NEW a \in Steps, NEW b \in Steps, NEW c \in Steps, NEW d \in Steps, NEW e \in Steps
  PROVE  Five(<<a>> \o <<b, c, d>> \o <<e>>, a, b, c, d, e)
<1> DEFINE p == <<a>>
           q == <<b, c, d>>
           r == <<e>>
           x == p \o q
           t == x \o r
<1>1. p \in Seq(Steps) /\ Len(p) = 1 /\ p[1] = a
  OBVIOUS
<1>2. q \in Seq(Steps) /\ Len(q) = 3 /\ q[1] = b /\ q[2] = c /\ q[3] = d
  OBVIOUS
<1>3. r \in Seq(Steps) /\ Len(r) = 1 /\ r[1] = e
  OBVIOUS
<1> HIDE DEF p, q, r
<1>4. x \in Seq(Steps) /\ Len(x) = Len(p) + Len(q)
  BY <1>1, <1>2, ConcatProperties
<1>5. \A i \in 1 .. Len(p) + Len(q) : x[i] = IF i <= Len(p) THEN p[i] ELSE q[i - Len(p)]
  BY <1>1, <1>2, ConcatProperties
<1> HIDE DEF x
<1>6. Len(x) = 4 /\ x[1] = a /\ x[2] = b /\ x[3] = c /\ x[4] = d
  BY <1>1, <1>2, <1>4, <1>5
<1>7. t \in Seq(Steps) /\ Len(t) = Len(x) + Len(r)
  BY <1>3, <1>4, ConcatProperties
<1>8. \A i \in 1 .. Len(x) + Len(r) : t[i] = IF i <= Len(x) THEN x[i] ELSE r[i - Len(x)]
  BY <1>3, <1>4, ConcatProperties
<1> HIDE DEF t
<1>9. Len(t) = 5 /\ t[1] = a /\ t[2] = b /\ t[3] = c /\ t[4] = d /\ t[5] = e
  BY <1>3, <1>6, <1>7, <1>8
<1>10. \A i \in 1 .. 5 : i = 1 \/ i = 2 \/ i = 3 \/ i = 4 \/ i = 5
  OBVIOUS
<1>11. Five(t, a, b, c, d, e)
  BY <1>7, <1>9, <1>10 DEF Five
<1> QED BY <1>11 DEF t, x, p, q, r

LEMMA MountStepsPlan ==
  ASSUME NEW s, Clean(s), NEW dev \in Dev, NEW p \in Points \ {Overlay}, dev # SysDev
  PROVE  PlanOK(s, MountSteps(dev, p))
<1> DEFINE a == AtPoint("mount", dev, p)
           b == AtPoint("fstab", dev, p)
           c == Step("commit and mount")
           t == <<a, b, c>>
<1>0. "mount" \in Ops /\ "fstab" \in Ops /\ "commit and mount" \in Ops /\ p \in Points
  BY OpsAre
<1>10. IsAtPoint(a, "mount", dev, p)
  BY <1>0, AtPointIs
<1>20. IsAtPoint(b, "fstab", dev, p)
  BY <1>0, AtPointIs
<1>30. IsStep(c, "commit and mount")
  BY <1>0, StepIs
<1>4. MountSteps(dev, p) = t
  BY DEF MountSteps
<1> HIDE DEF a, b, c
<1>1. a \in Steps /\ a.op = "mount" /\ a.dev = dev /\ a.point = p
  BY <1>10 DEF IsAtPoint, IsStep
<1>2. b \in Steps /\ b.op = "fstab" /\ b.dev = dev /\ b.point = p
  BY <1>20 DEF IsAtPoint, IsStep
<1>3. c \in Steps /\ c.op = "commit and mount"
  BY <1>30 DEF IsStep
<1>5. /\ t \in Seq(Steps) /\ Len(t) = 3 /\ t[1] = a /\ t[2] = b /\ t[3] = c
      /\ \A i \in 1 .. Len(t) : i = 1 \/ i = 2 \/ i = 3
  BY <1>1, <1>2, <1>3, ThreeSteps
<1> HIDE DEF t
<1>6. Sound(s, t, 1)
  BY <1>1, <1>5, SoundMount
<1>7. Sound(s, t, 2)
  <2>1. 2 + 1 = 3 /\ 2 < 3
    OBVIOUS
  <2>2. t[2 + 1].op \in Committing
    BY <2>1, <1>3, <1>5 DEF Committing
  <2> QED BY <2>1, <2>2, <1>2, <1>5, SoundFstab
<1>8. Sound(s, t, 3)
  <2>1. t[3].op \in PlainOps
    BY <1>3, <1>5 DEF PlainOps
  <2> QED BY <2>1, SoundPlain
<1> QED BY <1>4, <1>5, <1>6, <1>7, <1>8, PlanList

\* Mounting a partition, and the plans that end in it.
LEMMA RemountPlans ==
  ASSUME NEW s, DisksOK(s), Clean(s), NEW dev \in Dev, NEW p \in Points \ {Overlay}
  PROVE  /\ PlanOK(s, UnmountSteps(s, dev) \o <<AtPoint("remount", dev, p)>>)
         /\ PlanOK(s, UnmountSteps(s, dev) \o <<On("mkfs", dev), AtPoint("remount", dev, p)>>)
<1> DEFINE u == UnmountSteps(s, dev)
           a == On("mkfs", dev)
           b == AtPoint("remount", dev, p)
           v == <<b>>
           w == <<a, b>>
<1>0. "mkfs" \in Ops /\ "remount" \in Ops /\ p \in Points
  BY OpsAre
<1>10. IsOn(a, "mkfs", dev)
  BY <1>0, OnIs
<1>20. IsAtPoint(b, "remount", dev, p)
  BY <1>0, AtPointIs
<1>1. Unmountings(u)
  BY UnmountStepsAre
<1> HIDE DEF a, b, u
<1>2. a \in Steps /\ a.op = "mkfs" /\ a.dev = dev
  BY <1>10 DEF IsOn, IsStep
<1>3. b \in Steps /\ b.op = "remount" /\ b.dev = dev /\ b.point = p
  BY <1>20 DEF IsAtPoint, IsStep
<1>4. StepOK(b) /\ b.op \in Decisions /\ b.op \notin BoundOps
  BY <1>3 DEF StepOK, DevOps, MountOps, MdOps, Decisions, BoundOps
<1>5. u \in Seq(Steps)
  BY <1>1 DEF Unmountings
<1>6. PlanOK(s, u \o v)
  <2> DEFINE t == u \o v
  <2>1. v \in Seq(Steps) /\ Len(v) = 1 /\ v[1] = b /\ \A i \in 1 .. Len(v) : i = 1
    BY <1>3, OneStep
  <2> HIDE DEF v
  <2>2. Len(u) \in Nat /\ Len(t) = Len(u) + Len(v)
    BY <1>5, <2>1, JoinedLen
  <2>a. 1 \in 1 .. Len(v)
    BY <2>1
  <2>b. BehindAt(u, v, t, 1)
    BY <1>5, <2>1, <2>a, JoinedAt
  <2> HIDE DEF t
  <2>3. Sound(s, t, Len(u) + 1)
    BY <1>3, <1>4, <2>1, <2>2, <2>b, SoundDecision DEF BehindAt
  <2> QED BY <1>1, <2>1, <2>3, PrefixedPlan DEF t
<1>7. PlanOK(s, u \o w)
  <2> DEFINE t == u \o w
  <2>1. w \in Seq(Steps) /\ Len(w) = 2 /\ w[1] = a /\ w[2] = b /\ \A i \in 1 .. Len(w) : i = 1 \/ i = 2
    BY <1>2, <1>3, TwoSteps
  <2> HIDE DEF w
  <2>2. Len(u) \in Nat /\ Len(t) = Len(u) + Len(w)
    BY <1>5, <2>1, JoinedLen
  <2>a. 1 \in 1 .. Len(w) /\ 2 \in 1 .. Len(w)
    BY <2>1
  <2>b. BehindAt(u, w, t, 1) /\ BehindAt(u, w, t, 2)
    BY <1>5, <2>1, <2>a, JoinedAt
  <2> HIDE DEF t
  <2>3. Sound(s, t, Len(u) + 1)
    BY <1>2, <2>1, <2>b, SoundMkfs DEF BehindAt
  <2>4. Sound(s, t, Len(u) + 2)
    BY <1>3, <1>4, <2>1, <2>2, <2>b, SoundDecision DEF BehindAt
  <2> QED BY <1>1, <2>1, <2>3, <2>4, PrefixedPlan DEF t
<1> QED BY <1>6, <1>7 DEF u, a, b

\* Formatting for the sandbox.
LEMMA SandboxPlan ==
  ASSUME NEW s, DisksOK(s), Clean(s), NEW dev \in Dev, dev \in Parts
  PROVE  PlanOK(s, UnmountSteps(s, dev) \o <<On("mkfs", dev), On("overlay", dev)>>)
<1> DEFINE u == UnmountSteps(s, dev)
           a == On("mkfs", dev)
           b == On("overlay", dev)
           w == <<a, b>>
           t == u \o w
<1>0. "mkfs" \in Ops /\ "overlay" \in Ops
  BY OpsAre
<1>10. IsOn(a, "mkfs", dev)
  BY <1>0, OnIs
<1>20. IsOn(b, "overlay", dev)
  BY <1>0, OnIs
<1>1. Unmountings(u)
  BY UnmountStepsAre
<1> HIDE DEF a, b, u
<1>2. a \in Steps /\ a.op = "mkfs" /\ a.dev = dev
  BY <1>10 DEF IsOn, IsStep
<1>3. b \in Steps /\ b.op = "overlay" /\ b.dev = dev
  BY <1>20 DEF IsOn, IsStep
<1>4. StepOK(b) /\ b.op \in Decisions /\ b.op \notin BoundOps
  BY <1>3 DEF StepOK, DevOps, MountOps, MdOps, Decisions, BoundOps
<1>5. u \in Seq(Steps)
  BY <1>1 DEF Unmountings
<1>6. w \in Seq(Steps) /\ Len(w) = 2 /\ w[1] = a /\ w[2] = b /\ \A i \in 1 .. Len(w) : i = 1 \/ i = 2
  BY <1>2, <1>3, TwoSteps
<1> HIDE DEF w
<1>7. Len(u) \in Nat /\ Len(t) = Len(u) + Len(w)
  BY <1>5, <1>6, JoinedLen
<1>8. 1 \in 1 .. Len(w) /\ 2 \in 1 .. Len(w)
  BY <1>6
<1>9. BehindAt(u, w, t, 1) /\ BehindAt(u, w, t, 2)
  BY <1>5, <1>6, <1>8, JoinedAt
<1> HIDE DEF t
<1>11. Sound(s, t, Len(u) + 1)
  BY <1>2, <1>6, <1>9, SoundMkfs DEF BehindAt
<1>12. Sound(s, t, Len(u) + 2)
  BY <1>3, <1>4, <1>6, <1>7, <1>9, SoundDecision DEF BehindAt
<1>13. PlanOK(s, t)
  BY <1>1, <1>6, <1>11, <1>12, PrefixedPlan DEF t
<1> QED BY <1>13 DEF t, u, w, a, b

\* Initialising an array: what is mounted from it is unmounted first.
LEMMA InitArrayPlan ==
  ASSUME NEW s, DisksOK(s), Clean(s), NEW dev \in Dev, dev \notin Parts
  PROVE  PlanOK(s, UnmountSteps(s, dev)
                   \o <<On("erase array", dev), On("mkfs", dev), AtPoint("mount unmounted", dev, Generated(dev))>>)
<1> DEFINE u == UnmountSteps(s, dev)
           a == On("erase array", dev)
           b == On("mkfs", dev)
           c == AtPoint("mount unmounted", dev, Generated(dev))
           w == <<a, b, c>>
           t == u \o w
<1>0. "mkfs" \in Ops /\ "erase array" \in Ops /\ "mount unmounted" \in Ops /\ Generated(dev) \in Points
  BY OpsAre, PointsAre
<1>10. IsOn(a, "erase array", dev)
  BY <1>0, OnIs
<1>20. IsOn(b, "mkfs", dev)
  BY <1>0, OnIs
<1>30. IsAtPoint(c, "mount unmounted", dev, Generated(dev))
  BY <1>0, AtPointIs
<1>1. Unmountings(u) /\ \A e \in s.mounts : e.dev = dev => \E x \in Range1(u) : x.point = e.point
  BY UnmountStepsAre
<1> HIDE DEF a, b, c, u
<1>2. a \in Steps /\ a.op = "erase array" /\ a.dev = dev
  BY <1>10 DEF IsOn, IsStep
<1>3. b \in Steps /\ b.op = "mkfs" /\ b.dev = dev
  BY <1>20 DEF IsOn, IsStep
<1>4. c \in Steps /\ c.op = "mount unmounted" /\ c.dev = dev
  BY <1>30 DEF IsAtPoint, IsStep
<1>5. StepOK(c) /\ c.op \in Decisions /\ c.op \notin BoundOps
  BY <1>4 DEF StepOK, DevOps, MountOps, MdOps, Decisions, BoundOps
<1>6. u \in Seq(Steps)
  BY <1>1 DEF Unmountings
<1>7. /\ w \in Seq(Steps) /\ Len(w) = 3 /\ w[1] = a /\ w[2] = b /\ w[3] = c
      /\ \A i \in 1 .. Len(w) : i = 1 \/ i = 2 \/ i = 3
  BY <1>2, <1>3, <1>4, ThreeSteps
<1> HIDE DEF w
<1>8. Len(u) \in Nat /\ Len(t) = Len(u) + Len(w)
  BY <1>6, <1>7, JoinedLen
<1>9. 1 \in 1 .. Len(w) /\ 2 \in 1 .. Len(w) /\ 3 \in 1 .. Len(w)
  BY <1>7
<1>11. BehindAt(u, w, t, 1) /\ BehindAt(u, w, t, 2) /\ BehindAt(u, w, t, 3)
  BY <1>6, <1>7, <1>9, JoinedAt
<1> HIDE DEF t
<1>12. Sound(s, t, Len(u) + 1)
  <2> DEFINE k == Len(u) + 1
  <2>1. t[k] = a
    BY <1>7, <1>11 DEF BehindAt
  <2>2. Earlier(t, k) = Range1(u)
    <3>1. Earlier(w, 1) = {}
      <4>1. 1 .. 1 - 1 = {}
        OBVIOUS
      <4> QED BY <4>1 DEF Earlier
    <3> QED BY <1>11, <3>1 DEF BehindAt
  <2> HIDE DEF k
  <2>3. \A x \in Range1(u) : x.op = "unmount"
    BY <1>1 DEF Unmountings, Range1
  <2>4. EraseArrayAt(s, t, k)
    BY <1>1, <1>2, <2>1, <2>2, <2>3 DEF EraseArrayAt, OnlyOps
  <2>5. ReadyAt(s, t, k)
    BY <1>2, <2>1, <2>4 DEF ReadyAt, EraseAt, FormatPartsAt, MountPartsAt, UmountDeviceAt, RestAt, ExistingAt,
                            FstabAt, ChooseAt, CreateAt, AddAt, DeleteAt, NodeAt
  <2>6. StepOK(t[k])
    BY <1>2, <2>1 DEF StepOK, DevOps, MountOps, MdOps
  <2>7. OrderAt(t, k)
    BY <1>2, <2>1 DEF OrderAt, Decisions
  <2> QED BY <2>5, <2>6, <2>7 DEF Sound, k
<1>13. Sound(s, t, Len(u) + 2)
  BY <1>3, <1>7, <1>11, SoundMkfs DEF BehindAt
<1>14. Sound(s, t, Len(u) + 3)
  BY <1>4, <1>5, <1>7, <1>8, <1>11, SoundDecision DEF BehindAt
<1>15. PlanOK(s, t)
  BY <1>1, <1>7, <1>12, <1>13, <1>14, PrefixedPlan DEF t
<1> QED BY <1>15 DEF t, u, w, a, b, c

LEMMA FewSeqs ==
  /\ \A q : q = [i \in 1 .. 0 |-> q[i]] => q = <<>>
  /\ \A q : q = [i \in 1 .. 1 |-> q[i]] => q = <<q[1]>>
  /\ \A q : q = [i \in 1 .. 2 |-> q[i]] => q = <<q[1], q[2]>>
<1>1. \A q : q = [i \in 1 .. 0 |-> q[i]] => q = <<>>
  OBVIOUS
<1>2. ASSUME NEW q, q = [i \in 1 .. 1 |-> q[i]] PROVE q = <<q[1]>>
  BY <1>2
<1>3. ASSUME NEW q, q = [i \in 1 .. 2 |-> q[i]] PROVE q = <<q[1], q[2]>>
  BY <1>3
<1> QED BY <1>1, <1>2, <1>3

LEMMA JoinedUnmountings ==
  ASSUME NEW u, Unmountings(u), NEW v, Unmountings(v)
  PROVE  Unmountings(u \o v) /\ Range1(u) \subseteq Range1(u \o v) /\ Range1(v) \subseteq Range1(u \o v)
<1> DEFINE t == u \o v
<1>1. u \in Seq(Steps) /\ v \in Seq(Steps)
  BY DEF Unmountings
<1>2. t \in Seq(Steps) /\ Len(u) \in Nat /\ Len(v) \in Nat /\ Len(t) = Len(u) + Len(v)
  BY <1>1, Joined
<1>3. \A i \in 1 .. Len(u) : t[i] = u[i] /\ i \in 1 .. Len(t)
  BY <1>1, Joined
<1>4. \A i \in 1 .. Len(v) : BehindAt(u, v, t, i)
  BY <1>1, Joined
<1> HIDE DEF t
<1>5. \A i \in 1 .. Len(v) : t[Len(u) + i] = v[i] /\ Len(u) + i \in 1 .. Len(t)
  BY <1>2, <1>4 DEF BehindAt
<1>6. ASSUME NEW j \in 1 .. Len(t) PROVE t[j].op = "unmount"
  <2>1. j \in 1 .. Len(u) + Len(v)
    BY <1>2
  <2>2. j \in 1 .. Len(u) \/ \E i \in 1 .. Len(v) : j = Len(u) + i
    BY <1>2, <2>1, Places
  <2>3. CASE j \in 1 .. Len(u)
    BY <2>3, <1>3 DEF Unmountings
  <2>4. CASE \E i \in 1 .. Len(v) : j = Len(u) + i
    BY <2>4, <1>5 DEF Unmountings
  <2> QED BY <2>2, <2>3, <2>4
<1>7. Unmountings(t)
  BY <1>2, <1>6 DEF Unmountings
<1>8. Range1(u) \subseteq Range1(t)
  BY <1>3 DEF Range1
<1>9. Range1(v) \subseteq Range1(t)
  BY <1>5 DEF Range1
<1> QED BY <1>7, <1>8, <1>9 DEF t

\* All that is mounted from a disk has a step that unmounts it, and the disk of
\* an array one that fails.
Frees(s, d, u) ==
  /\ Unmountings(u)
  /\ \A e \in s.mounts : e.dev \in Parts /\ e.dev[1] = d => \E c \in Range1(u) : c.point = e.point
  /\ is_raid_member(s, d) => \E c \in Range1(u) : c.point = MemberText(d)

LEMMA DiskUnmounts ==
  ASSUME NEW s, DisksOK(s), NEW d \in Disks, NEW q,
         q = [i \in 1 .. Len(PartsOf(s, d)) |-> UnmountSteps(s, PartsOf(s, d)[i])]
  PROVE  Frees(s, d, FlattenSeq(q))
<1> DEFINE n == s.parts[d]
           x == UnmountSteps(s, <<d, 1>>)
           y == UnmountSteps(s, <<d, 2>>)
           u == FlattenSeq(q)
<1>1. n = 0 \/ n = 1 \/ n = 2
  <2>1. s \in Storage
    BY DEF DisksOK
  <2>2. n \in Nat /\ n <= 2
    BY <2>1, PartsNumber
  <2> QED BY <2>2
<1>2. Len(PartsOf(s, d)) = n /\ \A i \in 1 .. n : PartsOf(s, d)[i] = <<d, i>>
  BY <1>1 DEF PartsOf
<1>3. q = [i \in 1 .. n |-> q[i]] /\ \A i \in 1 .. n : q[i] = UnmountSteps(s, <<d, i>>)
  BY <1>2
<1>4. <<d, 1>> \in Dev /\ <<d, 2>> \in Dev /\ <<d, 1>> \in Parts /\ <<d, 1>>[1] = d /\ <<d, 1>>[2] = 1
  BY DevParts
<1>5. ASSUME NEW e \in s.mounts, e.dev \in Parts, e.dev[1] = d
      PROVE  \/ n # 0 /\ e.dev = <<d, 1>>
             \/ n = 2 /\ e.dev = <<d, 2>>
  <2>1. e.dev[2] \in {1, 2} /\ e.dev = <<e.dev[1], e.dev[2]>>
    BY <1>5, DevParts
  <2>2. e.dev[2] <= n
    BY <1>5 DEF DisksOK, MountsOK, There
  <2> HIDE DEF n
  <2> QED BY <1>1, <1>5, <2>1, <2>2
<1>6. ASSUME is_raid_member(s, d) PROVE n # 0 /\ ~Mounted(s, <<d, 1>>)
  <2>1. PICK m \in Mds : d \in s.run[m].members
    BY <1>6 DEF is_raid_member
  <2>2. s.run[m].id # 0 /\ s.super[d] = s.run[m].id
    BY <2>1 DEF DisksOK, ArraysOK
  <2>3. There(s, <<d, 1>>) /\ s.fs[<<d, 1>>] = "none"
    BY <2>2 DEF DisksOK, ArraysOK
  <2>4. n # 0
    BY <2>3, <1>1, <1>4 DEF There
  <2>5. ~Mounted(s, <<d, 1>>)
    BY <2>3 DEF DisksOK, MountsOK, Mounted
  <2> QED BY <2>4, <2>5
<1>7. /\ Unmountings(x)
      /\ \A e \in s.mounts : e.dev = <<d, 1>> => \E c \in Range1(x) : c.point = e.point
      /\ is_raid_member(s, d) => \E c \in Range1(x) : c.point = MemberText(d)
  <2> DEFINE dev == <<d, 1>>
  <2>1. dev \in Dev /\ dev \in Parts /\ dev[1] = d /\ dev[2] = 1
    BY <1>4
  <2>2. is_raid_member(s, d) => ~Mounted(s, dev)
    BY <1>6
  <2> HIDE DEF dev
  <2>3. /\ Unmountings(UnmountSteps(s, dev))
        /\ \A e \in s.mounts : e.dev = dev => \E c \in Range1(UnmountSteps(s, dev)) : c.point = e.point
        /\ ~Mounted(s, dev) /\ dev \in Parts /\ dev[2] = 1 /\ is_raid_member(s, dev[1]) =>
             \E c \in Range1(UnmountSteps(s, dev)) : c.point = MemberText(dev[1])
    BY <2>1, UnmountStepsAre
  <2> QED BY <2>1, <2>2, <2>3 DEF dev
<1>8. Unmountings(y) /\ \A e \in s.mounts : e.dev = <<d, 2>> => \E c \in Range1(y) : c.point = e.point
  <2> DEFINE dev == <<d, 2>>
  <2>1. dev \in Dev
    BY <1>4
  <2> HIDE DEF dev
  <2>3. /\ Unmountings(UnmountSteps(s, dev))
        /\ \A e \in s.mounts : e.dev = dev => \E c \in Range1(UnmountSteps(s, dev)) : c.point = e.point
    BY <2>1, UnmountStepsAre
  <2> QED BY <2>3 DEF dev
<1> HIDE DEF n, x, y, u
<1>9. CASE n = 0
  <2>1. q = <<>>
    BY <1>3, <1>9, FewSeqs
  <2>2. u = <<>>
    BY <2>1, FlattenFew DEF u
  <2>3. Unmountings(u)
    BY <2>2 DEF Unmountings
  <2>4. Frees(s, d, u)
    BY <1>5, <1>6, <1>9, <2>3 DEF Frees
  <2> QED BY <2>4 DEF u
<1>10. CASE n = 1
  <2>1. q = <<q[1]>> /\ q[1] = x
    BY <1>3, <1>10, FewSeqs DEF x
  <2>2. u = x
    BY <2>1, FlattenFew DEF u
  <2>3. Frees(s, d, x)
    BY <1>5, <1>6, <1>7, <1>10 DEF Frees
  <2> QED BY <2>2, <2>3 DEF u
<1>11. CASE n = 2
  <2>1. q = <<q[1], q[2]>> /\ q[1] = x /\ q[2] = y
    BY <1>3, <1>11, FewSeqs DEF x, y
  <2>a. q = <<x, y>>
    BY <2>1
  <2>b. FlattenSeq(<<x, y>>) = x \o y
    BY FlattenFew
  <2>2. u = x \o y
    BY <2>a, <2>b DEF u
  <2>3. Unmountings(x \o y) /\ Range1(x) \subseteq Range1(x \o y) /\ Range1(y) \subseteq Range1(x \o y)
    BY <1>7, <1>8, JoinedUnmountings
  <2>4. Frees(s, d, u)
    BY <1>5, <1>6, <1>7, <1>8, <1>11, <2>2, <2>3 DEF Frees
  <2> QED BY <2>4 DEF u
<1> QED BY <1>1, <1>9, <1>10, <1>11

\* Erasing a disk behind what frees it.
LEMMA SoundErase ==
  ASSUME NEW s, NEW d \in Disks, NEW u, Frees(s, d, u), NEW w, w \in Seq(Steps), NEW t, t = u \o w, Len(w) >= 1,
         w[1].op = "erase", w[1].disk = d
  PROVE  Sound(s, t, Len(u) + 1)
<1> DEFINE k == Len(u) + 1
<1>1. u \in Seq(Steps) /\ Unmountings(u)
  BY DEF Frees, Unmountings
<1>2. 1 \in 1 .. Len(w)
  BY LenProperties
<1>3. BehindAt(u, w, t, 1)
  BY <1>1, <1>2, JoinedAt
<1>4. Earlier(w, 1) = {}
  <2>1. 1 .. 1 - 1 = {}
    OBVIOUS
  <2> QED BY <2>1 DEF Earlier
<1>5. t[k] = w[1] /\ Earlier(t, k) = Range1(u)
  BY <1>3, <1>4 DEF BehindAt
<1> HIDE DEF k
<1>6. \A x \in Range1(u) : x.op = "unmount"
  BY <1>1 DEF Unmountings, Range1
<1>7. t[k].op = "erase" /\ t[k].disk = d
  BY <1>5
<1>8. EraseAt(s, t, k)
  BY <1>5, <1>6, <1>7 DEF EraseAt, OnlyOps, Frees
<1>9. ReadyAt(s, t, k)
  BY <1>7, <1>8 DEF ReadyAt, EraseArrayAt, FormatPartsAt, MountPartsAt, UmountDeviceAt, RestAt, ExistingAt,
                    FstabAt, ChooseAt, CreateAt, AddAt, DeleteAt, NodeAt
<1>10. StepOK(t[k])
  BY <1>7 DEF StepOK, DevOps, MountOps, MdOps
<1>11. OrderAt(t, k)
  BY <1>7 DEF OrderAt, Decisions
<1> QED BY <1>9, <1>10, <1>11 DEF Sound, k

\* Initialising a disk.
LEMMA InitPlan ==
  ASSUME NEW s, DisksOK(s), Clean(s), NEW d \in Disks, NEW u, Frees(s, d, u)
  PROVE  PlanOK(s, u \o <<OnDisk("erase", d), OnDisk("mkpart", d), OnDisk("format parts", d)>>)
<1> DEFINE a == OnDisk("erase", d)
           b == OnDisk("mkpart", d)
           c == OnDisk("format parts", d)
           w == <<a, b, c>>
           t == u \o w
<1>0. "erase" \in Ops /\ "mkpart" \in Ops /\ "format parts" \in Ops
  BY OpsAre
<1>10. IsOnDisk(a, "erase", d)
  BY <1>0, OnDiskIs
<1>20. IsOnDisk(b, "mkpart", d)
  BY <1>0, OnDiskIs
<1>30. IsOnDisk(c, "format parts", d)
  BY <1>0, OnDiskIs
<1> HIDE DEF a, b, c
<1>1. Unmountings(u) /\ u \in Seq(Steps)
  BY DEF Frees, Unmountings
<1>2. a \in Steps /\ a.op = "erase" /\ a.disk = d
  BY <1>10 DEF IsOnDisk, IsStep
<1>3. b \in Steps /\ b.op = "mkpart" /\ b.disk = d
  BY <1>20 DEF IsOnDisk, IsStep
<1>4. c \in Steps /\ c.op = "format parts" /\ c.disk = d
  BY <1>30 DEF IsOnDisk, IsStep
<1>5. /\ w \in Seq(Steps) /\ Len(w) = 3 /\ w[1] = a /\ w[2] = b /\ w[3] = c
      /\ \A i \in 1 .. Len(w) : i = 1 \/ i = 2 \/ i = 3
  BY <1>2, <1>3, <1>4, ThreeSteps
<1> HIDE DEF w
<1>6. Len(u) \in Nat /\ Len(t) = Len(u) + Len(w)
  BY <1>1, <1>5, JoinedLen
<1>7. 1 \in 1 .. Len(w) /\ 2 \in 1 .. Len(w) /\ 3 \in 1 .. Len(w)
  BY <1>5
<1>8. BehindAt(u, w, t, 2) /\ BehindAt(u, w, t, 3)
  BY <1>1, <1>5, <1>7, JoinedAt
<1>9. Sound(s, t, Len(u) + 1)
  <2>1. Len(w) >= 1
    BY <1>5
  <2> QED BY <1>2, <1>5, <2>1, SoundErase
<1> HIDE DEF t
<1>11. Sound(s, t, Len(u) + 2)
  <2>1. t[Len(u) + 2].op \in PlainOps
    BY <1>3, <1>5, <1>8 DEF BehindAt, PlainOps
  <2> QED BY <2>1, SoundPlain
<1>12. Sound(s, t, Len(u) + 3)
  <2> DEFINE k == Len(u) + 3
  <2>1. t[k] = c /\ k > 1 /\ k - 1 = Len(u) + 2 /\ k = Len(t)
    BY <1>5, <1>6, <1>8 DEF BehindAt
  <2>2. t[Len(u) + 2] = b
    BY <1>5, <1>8 DEF BehindAt
  <2> HIDE DEF k
  <2>3. FormatPartsAt(s, t, k)
    BY <1>3, <1>4, <2>1, <2>2 DEF FormatPartsAt
  <2>4. ReadyAt(s, t, k)
    BY <1>4, <2>1, <2>3 DEF ReadyAt, EraseAt, EraseArrayAt, MountPartsAt, UmountDeviceAt, RestAt, ExistingAt,
                      FstabAt, ChooseAt, CreateAt, AddAt, DeleteAt, NodeAt
  <2>5. StepOK(t[k])
    BY <1>4, <2>1 DEF StepOK, DevOps, MountOps, MdOps
  <2>6. OrderAt(t, k)
    BY <1>4, <2>1 DEF OrderAt, Decisions
  <2> QED BY <2>4, <2>5, <2>6 DEF Sound, k
<1>13. PlanOK(s, t)
  BY <1>1, <1>5, <1>9, <1>11, <1>12, PrefixedPlan DEF t
<1> QED BY <1>13 DEF t, w, a, b, c

\* Unmounting by device what is not in use.
LEMMA SoundUmountDevice ==
  ASSUME NEW s, NEW t, NEW i, t[i].op = "umount device", t[i].dev \in Dev, ~Mounted(s, t[i].dev)
  PROVE  Sound(s, t, i)
<1>1. UmountDeviceAt(s, t, i)
  BY DEF UmountDeviceAt, Mounted
<1>2. ReadyAt(s, t, i)
  BY <1>1 DEF ReadyAt, EraseAt, EraseArrayAt, FormatPartsAt, MountPartsAt, RestAt, ExistingAt,
              FstabAt, ChooseAt, CreateAt, AddAt, DeleteAt, NodeAt
<1>3. StepOK(t[i])
  BY DEF StepOK, DevOps, MountOps, MdOps
<1>4. OrderAt(t, i)
  BY DEF OrderAt, Decisions
<1> QED BY <1>2, <1>3, <1>4 DEF Sound

\* Formatting the one partition of a new label.
LEMMA FormatPartsPlan ==
  ASSUME NEW s, DisksOK(s), Clean(s), NEW d \in Disks, s.parts[d] = 1, NEW dev, dev = <<d, 1>>, ~Mounted(s, dev)
  PROVE  PlanOK(s, <<On("umount device", dev), On("mkfs", dev), OnDisk("mount parts", d)>>)
<1> DEFINE a == On("umount device", dev)
           b == On("mkfs", dev)
           c == OnDisk("mount parts", d)
           t == <<a, b, c>>
<1>0. "umount device" \in Ops /\ "mkfs" \in Ops /\ "mount parts" \in Ops
  BY OpsAre
<1>1. dev \in Dev
  BY DevParts
<1>10. IsOn(a, "umount device", dev)
  BY <1>0, <1>1, OnIs
<1>20. IsOn(b, "mkfs", dev)
  BY <1>0, <1>1, OnIs
<1>30. IsOnDisk(c, "mount parts", d)
  BY <1>0, OnDiskIs
<1> HIDE DEF a, b, c
<1>2. a \in Steps /\ a.op = "umount device" /\ a.dev = dev
  BY <1>10 DEF IsOn, IsStep
<1>3. b \in Steps /\ b.op = "mkfs" /\ b.dev = dev
  BY <1>20 DEF IsOn, IsStep
<1>4. c \in Steps /\ c.op = "mount parts" /\ c.disk = d
  BY <1>30 DEF IsOnDisk, IsStep
<1>5. /\ t \in Seq(Steps) /\ Len(t) = 3 /\ t[1] = a /\ t[2] = b /\ t[3] = c
      /\ \A i \in 1 .. Len(t) : i = 1 \/ i = 2 \/ i = 3
  BY <1>2, <1>3, <1>4, ThreeSteps
<1> HIDE DEF t
<1>6. Sound(s, t, 1)
  BY <1>1, <1>2, <1>5, SoundUmountDevice
<1>7. Sound(s, t, 2)
  BY <1>1, <1>3, <1>5, SoundMkfs
<1>8. Sound(s, t, 3)
  <2>1. Earlier(t, 3) = {a, b}
    <3>1. 1 .. 3 - 1 = {1, 2}
      OBVIOUS
    <3> QED BY <3>1, <1>5 DEF Earlier
  <2>2. OnlyOps(t, 3, {"umount device", "mkfs"})
    BY <1>2, <1>3, <2>1 DEF OnlyOps
  <2>3. MountPartsAt(s, t, 3)
    BY <1>4, <1>5, <2>2 DEF MountPartsAt
  <2>4. ReadyAt(s, t, 3)
    BY <1>4, <1>5, <2>3 DEF ReadyAt, EraseAt, EraseArrayAt, FormatPartsAt, UmountDeviceAt, RestAt, ExistingAt,
                            FstabAt, ChooseAt, CreateAt, AddAt, DeleteAt, NodeAt
  <2>5. StepOK(t[3])
    BY <1>4, <1>5 DEF StepOK, DevOps, MountOps, MdOps
  <2>6. OrderAt(t, 3)
    BY <1>4, <1>5 DEF OrderAt, Decisions
  <2> QED BY <2>4, <2>5, <2>6 DEF Sound
<1>9. PlanOK(s, t)
  BY <1>5, <1>6, <1>7, <1>8, PlanList
<1> QED BY <1>9 DEF t, a, b, c

LEMMA CommitPlan ==
  ASSUME NEW s, Clean(s)
  PROVE  PlanOK(s, <<Step("commit and mount")>>)
<1> DEFINE a == Step("commit and mount")
           t == <<a>>
<1>0. "commit and mount" \in Ops
  BY OpsAre
<1>1. IsStep(a, "commit and mount")
  BY <1>0, StepIs
<1> HIDE DEF a
<1>2. a \in Steps /\ a.op = "commit and mount"
  BY <1>1 DEF IsStep
<1>3. t \in Seq(Steps) /\ Len(t) = 1 /\ t[1] = a /\ \A i \in 1 .. Len(t) : i = 1
  BY <1>2, OneStep
<1> HIDE DEF t
<1>4. t[1].op \in PlainOps
  BY <1>2, <1>3 DEF PlainOps
<1>5. Sound(s, t, 1)
  BY <1>4, SoundPlain
<1>6. PlanOK(s, t)
  BY <1>3, <1>5, PlanList
<1> QED BY <1>6 DEF t, a

\* A partition in the free space.
LEMMA AlignedType ==
  ASSUME NEW region \in FreeRegions
  PROVE  Aligned(region) \in Int \X Int
<1>1. region[1] \in Nat /\ region[2] \in Nat
  BY StorageAssumption
<1> DEFINE x == ((region[1] + 2047) \div 2048) * 2048
           y == IF region[2] < 512 THEN -1 ELSE ((region[2] - 512) \div 2048) * 2048
<1>2. x \in Int
  BY <1>1
<1>3. y \in Int
  BY <1>1
<1> HIDE DEF x, y
<1>4. <<x, y>> \in Int \X Int
  BY <1>2, <1>3
<1> QED BY <1>4 DEF Aligned, x, y

LEMMA InitRestPlan ==
  ASSUME NEW s, Clean(s), NEW d \in Disks, NEW region \in FreeRegions
  PROVE  PlanOK(s, <<[OnDisk("mkpart range", d) EXCEPT !.range = Aligned(region)], OnDisk("rest", d)>>)
<1> DEFINE a == OnDisk("mkpart range", d)
           b == OnDisk("rest", d)
           c == [a EXCEPT !.range = Aligned(region)]
           t == <<c, b>>
<1>0. "mkpart range" \in Ops /\ "rest" \in Ops
  BY OpsAre
<1>10. IsOnDisk(a, "mkpart range", d)
  BY <1>0, OnDiskIs
<1>20. IsOnDisk(b, "rest", d)
  BY <1>0, OnDiskIs
<1> HIDE DEF a, b
<1>1. Aligned(region) \in Int \X Int
  BY AlignedType
<1>2. c \in Steps /\ c.op = "mkpart range" /\ c.disk = d /\ c.range = Aligned(region)
  BY <1>1, <1>10 DEF IsOnDisk, IsStep, Steps
<1>3. b \in Steps /\ b.op = "rest" /\ b.disk = d
  BY <1>20 DEF IsOnDisk, IsStep
<1> HIDE DEF c
<1>4. t \in Seq(Steps) /\ Len(t) = 2 /\ t[1] = c /\ t[2] = b /\ \A i \in 1 .. Len(t) : i = 1 \/ i = 2
  BY <1>2, <1>3, TwoSteps
<1> HIDE DEF t
<1>5. Sound(s, t, 1)
  <2>1. ReadyAt(s, t, 1)
    BY <1>2, <1>4, FreeStep DEF BoundOps
  <2>2. StepOK(t[1])
    BY <1>2, <1>4 DEF StepOK, DevOps, MountOps, MdOps
  <2>3. OrderAt(t, 1)
    BY <1>2, <1>4 DEF OrderAt, Decisions
  <2> QED BY <2>1, <2>2, <2>3 DEF Sound
<1>6. Sound(s, t, 2)
  <2>0. 2 - 1 = 1 /\ 2 > 1
    OBVIOUS
  <2>1. RestAt(s, t, 2)
    BY <1>2, <1>3, <1>4, <2>0 DEF RestAt
  <2>2. ReadyAt(s, t, 2)
    BY <1>3, <1>4, <2>1 DEF ReadyAt, EraseAt, EraseArrayAt, FormatPartsAt, MountPartsAt, UmountDeviceAt, ExistingAt,
                            FstabAt, ChooseAt, CreateAt, AddAt, DeleteAt, NodeAt
  <2>3. StepOK(t[2])
    BY <1>3, <1>4 DEF StepOK, DevOps, MountOps, MdOps
  <2>4. OrderAt(t, 2)
    BY <1>3, <1>4 DEF OrderAt, Decisions
  <2> QED BY <2>2, <2>3, <2>4 DEF Sound
<1>7. PlanOK(s, t)
  BY <1>4, <1>5, <1>6, PlanList
<1> QED BY <1>7 DEF t, a, b, c

\* A new partition without a file system.
LEMMA NewRestPlan ==
  ASSUME NEW s, DisksOK(s), Clean(s), NEW dev \in Dev, ~Mounted(s, dev), dev # SysDev, NEW p \in Points \ {Overlay}
  PROVE  PlanOK(s, <<On("mkfs", dev), On("umount device", dev), AtPoint("fstab", dev, p),
                     AtPoint("mount or commit", dev, p), Step("commit and mount")>>)
<1> DEFINE a == On("mkfs", dev)
           b == On("umount device", dev)
           c == AtPoint("fstab", dev, p)
           g == AtPoint("mount or commit", dev, p)
           h == Step("commit and mount")
           t == <<a, b, c, g, h>>
<1>0. /\ "umount device" \in Ops /\ "mkfs" \in Ops /\ "fstab" \in Ops /\ "mount or commit" \in Ops
      /\ "commit and mount" \in Ops /\ p \in Points
  BY OpsAre
<1>10. IsOn(a, "mkfs", dev)
  BY <1>0, OnIs
<1>20. IsOn(b, "umount device", dev)
  BY <1>0, OnIs
<1>30. IsAtPoint(c, "fstab", dev, p)
  BY <1>0, AtPointIs
<1>40. IsAtPoint(g, "mount or commit", dev, p)
  BY <1>0, AtPointIs
<1>50. IsStep(h, "commit and mount")
  BY <1>0, StepIs
<1> HIDE DEF a, b, c, g, h
<1>1. a \in Steps /\ a.op = "mkfs" /\ a.dev = dev
  BY <1>10 DEF IsOn, IsStep
<1>2. b \in Steps /\ b.op = "umount device" /\ b.dev = dev
  BY <1>20 DEF IsOn, IsStep
<1>3. c \in Steps /\ c.op = "fstab" /\ c.dev = dev /\ c.point = p
  BY <1>30 DEF IsAtPoint, IsStep
<1>4. g \in Steps /\ g.op = "mount or commit" /\ g.dev = dev /\ g.point = p
  BY <1>40 DEF IsAtPoint, IsStep
<1>5. h \in Steps /\ h.op = "commit and mount"
  BY <1>50 DEF IsStep
<1>60. Five(t, a, b, c, g, h)
  BY <1>1, <1>2, <1>3, <1>4, <1>5, FiveSteps
<1> HIDE DEF t
<1>6. /\ t \in Seq(Steps) /\ Len(t) = 5 /\ t[1] = a /\ t[2] = b /\ t[3] = c /\ t[4] = g /\ t[5] = h
      /\ \A i \in 1 .. Len(t) : i = 1 \/ i = 2 \/ i = 3 \/ i = 4 \/ i = 5
  BY <1>60 DEF Five
<1>7. Sound(s, t, 1)
  BY <1>1, <1>6, SoundMkfs
<1>8. Sound(s, t, 2)
  BY <1>2, <1>6, SoundUmountDevice
<1>9. Sound(s, t, 3)
  <2>1. 3 + 1 = 4 /\ 3 < 5
    OBVIOUS
  <2>2. t[3 + 1].op \in Committing
    BY <2>1, <1>4, <1>6 DEF Committing
  <2> QED BY <2>1, <2>2, <1>3, <1>6, SoundFstab
<1>11. Sound(s, t, 4)
  <2>1. 4 + 1 = 5 /\ 4 < 5
    OBVIOUS
  <2>2. t[4 + 1].op = "commit and mount"
    BY <2>1, <1>5, <1>6
  <2> QED BY <2>1, <2>2, <1>4, <1>6, SoundMountOrCommit
<1>12. Sound(s, t, 5)
  <2>1. t[5].op \in PlainOps
    BY <1>5, <1>6 DEF PlainOps
  <2> QED BY <2>1, SoundPlain
<1>13. PlanOK(s, t)
  BY <1>6, <1>7, <1>8, <1>9, <1>11, <1>12, PlanList
<1> QED BY <1>13 DEF t, a, b, c, g, h

\* A new partition in which a file system is found.
LEMMA OldRestPlan ==
  ASSUME NEW s, DisksOK(s), Clean(s), NEW dev \in Dev, ~Mounted(s, dev), dev # SysDev,
         \A e \in s.fstab.file : e.dev = dev => e.point # Overlay
  PROVE  PlanOK(s, <<On("umount device", dev), On("fstab existing", dev)>>)
<1> DEFINE a == On("umount device", dev)
           b == On("fstab existing", dev)
           t == <<a, b>>
<1>0. "umount device" \in Ops /\ "fstab existing" \in Ops
  BY OpsAre
<1>10. IsOn(a, "umount device", dev)
  BY <1>0, OnIs
<1>20. IsOn(b, "fstab existing", dev)
  BY <1>0, OnIs
<1> HIDE DEF a, b
<1>1. a \in Steps /\ a.op = "umount device" /\ a.dev = dev
  BY <1>10 DEF IsOn, IsStep
<1>2. b \in Steps /\ b.op = "fstab existing" /\ b.dev = dev
  BY <1>20 DEF IsOn, IsStep
<1>3. t \in Seq(Steps) /\ Len(t) = 2 /\ t[1] = a /\ t[2] = b /\ \A i \in 1 .. Len(t) : i = 1 \/ i = 2
  BY <1>1, <1>2, TwoSteps
<1> HIDE DEF t
<1>4. Sound(s, t, 1)
  BY <1>1, <1>3, SoundUmountDevice
<1>5. Sound(s, t, 2)
  <2>1. Earlier(t, 2) = {a}
    <3>1. 1 .. 2 - 1 = {1}
      OBVIOUS
    <3> QED BY <3>1, <1>3 DEF Earlier
  <2>2. OnlyOps(t, 2, {"umount device"})
    BY <1>1, <2>1 DEF OnlyOps
  <2>3. ExistingAt(s, t, 2)
    BY <1>2, <1>3, <2>2 DEF ExistingAt
  <2>4. ReadyAt(s, t, 2)
    BY <1>2, <1>3, <2>3 DEF ReadyAt, EraseAt, EraseArrayAt, FormatPartsAt, MountPartsAt, UmountDeviceAt, RestAt,
                            FstabAt, ChooseAt, CreateAt, AddAt, DeleteAt, NodeAt
  <2>5. StepOK(t[2])
    BY <1>2, <1>3 DEF StepOK, DevOps, MountOps, MdOps
  <2>6. OrderAt(t, 2)
    BY <1>2, <1>3 DEF OrderAt, Decisions
  <2> QED BY <2>4, <2>5, <2>6 DEF Sound
<1>6. PlanOK(s, t)
  BY <1>3, <1>4, <1>5, PlanList
<1> QED BY <1>6 DEF t, a, b

\* Its mounting, where its entry says.
LEMMA ExistingPlans ==
  ASSUME NEW s, Clean(s), NEW dev \in Dev, dev # SysDev, NEW p \in Points \ {Overlay}
  PROVE  /\ PlanOK(s, <<AtPoint("fstab", dev, p), AtPoint("mount or commit", dev, p), Step("commit and mount")>>)
         /\ PlanOK(s, <<AtPoint("mount or commit", dev, p), Step("commit and mount")>>)
<1> DEFINE a == AtPoint("fstab", dev, p)
           b == AtPoint("mount or commit", dev, p)
           c == Step("commit and mount")
           t == <<a, b, c>>
           w == <<b, c>>
<1>0. "fstab" \in Ops /\ "mount or commit" \in Ops /\ "commit and mount" \in Ops /\ p \in Points
  BY OpsAre
<1>10. IsAtPoint(a, "fstab", dev, p)
  BY <1>0, AtPointIs
<1>20. IsAtPoint(b, "mount or commit", dev, p)
  BY <1>0, AtPointIs
<1>30. IsStep(c, "commit and mount")
  BY <1>0, StepIs
<1> HIDE DEF a, b, c
<1>1. a \in Steps /\ a.op = "fstab" /\ a.dev = dev /\ a.point = p
  BY <1>10 DEF IsAtPoint, IsStep
<1>2. b \in Steps /\ b.op = "mount or commit" /\ b.dev = dev /\ b.point = p
  BY <1>20 DEF IsAtPoint, IsStep
<1>3. c \in Steps /\ c.op = "commit and mount"
  BY <1>30 DEF IsStep
<1>4. /\ t \in Seq(Steps) /\ Len(t) = 3 /\ t[1] = a /\ t[2] = b /\ t[3] = c
      /\ \A i \in 1 .. Len(t) : i = 1 \/ i = 2 \/ i = 3
  BY <1>1, <1>2, <1>3, ThreeSteps
<1>5. w \in Seq(Steps) /\ Len(w) = 2 /\ w[1] = b /\ w[2] = c /\ \A i \in 1 .. Len(w) : i = 1 \/ i = 2
  BY <1>2, <1>3, TwoSteps
<1> HIDE DEF t, w
<1>n. 1 + 1 = 2 /\ 2 + 1 = 3 /\ 1 < 2 /\ 2 < 3 /\ 1 < 3
  OBVIOUS
<1>6. Sound(s, t, 1)
  <2>1. t[1 + 1].op \in Committing
    BY <1>n, <1>2, <1>4 DEF Committing
  <2> QED BY <1>n, <2>1, <1>1, <1>4, SoundFstab
<1>7. Sound(s, t, 2)
  <2>1. t[2 + 1].op = "commit and mount"
    BY <1>n, <1>3, <1>4
  <2> QED BY <1>n, <2>1, <1>2, <1>4, SoundMountOrCommit
<1>8. Sound(s, t, 3)
  <2>1. t[3].op \in PlainOps
    BY <1>3, <1>4 DEF PlainOps
  <2> QED BY <2>1, SoundPlain
<1>9. Sound(s, w, 1)
  <2>1. w[1 + 1].op = "commit and mount"
    BY <1>n, <1>3, <1>5
  <2> QED BY <1>n, <2>1, <1>2, <1>5, SoundMountOrCommit
<1>11. Sound(s, w, 2)
  <2>1. w[2].op \in PlainOps
    BY <1>3, <1>5 DEF PlainOps
  <2> QED BY <2>1, SoundPlain
<1>12. PlanOK(s, t)
  BY <1>4, <1>6, <1>7, <1>8, PlanList
<1>13. PlanOK(s, w)
  BY <1>5, <1>9, <1>11, PlanList
<1> QED BY <1>12, <1>13 DEF t, w, a, b, c

\* The overlay of the next boot.
LEMMA OverlayPlan ==
  ASSUME NEW s, Clean(s), NEW dev \in Dev, dev # SysDev, There(s, dev), \A e \in s.fstab.staged : e.point # Overlay
  PROVE  PlanOK(s, <<AtPoint("fstab", dev, Overlay), Step("commit")>>)
<1> DEFINE a == AtPoint("fstab", dev, Overlay)
           b == Step("commit")
           t == <<a, b>>
<1>0. "fstab" \in Ops /\ "commit" \in Ops /\ Overlay \in Points
  BY OpsAre DEF Points
<1>10. IsAtPoint(a, "fstab", dev, Overlay)
  BY <1>0, AtPointIs
<1>20. IsStep(b, "commit")
  BY <1>0, StepIs
<1> HIDE DEF a, b
<1>1. a \in Steps /\ a.op = "fstab" /\ a.dev = dev /\ a.point = Overlay
  BY <1>10 DEF IsAtPoint, IsStep
<1>2. b \in Steps /\ b.op = "commit"
  BY <1>20 DEF IsStep
<1>3. t \in Seq(Steps) /\ Len(t) = 2 /\ t[1] = a /\ t[2] = b /\ \A i \in 1 .. Len(t) : i = 1 \/ i = 2
  BY <1>1, <1>2, TwoSteps
<1> HIDE DEF t
<1>4. Sound(s, t, 1)
  <2>1. FstabAt(s, t, 1)
    BY <1>1, <1>3 DEF FstabAt
  <2>2. ReadyAt(s, t, 1)
    BY <1>1, <1>3, <2>1 DEF ReadyAt, EraseAt, EraseArrayAt, FormatPartsAt, MountPartsAt, UmountDeviceAt, RestAt,
                            ExistingAt, ChooseAt, CreateAt, AddAt, DeleteAt, NodeAt
  <2>3. StepOK(t[1])
    BY <1>0, <1>1, <1>3 DEF StepOK, DevOps, MountOps, MdOps
  <2>4. 1 + 1 = 2 /\ 1 < 2
    OBVIOUS
  <2>5. OrderAt(t, 1)
    BY <1>1, <1>2, <1>3, <2>4 DEF OrderAt, Decisions, Committing
  <2> QED BY <2>2, <2>3, <2>5 DEF Sound
<1>5. Sound(s, t, 2)
  <2>1. t[2].op \in PlainOps
    BY <1>2, <1>3 DEF PlainOps
  <2> QED BY <2>1, SoundPlain
<1>6. PlanOK(s, t)
  BY <1>3, <1>4, <1>5, PlanList
<1> QED BY <1>6 DEF t, a, b

\* The making of an array.
LEMMA ChoosePlan ==
  ASSUME NEW s, Clean(s), NEW m \in Mds, m \notin s.node, s.made < MaxArrays, NEW ms \in Seq(Disks), ms # <<>>,
         \A k \in 1 .. Len(ms) : Wiped(s, ms[k])
  PROVE  PlanOK(s, <<OnArray("create", m, ms)>> \o Generate \o <<OnArray("format array", m, <<>>)>>)
<1> DEFINE a == OnArray("create", m, ms)
           b == Step("clear arrays")
           c == Step("scan")
           g == Step("commit mdadm")
           h == OnArray("format array", m, <<>>)
           t == <<a>> \o <<b, c, g>> \o <<h>>
<1>0. /\ "create" \in Ops /\ "clear arrays" \in Ops /\ "scan" \in Ops /\ "commit mdadm" \in Ops
      /\ "format array" \in Ops /\ <<>> \in Seq(Disks)
  BY OpsAre, EmptySeq
<1>10. IsOnArray(a, "create", m, ms)
  BY <1>0, OnArrayIs
<1>20. IsStep(b, "clear arrays")
  BY <1>0, StepIs
<1>30. IsStep(c, "scan")
  BY <1>0, StepIs
<1>40. IsStep(g, "commit mdadm")
  BY <1>0, StepIs
<1>50. IsOnArray(h, "format array", m, <<>>)
  BY <1>0, OnArrayIs
<1>g. Generate = <<b, c, g>>
  BY DEF Generate
<1> HIDE DEF a, b, c, g, h
<1>2. a \in Steps /\ a.op = "create" /\ a.md = m /\ a.members = ms
  BY <1>10 DEF IsOnArray, IsStep
<1>3. b \in Steps /\ b.op = "clear arrays" /\ c \in Steps /\ c.op = "scan" /\ g \in Steps /\ g.op = "commit mdadm"
  BY <1>20, <1>30, <1>40 DEF IsStep
<1>4. h \in Steps /\ h.op = "format array" /\ h.md = m
  BY <1>50 DEF IsOnArray, IsStep
<1>55. Five(t, a, b, c, g, h)
  BY <1>2, <1>3, <1>4, FiveJoined
<1> HIDE DEF t
<1>5. /\ t \in Seq(Steps) /\ Len(t) = 5 /\ t[1] = a /\ t[2] = b /\ t[3] = c /\ t[4] = g /\ t[5] = h
      /\ \A i \in 1 .. Len(t) : i = 1 \/ i = 2 \/ i = 3 \/ i = 4 \/ i = 5
  BY <1>55 DEF Five
<1>6. Sound(s, t, 1)
  <2>1. CreateAt(s, t, 1)
    BY <1>2, <1>5 DEF CreateAt
  <2>2. ReadyAt(s, t, 1)
    BY <1>2, <1>5, <2>1 DEF ReadyAt, EraseAt, EraseArrayAt, FormatPartsAt, MountPartsAt, UmountDeviceAt, RestAt,
                            ExistingAt, FstabAt, ChooseAt, AddAt, DeleteAt, NodeAt
  <2>3. StepOK(t[1])
    BY <1>2, <1>5 DEF StepOK, DevOps, MountOps, MdOps
  <2>4. OrderAt(t, 1)
    BY <1>2, <1>5 DEF OrderAt, Decisions
  <2> QED BY <2>2, <2>3, <2>4 DEF Sound
<1>7. t[2].op \in PlainOps /\ t[3].op \in PlainOps /\ t[4].op \in PlainOps
  BY <1>3, <1>5 DEF PlainOps
<1>8. Sound(s, t, 2) /\ Sound(s, t, 3) /\ Sound(s, t, 4)
  BY <1>7, SoundPlain
<1>9. Sound(s, t, 5)
  <2>1. StepOK(t[5]) /\ t[5].op \in Decisions /\ t[5].op \notin BoundOps /\ t[5].op # "take member"
    BY <1>4, <1>5 DEF StepOK, DevOps, MountOps, MdOps, Decisions, BoundOps
  <2> QED BY <1>5, <2>1, SoundDecision
<1>11. PlanOK(s, t)
  BY <1>5, <1>6, <1>8, <1>9, PlanList
<1> QED BY <1>g, <1>11 DEF a, h, t

-----------------------------------------------------------------------------
(* Every decision leaves a plan                                            *)

LEMMA AllDisksAre ==
  ASSUME NEW s, NEW dev \in getAllDisks(s) PROVE dev \in Dev
BY DEF getAllDisks

LEMMA MountPartitionDecided ==
  ASSUME NEW s, DisksOK(s), Clean(s), NEW dev \in Dev, NEW p \in Points \ {Overlay}
  PROVE  Decided(s, MountPartition(s, dev, p))
<1> DEFINE w == UnmountSteps(s, dev) \o <<AtPoint("remount", dev, p)>>
<1>1. PlanOK(s, w)
  BY RemountPlans
<1>2. MountPartition(s, dev, p) = Fail(s) \/ MountPartition(s, dev, p) = Then(s, w)
  BY DEF MountPartition
<1> HIDE DEF w
<1>3. Decided(s, Then(s, w))
  BY <1>1, ThenDecided
<1>4. Decided(s, Fail(s))
  BY FailDecided
<1> QED BY <1>2, <1>3, <1>4

LEMMA MountUnmountedDecided ==
  ASSUME NEW s, DisksOK(s), Clean(s), NEW dev \in Dev, NEW p \in Points \ {Overlay}
  PROVE  Decided(s, MountUnmounted(s, dev, p))
<1>1. CASE dev \notin getAllDisks(s) \/ get_mount_point(s, dev) # {}
  BY <1>1, FailDecided DEF MountUnmounted
<1>2. CASE dev \in getAllDisks(s) /\ get_mount_point(s, dev) = {}
  <2>1. dev # SysDev
    BY <1>2, NotInUse
  <2>2. PlanOK(s, MountSteps(dev, p))
    BY <2>1, MountStepsPlan
  <2>3. Decided(s, Then(s, MountSteps(dev, p)))
    BY <2>2, ThenDecided
  <2> QED BY <1>2, <2>3 DEF MountUnmounted
<1> QED BY <1>1, <1>2

LEMMA FormatDecided ==
  ASSUME NEW s, DisksOK(s), Clean(s), NEW dev
  PROVE  Decided(s, FormatByDevicePath(s, dev))
<1>1. CASE dev \notin getAllDisks(s)
  BY <1>1, FailDecided DEF FormatByDevicePath
<1>2. CASE dev \in getAllDisks(s)
  <2> DEFINE p == Generated(dev)
             w == UnmountSteps(s, dev) \o <<On("mkfs", dev), AtPoint("remount", dev, p)>>
  <2>1. dev \in Dev
    BY <1>2, AllDisksAre
  <2>2. p \in Points \ {Overlay}
    BY <2>1, PointsAre
  <2>3. FormatByDevicePath(s, dev) = Then(s, w)
    BY <1>2 DEF FormatByDevicePath
  <2> HIDE DEF p
  <2>4. PlanOK(s, w)
    BY <2>1, <2>2, RemountPlans
  <2> HIDE DEF w
  <2> QED BY <2>3, <2>4, ThenDecided
<1> QED BY <1>1, <1>2

LEMMA InitDiskDecided ==
  ASSUME NEW s, DisksOK(s), Clean(s), NEW d \in Disks
  PROVE  Decided(s, InitDisk(s, d))
<1> DEFINE q == [i \in 1 .. Len(PartsOf(s, d)) |-> UnmountSteps(s, PartsOf(s, d)[i])]
           u == FlattenSeq(q)
           w == u \o <<OnDisk("erase", d), OnDisk("mkpart", d), OnDisk("format parts", d)>>
<1>1. Frees(s, d, u)
  BY DiskUnmounts
<1>2. InitDisk(s, d) = Then(s, w)
  BY DEF InitDisk, ForEach
<1> HIDE DEF u
<1>3. PlanOK(s, w)
  BY <1>1, InitPlan
<1> HIDE DEF w
<1> QED BY <1>2, <1>3, ThenDecided

LEMMA RunningIsNoPart ==
  ASSUME NEW s, NEW dev, Running(s, dev) PROVE dev \notin Parts
BY DevParts DEF Running, Parts

LEMMA InitArrayDecided ==
  ASSUME NEW s, DisksOK(s), Clean(s), NEW dev \in Dev
  PROVE  Decided(s, InitArray(s, dev))
<1>1. CASE ~Running(s, dev)
  BY <1>1, FailDecided DEF InitArray
<1>2. CASE Running(s, dev)
  <2> DEFINE w == UnmountSteps(s, dev)
                  \o <<On("erase array", dev), On("mkfs", dev), AtPoint("mount unmounted", dev, Generated(dev))>>
  <2>1. PlanOK(s, w)
    BY <1>2, RunningIsNoPart, InitArrayPlan
  <2>2. InitArray(s, dev) = Then(s, w)
    BY <1>2 DEF InitArray
  <2> HIDE DEF w
  <2> QED BY <2>1, <2>2, ThenDecided
<1> QED BY <1>1, <1>2

\* The lists for the one partition of a new label.
LEMMA OnePart ==
  ASSUME NEW s, NEW d \in Disks, s.parts[d] = 1
  PROVE  Len(PartsOf(s, d)) = 1 /\ PartsOf(s, d)[1] = <<d, 1>>
BY DEF PartsOf

LEMMA OneFlat ==
  ASSUME NEW q, NEW a, q = [i \in 1 .. 1 |-> q[i]], q[1] = a
  PROVE  FlattenSeq(q) = a
<1>1. q = <<q[1]>>
  BY FewSeqs
<1>2. FlattenSeq(<<a>>) = a
  BY FlattenFew
<1>3. q = <<a>>
  BY <1>1
<1> QED BY <1>2, <1>3

\* Short lists put together.
LEMMA ThreeJoined ==
  ASSUME NEW a \in Steps, NEW b \in Steps, NEW c \in Steps
  PROVE  /\ <<a, b>> \o <<c>> = <<a, b, c>>
         /\ <<a>> \o <<b, c>> = <<a, b, c>>
         /\ <<>> \o <<b, c>> = <<b, c>>
         /\ <<>> \o <<c>> = <<c>>
         /\ SubSeq(<<a, b, c>>, 1, 2) = <<a, b>>
<1> DEFINE p == <<a>>
           q == <<a, b>>
           r == <<c>>
           v == <<b, c>>
           t == <<a, b, c>>
<1>1. p \in Seq(Steps) /\ Len(p) = 1 /\ p[1] = a
  OBVIOUS
<1>2. q \in Seq(Steps) /\ Len(q) = 2 /\ q[1] = a /\ q[2] = b
  OBVIOUS
<1>3. r \in Seq(Steps) /\ Len(r) = 1 /\ r[1] = c
  OBVIOUS
<1>4. v \in Seq(Steps) /\ Len(v) = 2 /\ v[1] = b /\ v[2] = c
  OBVIOUS
<1>5. t \in Seq(Steps) /\ Len(t) = 3 /\ t[1] = a /\ t[2] = b /\ t[3] = c
  OBVIOUS
<1> HIDE DEF p, q, r, v, t
<1>6. q \o r = t
  <2> DEFINE x == q \o r
  <2>1. x \in Seq(Steps) /\ Len(x) = Len(q) + Len(r)
    BY <1>2, <1>3, ConcatProperties
  <2>2. \A i \in 1 .. Len(q) + Len(r) : x[i] = IF i <= Len(q) THEN q[i] ELSE r[i - Len(q)]
    BY <1>2, <1>3, ConcatProperties
  <2> HIDE DEF x
  <2>3. Len(x) = 3 /\ x[1] = a /\ x[2] = b /\ x[3] = c
    BY <1>2, <1>3, <2>1, <2>2
  <2>4. \A i \in 1 .. Len(x) : x[i] = t[i]
    <3>1. \A i \in 1 .. 3 : i = 1 \/ i = 2 \/ i = 3
      OBVIOUS
    <3> QED BY <3>1, <1>5, <2>3
  <2>5. x = t
    BY <1>5, <2>1, <2>3, <2>4, SeqEqual
  <2> QED BY <2>5 DEF x
<1>7. p \o v = t
  <2> DEFINE x == p \o v
  <2>1. x \in Seq(Steps) /\ Len(x) = Len(p) + Len(v)
    BY <1>1, <1>4, ConcatProperties
  <2>2. \A i \in 1 .. Len(p) + Len(v) : x[i] = IF i <= Len(p) THEN p[i] ELSE v[i - Len(p)]
    BY <1>1, <1>4, ConcatProperties
  <2> HIDE DEF x
  <2>3. Len(x) = 3 /\ x[1] = a /\ x[2] = b /\ x[3] = c
    BY <1>1, <1>4, <2>1, <2>2
  <2>4. \A i \in 1 .. Len(x) : x[i] = t[i]
    <3>1. \A i \in 1 .. 3 : i = 1 \/ i = 2 \/ i = 3
      OBVIOUS
    <3> QED BY <3>1, <1>5, <2>3
  <2>5. x = t
    BY <1>5, <2>1, <2>3, <2>4, SeqEqual
  <2> QED BY <2>5 DEF x
<1>8. <<>> \o v = v /\ <<>> \o r = r
  BY <1>3, <1>4, ConcatEmptySeq
<1>9. SubSeq(t, 1, 2) = q
  <2> DEFINE x == SubSeq(t, 1, 2)
  <2>1. \A i \in 1 .. 2 : t[i] \in Steps
    <3>1. \A i \in 1 .. 2 : i = 1 \/ i = 2
      OBVIOUS
    <3> QED BY <3>1, <1>5
  <2>2. /\ x \in Seq(Steps) /\ Len(x) = IF 1 <= 2 THEN 2 - 1 + 1 ELSE 0
        /\ \A i \in 1 .. 2 - 1 + 1 : x[i] = t[1 + i - 1]
    BY <2>1, SubSeqProperties
  <2> HIDE DEF x
  <2>3. Len(x) = 2 /\ x[1] = a /\ x[2] = b
    BY <1>5, <2>2
  <2>4. \A i \in 1 .. Len(x) : x[i] = q[i]
    <3>1. \A i \in 1 .. 2 : i = 1 \/ i = 2
      OBVIOUS
    <3> QED BY <3>1, <1>2, <2>3
  <2>5. x = q
    BY <1>2, <2>2, <2>3, <2>4, SeqEqual
  <2> QED BY <2>5 DEF x
<1> QED BY <1>6, <1>7, <1>8, <1>9 DEF p, q, r, v, t

LEMMA FormatPartsDecided ==
  ASSUME NEW s, DisksOK(s), Clean(s), NEW d \in Disks, s.parts[d] = 1, ~Mounted(s, <<d, 1>>)
  PROVE  Decided(s, FormatParts(s, d))
<1> DEFINE F(x) == <<On("umount device", x), On("mkfs", x)>>
           q == [i \in 1 .. Len(PartsOf(s, d)) |-> F(PartsOf(s, d)[i])]
           dev == <<d, 1>>
           a == On("umount device", dev)
           b == On("mkfs", dev)
           c == OnDisk("mount parts", d)
<1>1. Len(PartsOf(s, d)) = 1 /\ PartsOf(s, d)[1] = dev
  BY OnePart
<1>2. F(dev) = <<a, b>>
  OBVIOUS
<1>3. FormatParts(s, d) = Then(s, FlattenSeq(q) \o <<c>>)
  BY DEF FormatParts, ForEach
<1>4. PlanOK(s, <<a, b, c>>)
  BY FormatPartsPlan
<1>0. "umount device" \in Ops /\ "mkfs" \in Ops /\ "mount parts" \in Ops /\ dev \in Dev
  BY OpsAre, DevParts
<1>10. a \in Steps /\ b \in Steps
  BY <1>0, OnIs DEF IsOn, IsStep
<1>11. c \in Steps
  BY <1>0, OnDiskIs DEF IsOnDisk, IsStep
<1> HIDE DEF F, a, b, c, dev
<1>12. q = [i \in 1 .. 1 |-> q[i]] /\ q[1] = F(dev)
  BY <1>1
<1> HIDE DEF q
<1>5. FlattenSeq(q) = <<a, b>>
  BY <1>2, <1>12, OneFlat
<1>6. <<a, b>> \o <<c>> = <<a, b, c>>
  BY <1>10, <1>11, ThreeJoined
<1>7. FormatParts(s, d) = Then(s, <<a, b, c>>)
  BY <1>3, <1>5, <1>6
<1> QED BY <1>4, <1>7, ThenDecided

LEMMA MountPartsDecided ==
  ASSUME NEW s, DisksOK(s), Clean(s), NEW d \in Disks, s.parts[d] = 1
  PROVE  Decided(s, MountParts(s, d))
<1> DEFINE F(x) == IF get_mount_point(s, x) # {} THEN <<>> ELSE SubSeq(MountSteps(x, Generated(x)), 1, 2)
           q == [i \in 1 .. Len(PartsOf(s, d)) |-> F(PartsOf(s, d)[i])]
           dev == <<d, 1>>
           p == Generated(dev)
           a == AtPoint("mount", dev, p)
           b == AtPoint("fstab", dev, p)
           c == Step("commit and mount")
<1>1. Len(PartsOf(s, d)) = 1 /\ PartsOf(s, d)[1] = dev
  BY OnePart
<1>3. MountParts(s, d) = Then(s, FlattenSeq(q) \o <<c>>)
  BY DEF MountParts, ForEach
<1>4. dev \in Dev
  BY DevParts
<1>5. p \in Points \ {Overlay}
  BY <1>4, PointsAre
<1>0. "mount" \in Ops /\ "fstab" \in Ops /\ "commit and mount" \in Ops /\ p \in Points
  BY <1>5, OpsAre
<1>10. a \in Steps /\ b \in Steps
  BY <1>0, <1>4, AtPointIs DEF IsAtPoint, IsStep
<1>11. c \in Steps
  BY <1>0, StepIs DEF IsStep
<1>12. MountSteps(dev, p) = <<a, b, c>>
  BY DEF MountSteps
<1> HIDE DEF p
<1>14. F(dev) = IF get_mount_point(s, dev) # {} THEN <<>> ELSE SubSeq(MountSteps(dev, p), 1, 2)
  BY DEF p
<1> HIDE DEF F, a, b, c, dev
<1>15. q = [i \in 1 .. 1 |-> q[i]] /\ q[1] = F(dev)
  BY <1>1
<1> HIDE DEF q
<1>16. FlattenSeq(q) = F(dev)
  BY <1>15, OneFlat
<1>17. CASE get_mount_point(s, dev) # {}
  <2>1. F(dev) = <<>>
    BY <1>14, <1>17
  <2>2. <<>> \o <<c>> = <<c>>
    BY <1>11, ThreeJoined
  <2>3. MountParts(s, d) = Then(s, <<c>>)
    BY <1>3, <1>16, <2>1, <2>2
  <2>4. PlanOK(s, <<c>>)
    BY CommitPlan DEF c
  <2> QED BY <2>3, <2>4, ThenDecided
<1>18. CASE get_mount_point(s, dev) = {}
  <2>1. F(dev) = SubSeq(<<a, b, c>>, 1, 2)
    BY <1>12, <1>14, <1>18
  <2>2. SubSeq(<<a, b, c>>, 1, 2) = <<a, b>>
    BY <1>10, <1>11, ThreeJoined
  <2>3. <<a, b>> \o <<c>> = <<a, b, c>>
    BY <1>10, <1>11, ThreeJoined
  <2>4. MountParts(s, d) = Then(s, <<a, b, c>>)
    BY <1>3, <1>16, <2>1, <2>2, <2>3
  <2>5. dev # SysDev
    BY <1>18, NotInUse
  <2>6. PlanOK(s, <<a, b, c>>)
    BY <1>4, <1>5, <1>12, <2>5, MountStepsPlan
  <2> QED BY <2>4, <2>6, ThenDecided
<1> QED BY <1>17, <1>18

LEMMA MountUnmountedArrayDecided ==
  ASSUME NEW s, DisksOK(s), Clean(s), NEW dev \in Dev
  PROVE  Decided(s, MountUnmountedArray(s, dev))
<1> DEFINE p == Generated(dev)
           c == Step("commit and mount")
<1>1. p \in Points \ {Overlay}
  BY PointsAre
<1>2. PlanOK(s, <<c>>)
  BY CommitPlan
<1>3. CASE get_mount_point(s, dev) # {}
  <2>1. MountUnmountedArray(s, dev) = Then(s, <<c>>)
    BY <1>3 DEF MountUnmountedArray
  <2> HIDE DEF c
  <2> QED BY <1>2, <2>1, ThenDecided
<1>4. CASE get_mount_point(s, dev) = {}
  <2>1. MountUnmountedArray(s, dev) = Then(s, MountSteps(dev, p))
    BY <1>4 DEF MountUnmountedArray
  <2>2. dev # SysDev
    BY <1>4, NotInUse
  <2> HIDE DEF p
  <2>3. PlanOK(s, MountSteps(dev, p))
    BY <1>1, <2>2, MountStepsPlan
  <2> QED BY <2>1, <2>3, ThenDecided
<1> QED BY <1>3, <1>4

LEMMA InitDiskRestDecided ==
  ASSUME NEW s, DisksOK(s), Clean(s), NEW d \in Disks, NEW region \in FreeRegions
  PROVE  Decided(s, InitDiskRest(s, d, region))
<1> DEFINE w == <<[OnDisk("mkpart range", d) EXCEPT !.range = Aligned(region)], OnDisk("rest", d)>>
<1>1. PlanOK(s, w)
  BY InitRestPlan
<1>2. InitDiskRest(s, d, region) = Fail(s) \/ InitDiskRest(s, d, region) = Then(s, w)
  BY DEF InitDiskRest
<1> HIDE DEF w
<1>3. Decided(s, Then(s, w))
  BY <1>1, ThenDecided
<1>4. Decided(s, Fail(s))
  BY FailDecided
<1> QED BY <1>2, <1>3, <1>4

LEMMA RestDecided ==
  ASSUME NEW s, DisksOK(s), Clean(s), NEW d \in Disks, FreshPart(s, <<d, s.parts[d]>>)
  PROVE  Decided(s, RestPartition(s, d))
<1> DEFINE dev == <<d, s.parts[d]>>
           p == Generated(dev)
           w == <<On("mkfs", dev), On("umount device", dev), AtPoint("fstab", dev, p),
                  AtPoint("mount or commit", dev, p), Step("commit and mount")>>
           v == <<On("umount device", dev), On("fstab existing", dev)>>
<1>1. CASE s.parts[d] = 0
  <2>1. RestPartition(s, d) = Fail(s)
    BY <1>1 DEF RestPartition
  <2> QED BY <2>1, FailDecided
<1>2. CASE s.parts[d] # 0
  <2>1. s \in Storage
    BY DEF DisksOK
  <2>2. s.parts[d] = 1 \/ s.parts[d] = 2
    BY <1>2, <2>1, PartsNumber
  <2>3. dev \in Dev
    BY <2>2, DevParts
  <2>4. ~Mounted(s, dev) /\ (s.fs[dev] = "ext4" => \A e \in s.fstab.file : e.dev = dev => e.point # Overlay)
    BY DEF FreshPart
  <2>5. dev # SysDev
    <3>1. Mounted(s, SysDev)
      BY DEF DisksOK, MountsOK, Mounted
    <3> HIDE DEF dev
    <3> QED BY <2>4, <3>1
  <2>6. p \in Points \ {Overlay}
    BY <2>3, PointsAre
  <2>7. s.fs[dev] = "none" \/ s.fs[dev] = "ext4"
    <3> HIDE DEF dev
    <3>1. s.fs \in [Dev -> {"none", "ext4"}]
      BY <2>1 DEF Storage
    <3> QED BY <2>3, <3>1
  <2>8. RestPartition(s, d) = IF s.fs[dev] = "none" THEN Then(s, w) ELSE Then(s, v)
    BY <1>2 DEF RestPartition
  <2> HIDE DEF dev, p
  <2>9. CASE s.fs[dev] = "none"
    <3>1. PlanOK(s, w)
      BY <2>3, <2>4, <2>5, <2>6, NewRestPlan
    <3> HIDE DEF w
    <3> QED BY <2>8, <2>9, <3>1, ThenDecided
  <2>10. CASE s.fs[dev] = "ext4"
    <3>1. PlanOK(s, v)
      BY <2>3, <2>4, <2>5, <2>10, OldRestPlan
    <3>2. RestPartition(s, d) = Then(s, v)
      BY <2>8, <2>10
    <3> HIDE DEF v
    <3> QED BY <3>1, <3>2, ThenDecided
  <2> QED BY <2>7, <2>9, <2>10
<1> QED BY <1>1, <1>2

LEMMA ExistingDecided ==
  ASSUME NEW s, DisksOK(s), Clean(s), NEW dev \in Dev, dev # SysDev,
         \A e \in s.fstab.file : e.dev = dev => e.point # Overlay
  PROVE  Decided(s, FstabExisting(s, dev))
<1> DEFINE found == loadFstabMounts(s, dev)
           p == IF found = {} THEN Generated(dev) ELSE (CHOOSE e \in found : TRUE).point
           a == AtPoint("fstab", dev, p)
           b == AtPoint("mount or commit", dev, p)
           c == Step("commit and mount")
           x == IF found = {} THEN <<a>> ELSE <<>>
<1>1. p \in Points \ {Overlay}
  <2>1. CASE found = {}
    BY <2>1, PointsAre
  <2>2. CASE found # {}
    <3>1. PICK e \in found : p = e.point
      BY <2>2
    <3>2. e \in s.fstab.file /\ e.dev = dev
      BY <3>1 DEF loadFstabMounts
    <3>3. e.point \in Points
      BY <3>2 DEF DisksOK, Storage, Entry
    <3> QED BY <3>1, <3>2, <3>3
  <2> QED BY <2>1, <2>2
<1>2. FstabExisting(s, dev) = Then(s, x \o <<b, c>>)
  BY DEF FstabExisting
<1> HIDE DEF p
<1>0. "fstab" \in Ops /\ "mount or commit" \in Ops /\ "commit and mount" \in Ops /\ p \in Points
  BY <1>1, OpsAre
<1>3. a \in Steps /\ b \in Steps
  BY <1>0, AtPointIs DEF IsAtPoint, IsStep
<1>4. c \in Steps
  BY <1>0, StepIs DEF IsStep
<1>5. PlanOK(s, <<a, b, c>>)
  BY <1>1, ExistingPlans
<1>6. PlanOK(s, <<b, c>>)
  BY <1>1, ExistingPlans
<1> HIDE DEF a, b, c, found
<1>7. <<a>> \o <<b, c>> = <<a, b, c>>
  BY <1>3, <1>4, ThreeJoined
<1>8. <<>> \o <<b, c>> = <<b, c>>
  BY <1>3, <1>4, ThreeJoined
<1>9. x \o <<b, c>> = <<a, b, c>> \/ x \o <<b, c>> = <<b, c>>
  BY <1>7, <1>8
<1>10. PlanOK(s, x \o <<b, c>>)
  BY <1>5, <1>6, <1>9
<1> HIDE DEF x
<1> QED BY <1>2, <1>10, ThenDecided

LEMMA FormatPartitionDecided ==
  ASSUME NEW s, DisksOK(s), Clean(s), NEW dev \in Parts
  PROVE  Decided(s, FormatPartition(s, dev))
<1> DEFINE w == UnmountSteps(s, dev) \o <<On("mkfs", dev), On("overlay", dev)>>
<1>1. dev \in Dev
  BY DevParts
<1>2. PlanOK(s, w)
  BY <1>1, SandboxPlan
<1>3. FormatPartition(s, dev) = Fail(s) \/ FormatPartition(s, dev) = Then(s, w)
  BY DEF FormatPartition
<1> HIDE DEF w
<1>4. Decided(s, Then(s, w))
  BY <1>2, ThenDecided
<1>5. Decided(s, Fail(s))
  BY FailDecided
<1> QED BY <1>3, <1>4, <1>5

LEMMA OverlayDecided ==
  ASSUME NEW s, DisksOK(s), Clean(s), NEW dev \in Parts
  PROVE  Decided(s, AddOverlay(s, dev))
<1> DEFINE r == ClearOverlayMounts(s)
           w == <<AtPoint("fstab", dev, Overlay), Step("commit")>>
<1>1. CASE dev \notin getAllDisks(s) \/ get_mount_point(s, dev) # {}
  BY <1>1, FailDecided DEF AddOverlay
<1>2. CASE dev \in getAllDisks(s) /\ get_mount_point(s, dev) = {}
  <2>1. dev \in Dev
    BY DevParts
  <2>2. There(s, dev)
    BY <1>2 DEF getAllDisks, Exists, There
  <2>3. dev # SysDev
    BY <1>2, NotInUse
  <2>4. /\ Fine(s, r) /\ r.fstab.staged = r.fstab.file /\ r.parts = s.parts
        /\ \A e \in r.fstab.staged : e.point # Overlay
    BY ClearOverlayFine DEF Clean
  <2>5. AddOverlay(s, dev) = Then(r, w)
    BY <1>2 DEF AddOverlay
  <2> HIDE DEF r
  <2>6. Clean(r) /\ There(r, dev)
    BY <2>2, <2>4 DEF Clean, There
  <2>7. PlanOK(r, w)
    BY <2>1, <2>3, <2>4, <2>6, OverlayPlan
  <2> HIDE DEF w
  <2>8. Then(r, w).ok /\ Then(r, w).s = r /\ Then(r, w).more = w
    BY DEF Then
  <2>9. Decided(s, Then(r, w))
    BY <2>4, <2>7, <2>8 DEF Decided
  <2> QED BY <2>5, <2>9
<1> QED BY <1>1, <1>2

LEMMA ChooseDecided ==
  ASSUME NEW s, DisksOK(s), Clean(s), NEW ms \in Seq(Disks), ms # <<>>, s.made < MaxArrays,
         \A k \in 1 .. Len(ms) : Wiped(s, ms[k])
  PROVE  Decided(s, ChooseMd(s, ms))
<1>1. CASE findFreeMd(s, 0) = {}
  BY <1>1, FailDecided DEF ChooseMd
<1>2. CASE findFreeMd(s, 0) # {}
  <2> DEFINE m == CHOOSE m \in findFreeMd(s, 0) : TRUE
             w == <<OnArray("create", m, ms)>> \o Generate \o <<OnArray("format array", m, <<>>)>>
             free == {n \in Mds : n >= 0 /\ n \notin s.node}
             least == CHOOSE n \in free : \A k \in free : n <= k
  <2>1. free # {} /\ findFreeMd(s, 0) = {least}
    BY <1>2 DEF findFreeMd
  <2>2. free \subseteq Nat
    BY BlockDevAssumption
  <2>3. \E n \in free : \A k \in free : n <= k
    <3> HIDE DEF free
    <3> QED BY <2>1, <2>2, LeastNat
  <2>4. least \in free
    <3> HIDE DEF free
    <3> QED BY <2>3
  <2>5. m = least
    <3> HIDE DEF least
    <3> QED BY <2>1
  <2>6. m \in Mds /\ m \notin s.node
    <3> HIDE DEF m, least
    <3> QED BY <2>4, <2>5
  <2>7. ChooseMd(s, ms) = Then(s, w)
    BY <1>2 DEF ChooseMd
  <2> HIDE DEF m
  <2>8. PlanOK(s, w)
    BY <2>6, ChoosePlan
  <2> HIDE DEF w
  <2> QED BY <2>7, <2>8, ThenDecided
<1> QED BY <1>1, <1>2

-----------------------------------------------------------------------------
(* The decision of a plan                                                  *)

\* What a decision finds when its turn comes.
Due(s, c) ==
  /\ Clean(s)
  /\ c.op = "format parts" => s.parts[c.disk] = 1 /\ ~Mounted(s, <<c.disk, 1>>)
  /\ c.op = "mount parts" => s.parts[c.disk] = 1
  /\ c.op = "rest" => FreshPart(s, <<c.disk, s.parts[c.disk]>>)
  /\ c.op = "fstab existing" => c.dev # SysDev /\ \A e \in s.fstab.file : e.dev = c.dev => e.point # Overlay
  /\ c.op = "choose md" => s.made < MaxArrays /\ \A k \in 1 .. Len(c.members) : Wiped(s, c.members[k])

LEMMA DueFirst ==
  ASSUME NEW s, NEW t, PlanOK(s, t), t # <<>>, NEW c, c = Head(t), c.op \in Decisions
  PROVE  Due(s, c) /\ (c.op # "take member" => Len(t) = 1)
<1>1. t \in Seq(Steps) /\ Len(t) \in Nat /\ Len(t) >= 1 /\ Head(t) = t[1]
  BY TailIs DEF PlanOK
<1>2. 1 \in 1 .. Len(t)
  BY <1>1
<1>3. OrderAt(t, 1) /\ ReadyAt(s, t, 1)
  BY <1>2 DEF PlanOK, OrderOK
<1>4. t[1] = c
  BY <1>1
<1>5. Earlier(t, 1) = {}
  <2>1. 1 .. 1 - 1 = {}
    OBVIOUS
  <2> QED BY <2>1 DEF Earlier
<1>6. Clean(s)
  <2>1. c.op \notin Committing
    BY DEF Committing, Decisions
  <2>2. StagedOK(s, t)
    BY DEF PlanOK
  <2> QED BY <2>1, <2>2 DEF StagedOK
<1>7. ~(1 > 1)
  OBVIOUS
<1>8. c.op = "format parts" => s.parts[c.disk] = 1 /\ ~Mounted(s, <<c.disk, 1>>)
  BY <1>3, <1>4, <1>7 DEF ReadyAt, FormatPartsAt
<1>9. c.op = "mount parts" => s.parts[c.disk] = 1
  BY <1>3, <1>4 DEF ReadyAt, MountPartsAt
<1>10. c.op = "rest" => FreshPart(s, <<c.disk, s.parts[c.disk]>>)
  BY <1>3, <1>4, <1>7 DEF ReadyAt, RestAt
<1>11. c.op = "fstab existing" => c.dev # SysDev /\ \A e \in s.fstab.file : e.dev = c.dev => e.point # Overlay
  BY <1>3, <1>4 DEF ReadyAt, ExistingAt
<1>12. ASSUME c.op = "choose md"
       PROVE  s.made < MaxArrays /\ \A k \in 1 .. Len(c.members) : Wiped(s, c.members[k])
  <2>1. ChooseAt(s, t, 1)
    BY <1>3 DEF ReadyAt
  <2> QED BY <1>4, <1>5, <1>12, <2>1 DEF ChooseAt
<1>13. c.op # "take member" => Len(t) = 1
  BY <1>3, <1>4 DEF OrderAt
<1> QED BY <1>6, <1>8, <1>9, <1>10, <1>11, <1>12, <1>13 DEF Due

LEMMA DecisionGood ==
  ASSUME NEW s, DisksOK(s), NEW c \in Steps, StepOK(c), Due(s, c), c.op \in Decisions, c.op # "take member"
  PROVE  Decided(s, Outcome(s, c))
<1>0. Clean(s) /\ c.disk \in Disks /\ c.members \in Seq(Disks)
  BY DEF Due, Steps
<1>1. c.op \in DevOps => c.dev \in Dev
  BY DEF StepOK
<1>2. CASE c.op = "mount partition"
  <2>1. c.dev \in Dev /\ c.point \in Points \ {Overlay}
    BY <1>1, <1>2 DEF StepOK, DevOps, MountOps
  <2>2. Outcome(s, c) = MountPartition(s, c.dev, c.point)
    BY <1>2, DecideIs
  <2> QED BY <1>0, <2>1, <2>2, MountPartitionDecided
<1>3. CASE c.op = "remount"
  <2>1. c.dev \in Dev /\ c.point \in Points \ {Overlay}
    BY <1>1, <1>3 DEF StepOK, DevOps, MountOps
  <2>2. Outcome(s, c) = MountUnmounted(s, c.dev, c.point)
    BY <1>3, DecideIs
  <2> QED BY <1>0, <2>1, <2>2, MountUnmountedDecided
<1>4. CASE c.op = "format"
  <2>1. Outcome(s, c) = FormatByDevicePath(s, c.dev)
    BY <1>4, DecideIs
  <2> QED BY <1>0, <2>1, FormatDecided
<1>5. CASE c.op = "format array"
  <2>1. Outcome(s, c) = FormatByDevicePath(s, ArrayOn(s, c.md))
    BY <1>5, DecideIs
  <2> QED BY <1>0, <2>1, FormatDecided
<1>6. CASE c.op = "init"
  <2>1. Outcome(s, c) = InitDisk(s, c.disk)
    BY <1>6, DecideIs
  <2> QED BY <1>0, <2>1, InitDiskDecided
<1>7. CASE c.op = "init array"
  <2>1. Outcome(s, c) = InitArray(s, c.dev)
    BY <1>7, DecideIs
  <2>2. c.dev \in Dev
    BY <1>1, <1>7 DEF DevOps
  <2> QED BY <1>0, <2>1, <2>2, InitArrayDecided
<1>8. CASE c.op = "format parts"
  <2>1. Outcome(s, c) = FormatParts(s, c.disk)
    BY <1>8, DecideIs
  <2>2. s.parts[c.disk] = 1 /\ ~Mounted(s, <<c.disk, 1>>)
    BY <1>8 DEF Due
  <2> QED BY <1>0, <2>1, <2>2, FormatPartsDecided
<1>9. CASE c.op = "mount parts"
  <2>1. Outcome(s, c) = MountParts(s, c.disk)
    BY <1>9, DecideIs
  <2>2. s.parts[c.disk] = 1
    BY <1>9 DEF Due
  <2> QED BY <1>0, <2>1, <2>2, MountPartsDecided
<1>10. CASE c.op = "mount unmounted"
  <2>1. Outcome(s, c) = MountUnmountedArray(s, c.dev)
    BY <1>10, DecideIs
  <2>2. c.dev \in Dev
    BY <1>1, <1>10 DEF DevOps
  <2> QED BY <1>0, <2>1, <2>2, MountUnmountedArrayDecided
<1>11. CASE c.op = "init rest"
  <2>1. Outcome(s, c) = InitDiskRest(s, c.disk, c.range)
    BY <1>11, DecideIs
  <2>2. c.range \in FreeRegions
    BY <1>11 DEF StepOK
  <2> QED BY <1>0, <2>1, <2>2, InitDiskRestDecided
<1>12. CASE c.op = "rest"
  <2>1. Outcome(s, c) = RestPartition(s, c.disk)
    BY <1>12, DecideIs
  <2>2. FreshPart(s, <<c.disk, s.parts[c.disk]>>)
    BY <1>12 DEF Due
  <2> QED BY <1>0, <2>1, <2>2, RestDecided
<1>13. CASE c.op = "fstab existing"
  <2>1. Outcome(s, c) = FstabExisting(s, c.dev)
    BY <1>13, DecideIs
  <2>2. c.dev \in Dev /\ c.dev # SysDev /\ \A e \in s.fstab.file : e.dev = c.dev => e.point # Overlay
    BY <1>1, <1>13 DEF Due, DevOps
  <2> QED BY <1>0, <2>1, <2>2, ExistingDecided
<1>14. CASE c.op = "format partition"
  <2>1. Outcome(s, c) = FormatPartition(s, c.dev)
    BY <1>14, DecideIs
  <2>2. c.dev \in Parts
    BY <1>14 DEF StepOK
  <2> QED BY <1>0, <2>1, <2>2, FormatPartitionDecided
<1>15. CASE c.op = "overlay"
  <2>1. Outcome(s, c) = AddOverlay(s, c.dev)
    BY <1>15, DecideIs
  <2>2. c.dev \in Parts
    BY <1>15 DEF StepOK
  <2> QED BY <1>0, <2>1, <2>2, OverlayDecided
<1>16. CASE c.op = "choose md"
  <2>1. Outcome(s, c) = ChooseMd(s, c.members)
    BY <1>16, DecideIs
  <2>2. c.members # <<>>
    BY <1>16 DEF StepOK
  <2>3. s.made < MaxArrays /\ \A k \in 1 .. Len(c.members) : Wiped(s, c.members[k])
    BY <1>16 DEF Due
  <2> QED BY <1>0, <2>1, <2>2, <2>3, ChooseDecided
<1> QED BY <1>2, <1>3, <1>4, <1>5, <1>6, <1>7, <1>8, <1>9, <1>10, <1>11, <1>12, <1>13, <1>14, <1>15, <1>16 DEF Decisions

-----------------------------------------------------------------------------
(* The disks of a new array                                                *)

\* The plan x has at n what t has at i, with other steps in the place of the
\* first one of t.
Moved(x, n, t, i) ==
  /\ x[n] = t[i] /\ i > 1 /\ n > 1 /\ t[1].op = "take member" /\ t[1] \in Earlier(t, i)
  /\ \A c \in Earlier(x, n) : c.op \in {"unmount", "erase", "mkraid"} \/ c \in Earlier(t, i)
  /\ \A c \in Earlier(t, i) : c \in Earlier(x, n) \/ c = t[1]
  /\ \E c \in Earlier(x, n) : c.op = "erase" /\ c.disk = t[1].disk
  /\ i - 1 = 1 \/ x[n - 1] = t[i - 1]
  /\ i < Len(t) => n < Len(x) /\ x[n + 1] = t[i + 1]
  /\ i = Len(t) => n = Len(x)

LEMMA SoundMoved ==
  ASSUME NEW s, NEW x, NEW n \in Nat, NEW t, NEW i \in Nat, Moved(x, n, t, i), Sound(s, t, i)
  PROVE  Sound(s, x, n)
<1> DEFINE c == t[i]
<1>1. x[n] = c /\ StepOK(c) /\ OrderAt(t, i) /\ ReadyAt(s, t, i)
  BY DEF Moved, Sound
<1>2. StepOK(x[n])
  BY <1>1
<1>3. OrderAt(x, n)
  BY DEF OrderAt, Moved, Sound
<1>4. \A ops : "take member" \notin ops => ~OnlyOps(t, i, ops)
  BY DEF OnlyOps, Moved
<1>5. c.op \notin {"erase", "erase array", "mount parts", "fstab existing", "add", "delete", "remove node"}
  <2>1. ~OnlyOps(t, i, {"unmount"}) /\ ~OnlyOps(t, i, {"umount device", "mkfs"}) /\ ~OnlyOps(t, i, {"umount device"})
    BY <1>4
  <2>2. ~OnlyOps(t, i, {"erase", "mkraid"}) /\ ~OnlyOps(t, i, {"umount path"}) /\ ~OnlyOps(t, i, {"umount path", "delete"})
    BY <1>4
  <2>3. c.op # "erase" /\ c.op # "erase array"
    BY <1>1, <2>1 DEF ReadyAt, EraseAt, EraseArrayAt
  <2>4. c.op # "mount parts" /\ c.op # "fstab existing"
    BY <1>1, <2>1 DEF ReadyAt, MountPartsAt, ExistingAt
  <2>5. c.op # "add" /\ c.op # "delete" /\ c.op # "remove node"
    BY <1>1, <2>2 DEF ReadyAt, AddAt, DeleteAt, NodeAt
  <2> QED BY <2>3, <2>4, <2>5
<1>6. i # 1
  <2>1. i > 1
    BY DEF Moved
  <2> HIDE DEF c
  <2> QED BY <2>1
<1>7. FormatPartsAt(s, x, n) /\ RestAt(s, x, n)
  <2>1. FormatPartsAt(s, t, i) /\ RestAt(s, t, i)
    BY <1>1 DEF ReadyAt
  <2>2. t[1].op = "take member" /\ n > 1 /\ i > 1 /\ (i - 1 = 1 \/ x[n - 1] = t[i - 1])
    BY DEF Moved
  <2>3. FormatPartsAt(s, x, n)
    BY <1>1, <1>6, <2>1, <2>2 DEF FormatPartsAt
  <2>4. RestAt(s, x, n)
    BY <1>1, <1>6, <2>1, <2>2 DEF RestAt
  <2> QED BY <2>3, <2>4
<1>8. UmountDeviceAt(s, x, n)
  BY <1>1 DEF ReadyAt, UmountDeviceAt
<1>9. FstabAt(s, x, n) /\ CreateAt(s, x, n)
  BY <1>1, <1>6 DEF ReadyAt, FstabAt, CreateAt
<1>10. ChooseAt(s, x, n)
  <2> SUFFICES ASSUME c.op = "choose md" PROVE ChooseAt(s, x, n)
    BY <1>1 DEF ChooseAt
  <2> DEFINE ops == {"take member", "unmount", "erase", "mkraid"}
  <2>1. OnlyOps(t, i, ops) /\ s.made < MaxArrays
    BY <1>1 DEF ReadyAt, ChooseAt
  <2>2. OnlyOps(x, n, ops)
    BY <2>1 DEF OnlyOps, Moved
  <2>3. ASSUME NEW k \in 1 .. Len(c.members)
        PROVE  \/ Wiped(s, c.members[k])
               \/ \E b \in Earlier(x, n) : b.op \in {"take member", "erase"} /\ b.disk = c.members[k]
    <3>1. \/ Wiped(s, c.members[k])
          \/ \E b \in Earlier(t, i) : b.op \in {"take member", "erase"} /\ b.disk = c.members[k]
      BY <1>1 DEF ReadyAt, ChooseAt
    <3> QED BY <3>1 DEF Moved
  <2> QED BY <1>1, <2>1, <2>2, <2>3 DEF ChooseAt
<1>11. ReadyAt(s, x, n)
  BY <1>1, <1>5, <1>7, <1>8, <1>9, <1>10
     DEF ReadyAt, EraseAt, EraseArrayAt, MountPartsAt, ExistingAt, AddAt, DeleteAt, NodeAt
<1> QED BY <1>2, <1>3, <1>11 DEF Sound

\* The plan begins with the taking of a disk.
Takes(t, d) == t # <<>> /\ t[1].op = "take member" /\ t[1].disk = d

LEMMA TakePlan ==
  ASSUME NEW s, Clean(s), NEW t, PlanOK(s, t), NEW d \in Disks, Takes(t, d), NEW u, Frees(s, d, u)
  PROVE  PlanOK(s, (u \o <<OnDisk("erase", d), OnDisk("mkraid", d)>>) \o Tail(t))
<1> DEFINE a == OnDisk("erase", d)
           b == OnDisk("mkraid", d)
           w == <<a, b>>
           v == Tail(t)
           y == w \o v
           x == u \o y
           N == Len(u)
<1>0. "erase" \in Ops /\ "mkraid" \in Ops
  BY OpsAre
<1>10. IsOnDisk(a, "erase", d)
  BY <1>0, OnDiskIs
<1>20. IsOnDisk(b, "mkraid", d)
  BY <1>0, OnDiskIs
<1> HIDE DEF a, b
<1>1. Unmountings(u) /\ u \in Seq(Steps)
  BY DEF Frees, Unmountings
<1>2. a \in Steps /\ a.op = "erase" /\ a.disk = d
  BY <1>10 DEF IsOnDisk, IsStep
<1>3. b \in Steps /\ b.op = "mkraid"
  BY <1>20 DEF IsOnDisk, IsStep
<1>4. w \in Seq(Steps) /\ Len(w) = 2 /\ w[1] = a /\ w[2] = b /\ \A i \in 1 .. Len(w) : i = 1 \/ i = 2
  BY <1>2, <1>3, TwoSteps
<1> HIDE DEF w
<1>5. /\ v \in Seq(Steps) /\ Len(t) \in Nat /\ Len(t) >= 1 /\ Len(v) = Len(t) - 1
      /\ \A i \in 1 .. Len(v) : /\ i + 1 \in 1 .. Len(t) /\ v[i] = t[i + 1] /\ i \in Nat
                                /\ Earlier(t, i + 1) = {t[1]} \union Earlier(v, i)
  BY TailIs DEF PlanOK, Takes
<1> HIDE DEF v
<1>6. (u \o w) \o v = x
  BY <1>1, <1>4, <1>5, ConcatAssociative, SMTT(30)
<1>7. /\ y \in Seq(Steps) /\ Len(w) \in Nat /\ Len(v) \in Nat /\ Len(y) = Len(w) + Len(v)
      /\ \A i \in 1 .. Len(w) : y[i] = w[i] /\ i \in 1 .. Len(y) /\ Earlier(y, i) = Earlier(w, i)
      /\ \A i \in 1 .. Len(v) : BehindAt(w, v, y, i)
  BY <1>4, <1>5, Joined
<1> HIDE DEF y
<1>8. N \in Nat /\ Len(x) = N + Len(y)
  BY <1>1, <1>7, JoinedLen
<1>9. \A i \in 1 .. Len(y) : BehindAt(u, y, x, i)
  BY <1>1, <1>7, JoinedAt
<1>11. 1 \in 1 .. Len(w) /\ 2 \in 1 .. Len(w)
  BY <1>4
<1>12. y[1] = a /\ y[2] = b /\ 2 \in 1 .. Len(y) /\ Len(y) >= 1
  BY <1>4, <1>7, <1>11
<1>13. Sound(s, x, N + 1)
  BY <1>1, <1>2, <1>7, <1>12, SoundErase
<1> HIDE DEF x, N
<1>14. Sound(s, x, N + 2)
  <2>1. x[N + 2] = b
    BY <1>9, <1>12 DEF BehindAt, N
  <2>2. x[N + 2].op \in PlainOps
    BY <1>3, <2>1 DEF PlainOps
  <2> QED BY <2>2, SoundPlain
<1>15. \A z \in Range1(u) : z.op = "unmount"
  BY <1>1 DEF Unmountings, Range1
<1>16. Range1(w) = {a, b}
  <2>1. 1 .. 2 = {1, 2}
    OBVIOUS
  <2> QED BY <2>1, <1>4 DEF Range1
<1>17. ASSUME NEW k \in 1 .. Len(v) PROVE Sound(s, x, N + (2 + k))
  <2> DEFINE n == N + (2 + k)
             i == k + 1
  <2>1. 2 + k \in 1 .. Len(y)
    BY <1>4, <1>5, <1>7
  <2>2. BehindAt(w, v, y, k) /\ BehindAt(u, y, x, 2 + k)
    BY <1>7, <1>9, <2>1
  <2>3. x[n] = t[i]
    BY <1>4, <1>5, <2>2 DEF BehindAt, N
  <2>4. Earlier(x, n) = Range1(u) \union ({a, b} \union Earlier(v, k))
    BY <1>4, <1>16, <2>2 DEF BehindAt, N
  <2>5. Earlier(t, i) = {t[1]} \union Earlier(v, k)
    BY <1>5
  <2>6. i > 1 /\ n > 1 /\ i \in 1 .. Len(t) /\ i \in Nat /\ n \in Nat
    BY <1>5, <1>8
  <2>7. i - 1 = 1 \/ x[n - 1] = t[i - 1]
    <3> SUFFICES ASSUME k # 1 PROVE x[n - 1] = t[i - 1]
      BY <1>5
    <3>1. k - 1 \in 1 .. Len(v) /\ n - 1 = N + (2 + (k - 1)) /\ i - 1 = (k - 1) + 1 /\ 2 + (k - 1) \in 1 .. Len(y)
      BY <1>4, <1>5, <1>7, <1>8
    <3>2. BehindAt(w, v, y, k - 1) /\ BehindAt(u, y, x, 2 + (k - 1))
      BY <1>7, <1>9, <3>1
    <3>3. x[N + (2 + (k - 1))] = v[k - 1]
      BY <1>4, <3>2 DEF BehindAt, N
    <3>4. v[k - 1] = t[(k - 1) + 1]
      BY <1>5, <3>1
    <3> HIDE DEF n, i
    <3> QED BY <3>1, <3>3, <3>4
  <2>8. i = Len(t) => n = Len(x)
    <3>1. ASSUME i = Len(t) PROVE k = Len(v)
      BY <1>5, <3>1
    <3> QED BY <1>4, <1>7, <1>8, <3>1
  <2>9. ASSUME i < Len(t) PROVE n < Len(x) /\ x[n + 1] = t[i + 1]
    <3>1. k + 1 \in 1 .. Len(v) /\ n + 1 = N + (2 + (k + 1)) /\ i + 1 = (k + 1) + 1 /\ 2 + (k + 1) \in 1 .. Len(y)
      BY <1>4, <1>5, <1>7, <1>8, <2>9
    <3>2. BehindAt(w, v, y, k + 1) /\ BehindAt(u, y, x, 2 + (k + 1))
      BY <1>7, <1>9, <3>1
    <3>3. x[N + (2 + (k + 1))] = v[k + 1]
      BY <1>4, <3>2 DEF BehindAt, N
    <3>4. v[k + 1] = t[(k + 1) + 1]
      BY <1>5, <3>1
    <3>5. n < Len(x)
      BY <1>4, <1>5, <1>7, <1>8, <2>9
    <3> HIDE DEF n, i
    <3> QED BY <3>1, <3>3, <3>4, <3>5
  <2> HIDE DEF n, i
  <2>10. Moved(x, n, t, i)
    <3>1. t[1] \in Earlier(t, i)
      BY <2>5
    <3>2. \A c \in Earlier(x, n) : c.op \in {"unmount", "erase", "mkraid"} \/ c \in Earlier(t, i)
      BY <1>2, <1>3, <1>15, <2>4, <2>5
    <3>3. \A c \in Earlier(t, i) : c \in Earlier(x, n) \/ c = t[1]
      BY <2>4, <2>5
    <3>4. \E c \in Earlier(x, n) : c.op = "erase" /\ c.disk = t[1].disk
      BY <1>2, <2>4 DEF Takes
    <3>5. t[1].op = "take member"
      BY DEF Takes
    <3> QED BY <3>5, <2>3, <2>6, <2>7, <2>8, <2>9, <3>1, <3>2, <3>3, <3>4 DEF Moved
  <2>11. Sound(s, t, i)
    BY <2>6 DEF PlanOK, OrderOK, Sound
  <2>12. Sound(s, x, n)
    BY <2>6, <2>10, <2>11, SoundMoved
  <2> QED BY <2>12 DEF n
<1>18. ASSUME NEW j \in 1 .. Len(y) PROVE Sound(s, x, N + j)
  <2>1. j = 1 \/ j = 2 \/ (j - 2 \in 1 .. Len(v) /\ 2 + (j - 2) = j)
    BY <1>4, <1>5, <1>7
  <2>2. CASE j - 2 \in 1 .. Len(v) /\ 2 + (j - 2) = j
    BY <1>17, <2>2
  <2> QED BY <1>13, <1>14, <2>1, <2>2
<1>19. PlanOK(s, x)
  BY <1>1, <1>7, <1>18, PrefixedPlan DEF x, N
<1> QED BY <1>6, <1>19 DEF w, a, b, v

\* Taking a disk of a new array.
LEMMA TakeMemberPlan ==
  ASSUME NEW s, DisksOK(s), NEW t, PlanOK(s, t), Clean(s), NEW d \in Disks, Takes(t, d)
  PROVE  /\ TakeMember(s, d).s = s
         /\ TakeMember(s, d).ok => PlanOK(s, TakeMember(s, d).more \o Tail(t))
<1> DEFINE q == [i \in 1 .. Len(PartsOf(s, d)) |-> UnmountSteps(s, PartsOf(s, d)[i])]
           u == FlattenSeq(q)
           w == u \o <<OnDisk("erase", d), OnDisk("mkraid", d)>>
           o == TakeMember(s, d)
           v == Tail(t)
<1>1. Frees(s, d, u)
  BY DiskUnmounts
<1>2. o = IF is_raid_member(s, d) THEN Fail(s) ELSE Then(s, w)
  BY DEF TakeMember, ForEach
<1> HIDE DEF u
<1>3. PlanOK(s, w \o v)
  BY <1>1, TakePlan
<1> HIDE DEF w, o, v
<1>4. CASE is_raid_member(s, d)
  <2>1. o = Fail(s)
    BY <1>2, <1>4
  <2>2. Fail(s).s = s /\ ~Fail(s).ok
    BY DEF Fail
  <2> QED BY <2>1, <2>2 DEF o
<1>5. CASE ~is_raid_member(s, d)
  <2>1. o = Then(s, w)
    BY <1>2, <1>5
  <2>2. Then(s, w).s = s /\ Then(s, w).more = w
    BY DEF Then
  <2> QED BY <1>3, <2>1, <2>2 DEF o, v
<1> QED BY <1>4, <1>5

-----------------------------------------------------------------------------
(* The requests                                                            *)

\* A request that is one decision.
LEMMA OneDecision ==
  ASSUME NEW s, Clean(s), NEW c \in Steps, StepOK(c), c.op \in Decisions, c.op \notin BoundOps, c.op # "take member"
  PROVE  PlanOK(s, <<c>>)
<1> DEFINE t == <<c>>
<1>1. t \in Seq(Steps) /\ Len(t) = 1 /\ t[1] = c /\ \A i \in 1 .. Len(t) : i = 1
  BY OneStep
<1> HIDE DEF t
<1>2. Sound(s, t, 1)
  BY <1>1, SoundDecision
<1>3. PlanOK(s, t)
  BY <1>1, <1>2, PlanList
<1> QED BY <1>3 DEF t

LEMMA MountRequest ==
  ASSUME NEW s, Clean(s), NEW dev \in Dev
  PROVE  PlanOK(s, <<AtPoint("mount partition", dev, Chosen(dev))>>)
<1> DEFINE p == Chosen(dev)
           c == AtPoint("mount partition", dev, p)
<1>1. p \in Points \ {Overlay} /\ p \in Points /\ "mount partition" \in Ops
  BY PointsAre, OpsAre
<1>2. IsAtPoint(c, "mount partition", dev, p)
  BY <1>1, AtPointIs
<1> HIDE DEF c, p
<1>3. c \in Steps /\ c.op = "mount partition" /\ c.dev = dev /\ c.point = p
  BY <1>2 DEF IsAtPoint, IsStep
<1>4. StepOK(c)
  BY <1>1, <1>3 DEF StepOK, DevOps, MountOps, MdOps
<1>5. c.op \in Decisions /\ c.op \notin BoundOps /\ c.op # "take member"
  BY <1>3 DEF Decisions, BoundOps
<1>6. PlanOK(s, <<c>>)
  BY <1>3, <1>4, <1>5, OneDecision
<1> QED BY <1>6 DEF c, p

LEMMA FormatRequest ==
  ASSUME NEW s, Clean(s), NEW dev \in Dev
  PROVE  PlanOK(s, <<On("format", dev)>>)
<1> DEFINE c == On("format", dev)
<1>1. "format" \in Ops
  BY OpsAre
<1>2. IsOn(c, "format", dev)
  BY <1>1, OnIs
<1> HIDE DEF c
<1>3. c \in Steps /\ c.op = "format" /\ c.dev = dev
  BY <1>2 DEF IsOn, IsStep
<1>4. StepOK(c)
  BY <1>3 DEF StepOK, DevOps, MountOps, MdOps
<1>5. c.op \in Decisions /\ c.op \notin BoundOps /\ c.op # "take member"
  BY <1>3 DEF Decisions, BoundOps
<1>6. PlanOK(s, <<c>>)
  BY <1>3, <1>4, <1>5, OneDecision
<1> QED BY <1>6 DEF c

LEMMA InitArrayRequest ==
  ASSUME NEW s, Clean(s), NEW dev \in Dev
  PROVE  PlanOK(s, <<On("init array", dev)>>)
<1> DEFINE c == On("init array", dev)
<1>1. "init array" \in Ops
  BY OpsAre
<1>2. IsOn(c, "init array", dev)
  BY <1>1, OnIs
<1> HIDE DEF c
<1>3. c \in Steps /\ c.op = "init array" /\ c.dev = dev
  BY <1>2 DEF IsOn, IsStep
<1>4. StepOK(c)
  BY <1>3 DEF StepOK, DevOps, MountOps, MdOps
<1>5. c.op \in Decisions /\ c.op \notin BoundOps /\ c.op # "take member"
  BY <1>3 DEF Decisions, BoundOps
<1>6. PlanOK(s, <<c>>)
  BY <1>3, <1>4, <1>5, OneDecision
<1> QED BY <1>6 DEF c

LEMMA SandboxRequest ==
  ASSUME NEW s, Clean(s), NEW dev \in Dev, dev \in Parts
  PROVE  PlanOK(s, <<On("format partition", dev)>>)
<1> DEFINE c == On("format partition", dev)
<1>1. "format partition" \in Ops
  BY OpsAre
<1>2. IsOn(c, "format partition", dev)
  BY <1>1, OnIs
<1> HIDE DEF c
<1>3. c \in Steps /\ c.op = "format partition" /\ c.dev = dev
  BY <1>2 DEF IsOn, IsStep
<1>4. StepOK(c)
  BY <1>3 DEF StepOK, DevOps, MountOps, MdOps
<1>5. c.op \in Decisions /\ c.op \notin BoundOps /\ c.op # "take member"
  BY <1>3 DEF Decisions, BoundOps
<1>6. PlanOK(s, <<c>>)
  BY <1>3, <1>4, <1>5, OneDecision
<1> QED BY <1>6 DEF c

LEMMA InitRequest ==
  ASSUME NEW s, Clean(s), NEW d \in Disks
  PROVE  PlanOK(s, <<OnDisk("init", d)>>)
<1> DEFINE c == OnDisk("init", d)
<1>1. "init" \in Ops
  BY OpsAre
<1>2. IsOnDisk(c, "init", d)
  BY <1>1, OnDiskIs
<1> HIDE DEF c
<1>3. c \in Steps /\ c.op = "init"
  BY <1>2 DEF IsOnDisk, IsStep
<1>4. StepOK(c)
  BY <1>3 DEF StepOK, DevOps, MountOps, MdOps
<1>5. c.op \in Decisions /\ c.op \notin BoundOps /\ c.op # "take member"
  BY <1>3 DEF Decisions, BoundOps
<1>6. PlanOK(s, <<c>>)
  BY <1>3, <1>4, <1>5, OneDecision
<1> QED BY <1>6 DEF c

LEMMA InitRestRequest ==
  ASSUME NEW s, Clean(s), NEW d \in Disks, NEW region \in FreeRegions
  PROVE  PlanOK(s, <<[OnDisk("init rest", d) EXCEPT !.range = region]>>)
<1> DEFINE a == OnDisk("init rest", d)
           c == [a EXCEPT !.range = region]
<1>1. "init rest" \in Ops
  BY OpsAre
<1>2. IsOnDisk(a, "init rest", d)
  BY <1>1, OnDiskIs
<1> HIDE DEF a
<1>7. region \in Int \X Int
  BY StorageAssumption
<1>3. c \in Steps /\ c.op = "init rest" /\ c.range = region
  BY <1>2, <1>7 DEF IsOnDisk, IsStep, Steps
<1> HIDE DEF c
<1>4. StepOK(c)
  BY <1>3 DEF StepOK, DevOps, MountOps, MdOps
<1>5. c.op \in Decisions /\ c.op \notin BoundOps /\ c.op # "take member"
  BY <1>3 DEF Decisions, BoundOps
<1>6. PlanOK(s, <<c>>)
  BY <1>3, <1>4, <1>5, OneDecision
<1> QED BY <1>6 DEF c, a

LEMMA RemoveRequest ==
  ASSUME NEW s, Clean(s), NEW m \in Mds, NEW d \in Disks
  PROVE  PlanOK(s, RemoveMember(m, d))
<1> DEFINE a == OnArray("remove", m, <<>>)
           c == [a EXCEPT !.disk = d]
           t == <<c>>
<1>1. "remove" \in Ops /\ <<>> \in Seq(Disks)
  BY OpsAre, EmptySeq
<1>2. IsOnArray(a, "remove", m, <<>>)
  BY <1>1, OnArrayIs
<1>7. RemoveMember(m, d) = t
  BY DEF RemoveMember
<1> HIDE DEF a
<1>3. c \in Steps /\ c.op = "remove" /\ c.md = m
  BY <1>2 DEF IsOnArray, IsStep, Steps
<1> HIDE DEF c
<1>4. t \in Seq(Steps) /\ Len(t) = 1 /\ t[1] = c /\ \A i \in 1 .. Len(t) : i = 1
  BY <1>3, OneStep
<1> HIDE DEF t
<1>5. Sound(s, t, 1)
  <2>1. StepOK(t[1])
    BY <1>3, <1>4 DEF StepOK, DevOps, MountOps, MdOps
  <2>2. OrderAt(t, 1)
    BY <1>3, <1>4 DEF OrderAt, Decisions
  <2>3. ReadyAt(s, t, 1)
    BY <1>3, <1>4, FreeStep DEF BoundOps
  <2> QED BY <2>1, <2>2, <2>3 DEF Sound
<1>6. PlanOK(s, t)
  BY <1>4, <1>5, PlanList
<1> QED BY <1>6, <1>7

LEMMA AutoFixRequest ==
  ASSUME NEW s, Clean(s)
  PROVE  PlanOK(s, AutoFix)
<1> DEFINE a == Step("clear arrays")
           b == Step("autofix")
           c == Step("commit mdadm")
           d == Step("restart mdadm")
           t == <<a, b, c, d>>
<1>1. "clear arrays" \in Ops /\ "autofix" \in Ops /\ "commit mdadm" \in Ops /\ "restart mdadm" \in Ops
  BY OpsAre
<1>2. IsStep(a, "clear arrays") /\ IsStep(b, "autofix") /\ IsStep(c, "commit mdadm") /\ IsStep(d, "restart mdadm")
  BY <1>1, StepIs
<1>3. AutoFix = t
  BY DEF AutoFix
<1> HIDE DEF a, b, c, d
<1>4. a \in Steps /\ b \in Steps /\ c \in Steps /\ d \in Steps
  BY <1>2 DEF IsStep
<1>5. a.op \in PlainOps /\ b.op \in PlainOps /\ c.op \in PlainOps /\ d.op \in PlainOps
  BY <1>2 DEF IsStep, PlainOps
<1>6. t \in Seq(Steps)
  BY <1>4
<1>7. Len(t) = 4 /\ t[1] = a /\ t[2] = b /\ t[3] = c /\ t[4] = d
  OBVIOUS
<1>8. \A i \in 1 .. 4 : i = 1 \/ i = 2 \/ i = 3 \/ i = 4
  OBVIOUS
<1> HIDE DEF t
<1>9. \A i \in 1 .. Len(t) : t[i].op \in PlainOps
  BY <1>5, <1>7, <1>8
<1>10. \A i \in 1 .. Len(t) : Sound(s, t, i)
  BY <1>9, SoundPlain
<1>11. PlanOK(s, t)
  BY <1>6, <1>10, PlanList
<1> QED BY <1>3, <1>11

\* A disk that is offered is not in use.
LEMMA OfferedIsFree ==
  ASSUME NEW s, DisksOK(s), NEW d \in CreateList(s)
  PROVE  d \in Disks /\ Frees(s, d, <<>>)
<1>1. /\ d \in Disks /\ d # SystemDisk /\ ShouldIncludeDisk(s, d)
      /\ \A n \in 1 .. s.parts[d] : get_mount_point(s, <<d, n>>) = {}
  BY DEF CreateList
<1>2. ~is_raid_member(s, d)
  BY <1>1 DEF ShouldIncludeDisk
<1>3. ASSUME NEW e \in s.mounts, e.dev \in Parts, e.dev[1] = d PROVE FALSE
  <2> DEFINE n == e.dev[2]
  <2>1. n \in {1, 2} /\ e.dev = <<d, n>>
    BY <1>3, DevParts
  <2>2. n <= s.parts[d]
    BY <1>3 DEF DisksOK, MountsOK, There
  <2>3. s.parts[d] \in Nat
    BY <1>1, PartsNumber DEF DisksOK
  <2>4. n \in 1 .. s.parts[d]
    <3> HIDE DEF n
    <3> QED BY <2>1, <2>2, <2>3
  <2>5. get_mount_point(s, <<d, n>>) = {}
    BY <1>1, <2>4
  <2>6. Mounted(s, e.dev)
    BY DEF Mounted
  <2>7. ~Mounted(s, <<d, n>>)
    BY <2>5 DEF get_mount_point
  <2> QED BY <2>1, <2>6, <2>7
<1>4. Unmountings(<<>>)
  BY EmptySeq DEF Unmountings
<1> QED BY <1>1, <1>2, <1>3, <1>4 DEF Frees

LEMMA AddRequest ==
  ASSUME NEW s, DisksOK(s), Clean(s), NEW m \in Mds, NEW d \in CreateList(s)
  PROVE  PlanOK(s, Add(m, d))
<1> DEFINE a == OnDisk("erase", d)
           b == OnDisk("mkraid", d)
           g == OnArray("add", m, <<>>)
           c == [g EXCEPT !.disk = d]
           t == <<a, b, c>>
<1>0. d \in Disks /\ Frees(s, d, <<>>)
  BY OfferedIsFree
<1>1. "erase" \in Ops /\ "mkraid" \in Ops /\ "add" \in Ops /\ <<>> \in Seq(Disks)
  BY OpsAre, EmptySeq
<1>10. IsOnDisk(a, "erase", d)
  BY <1>0, <1>1, OnDiskIs
<1>20. IsOnDisk(b, "mkraid", d)
  BY <1>0, <1>1, OnDiskIs
<1>30. IsOnArray(g, "add", m, <<>>)
  BY <1>1, OnArrayIs
<1>2. Add(m, d) = t
  BY DEF Add
<1> HIDE DEF a, b, g
<1>3. a \in Steps /\ a.op = "erase" /\ a.disk = d
  BY <1>10 DEF IsOnDisk, IsStep
<1>4. b \in Steps /\ b.op = "mkraid"
  BY <1>20 DEF IsOnDisk, IsStep
<1>5. c \in Steps /\ c.op = "add" /\ c.md = m /\ c.disk = d
  BY <1>0, <1>30 DEF IsOnArray, IsStep, Steps
<1> HIDE DEF c
<1>6. /\ t \in Seq(Steps) /\ Len(t) = 3 /\ t[1] = a /\ t[2] = b /\ t[3] = c
      /\ \A i \in 1 .. Len(t) : i = 1 \/ i = 2 \/ i = 3
  BY <1>3, <1>4, <1>5, ThreeSteps
<1> HIDE DEF t
<1>7. Sound(s, t, 1)
  <2>1. t = <<>> \o t
    BY <1>6, ConcatEmptySeq
  <2>2. Len(t) >= 1 /\ t[1].op = "erase" /\ t[1].disk = d
    BY <1>3, <1>6
  <2>3. Sound(s, t, Len(<<>>) + 1)
    <3> DEFINE u == <<>>
    <3>1. Frees(s, d, u) /\ t = u \o t
      BY <1>0, <2>1
    <3> HIDE DEF u
    <3>2. Sound(s, t, Len(u) + 1)
      BY <1>0, <1>6, <2>2, <3>1, SoundErase
    <3> QED BY <3>2 DEF u
  <2>4. Len(<<>>) + 1 = 1
    OBVIOUS
  <2> QED BY <2>3, <2>4
<1>8. Sound(s, t, 2)
  <2>1. t[2].op \in PlainOps
    BY <1>4, <1>6 DEF PlainOps
  <2> QED BY <2>1, SoundPlain
<1>9. Sound(s, t, 3)
  <2>1. Earlier(t, 3) = {a, b}
    <3>1. 1 .. 3 - 1 = {1, 2}
      OBVIOUS
    <3> QED BY <3>1, <1>6 DEF Earlier
  <2>2. OnlyOps(t, 3, {"erase", "mkraid"})
    BY <1>3, <1>4, <2>1 DEF OnlyOps
  <2>3. AddAt(s, t, 3)
    BY <1>3, <1>5, <1>6, <2>1, <2>2 DEF AddAt
  <2>4. ReadyAt(s, t, 3)
    BY <1>5, <1>6, <2>3 DEF ReadyAt, EraseAt, EraseArrayAt, FormatPartsAt, MountPartsAt, UmountDeviceAt, RestAt,
                            ExistingAt, FstabAt, ChooseAt, CreateAt, DeleteAt, NodeAt
  <2>5. StepOK(t[3])
    BY <1>5, <1>6 DEF StepOK, DevOps, MountOps, MdOps
  <2>6. OrderAt(t, 3)
    BY <1>5, <1>6 DEF OrderAt, Decisions
  <2> QED BY <2>4, <2>5, <2>6 DEF Sound
<1>11. PlanOK(s, t)
  BY <1>6, <1>7, <1>8, <1>9, PlanList
<1> QED BY <1>2, <1>11

LEMMA CreateRequest ==
  ASSUME NEW s, Clean(s), s.made < MaxArrays, NEW n \in 1 .. 2, NEW ms \in [1 .. n -> Disks]
  PROVE  PlanOK(s, Create(ms))
<1> DEFINE q == [i \in 1 .. Len(ms) |-> OnDisk("take member", ms[i])]
           g == Step("choose md")
           c == [g EXCEPT !.members = ms]
           v == <<c>>
           t == q \o v
<1>1. ms \in Seq(Disks) /\ Len(ms) = n /\ n \in Nat /\ n >= 1
  OBVIOUS
<1>2. "take member" \in Ops /\ "choose md" \in Ops
  BY OpsAre
<1>3. IsStep(g, "choose md")
  BY <1>2, StepIs
<1>4. \A d \in Disks : IsOnDisk(OnDisk("take member", d), "take member", d)
  BY <1>2, OnDiskIs
<1>5. Create(ms) = t
  BY DEF Create
<1> HIDE DEF g
<1>6. c \in Steps /\ c.op = "choose md" /\ c.members = ms
  BY <1>1, <1>3 DEF IsStep, Steps
<1> HIDE DEF c
<1>7. q = [i \in 1 .. n |-> OnDisk("take member", ms[i])]
  BY <1>1
<1>8. \A i \in 1 .. n : q[i] \in Steps /\ q[i].op = "take member" /\ q[i].disk = ms[i]
  BY <1>4, <1>7 DEF IsOnDisk, IsStep
<1> HIDE DEF q
<1>9. q \in Seq(Steps) /\ Len(q) = n
  <2>1. q \in [1 .. n -> Steps]
    BY <1>7, <1>8
  <2> QED BY <1>1, <2>1
<1>10. v \in Seq(Steps) /\ Len(v) = 1 /\ v[1] = c /\ \A i \in 1 .. Len(v) : i = 1
  BY <1>6, OneStep
<1> HIDE DEF v
<1>11. /\ t \in Seq(Steps) /\ Len(t) = Len(q) + Len(v)
       /\ \A i \in 1 .. Len(q) : t[i] = q[i] /\ i \in 1 .. Len(t) /\ Earlier(t, i) = Earlier(q, i)
       /\ \A i \in 1 .. Len(v) : BehindAt(q, v, t, i)
  BY <1>9, <1>10, Joined
<1>12. 1 \in 1 .. Len(v)
  BY <1>10
<1>13. BehindAt(q, v, t, 1)
  BY <1>11, <1>12
<1> HIDE DEF t
<1>14. Len(t) = n + 1 /\ t[n + 1] = c
  BY <1>9, <1>10, <1>11, <1>13 DEF BehindAt
<1>15. Earlier(t, n + 1) = {q[i] : i \in 1 .. n}
  <2>1. Earlier(v, 1) = {}
    <3>1. 1 .. 1 - 1 = {}
      OBVIOUS
    <3> QED BY <3>1 DEF Earlier
  <2> QED BY <1>9, <1>13, <2>1 DEF BehindAt, Range1
<1>16. ASSUME NEW i \in 1 .. n PROVE Sound(s, t, i)
  <2>1. t[i].op = "take member"
    BY <1>8, <1>9, <1>11
  <2>2. StepOK(t[i])
    BY <2>1 DEF StepOK, DevOps, MountOps, MdOps
  <2>3. ReadyAt(s, t, i)
    BY <2>1, FreeStep DEF BoundOps
  <2>4. i < Len(t)
    BY <1>1, <1>14
  <2>5. OrderAt(t, i)
    BY <2>1, <2>4 DEF OrderAt
  <2> QED BY <2>2, <2>3, <2>5 DEF Sound
<1>17. Sound(s, t, n + 1)
  <2> DEFINE k == n + 1
             ops == {"take member", "unmount", "erase", "mkraid"}
  <2>1. t[k] = c /\ k = Len(t) /\ Earlier(t, k) = {q[i] : i \in 1 .. n}
    BY <1>14, <1>15
  <2> HIDE DEF k
  <2>2. OnlyOps(t, k, ops)
    BY <1>8, <2>1 DEF OnlyOps
  <2>3. ASSUME NEW i \in 1 .. Len(ms) PROVE \E b \in Earlier(t, k) : b.op \in {"take member", "erase"} /\ b.disk = ms[i]
    BY <1>1, <1>8, <2>1
  <2>4. ChooseAt(s, t, k)
    BY <1>6, <2>1, <2>2, <2>3 DEF ChooseAt
  <2>5. ReadyAt(s, t, k)
    BY <1>6, <2>1, <2>4 DEF ReadyAt, EraseAt, EraseArrayAt, FormatPartsAt, MountPartsAt, UmountDeviceAt, RestAt,
                            ExistingAt, FstabAt, CreateAt, AddAt, DeleteAt, NodeAt
  <2>6. ms # <<>>
    BY <1>1
  <2>7. StepOK(t[k])
    BY <1>6, <2>1, <2>6 DEF StepOK, DevOps, MountOps, MdOps
  <2>8. OrderAt(t, k)
    BY <1>6, <2>1 DEF OrderAt, Decisions
  <2> QED BY <2>5, <2>7, <2>8 DEF Sound, k
<1>18. \A i \in 1 .. Len(t) : i \in 1 .. n \/ i = n + 1
  BY <1>1, <1>14
<1>19. \A i \in 1 .. Len(t) : Sound(s, t, i)
  BY <1>16, <1>17, <1>18
<1>20. PlanOK(s, t)
  BY <1>11, <1>19, PlanList
<1> QED BY <1>5, <1>20

LEMMA SetToSeqType ==
  ASSUME NEW S, S \subseteq Disks
  PROVE  SetToSeq(S) \in Seq(Disks) /\ \A k \in 1 .. Len(SetToSeq(S)) : SetToSeq(S)[k] \in S
<1> DEFINE n == Cardinality(S)
           f == SetToSeq(S)
<1>1. IsFiniteSet(S)
  BY BlockDevAssumption, FS_Subset
<1>2. n \in Nat /\ ExistsBijection(1 .. n, S)
  BY <1>1, FS_CardinalityType
<1>3. \E g \in [1 .. n -> S] : IsInjective(g)
  BY <1>2 DEF ExistsBijection, Bijection, Injection
<1> HIDE DEF n
<1>4. f = CHOOSE g \in [1 .. n -> S] : IsInjective(g)
  BY DEF SetToSeq, n
<1> HIDE DEF f
<1>5. f \in [1 .. n -> S]
  BY <1>3, <1>4
<1>6. f \in [1 .. n -> Disks]
  BY <1>5
<1>7. f \in Seq(Disks) /\ Len(f) = n
  BY <1>2, <1>6
<1> QED BY <1>5, <1>7 DEF f

\* Deleting an array, of which something may be mounted.
Umounts(z) == z \in Seq(Steps) /\ \A i \in 1 .. Len(z) : z[i].op = "umount path" /\ z[i].point # Overlay
AreMembers(s, m, ms) == ms \in Seq(Disks) /\ \A k \in 1 .. Len(ms) : ms[k] \in s.run[m].members

LEMMA DeleteSteps ==
  ASSUME NEW s, DisksOK(s), Clean(s), NEW m \in Mds, NEW ms, AreMembers(s, m, ms), NEW z, Umounts(z)
  PROVE  PlanOK(s, z \o <<OnArray("delete", m, ms), OnArray("remove node", m, <<>>)>> \o Generate)
<1> DEFINE a == OnArray("delete", m, ms)
           b == OnArray("remove node", m, <<>>)
           c == Step("clear arrays")
           g == Step("scan")
           h == Step("commit mdadm")
           w == <<a, b>>
           v == <<c, g, h>>
           y == z \o w
           t == y \o v
<1>0. "delete" \in Ops /\ "remove node" \in Ops /\ <<>> \in Seq(Disks) /\ "clear arrays" \in Ops /\ "scan" \in Ops
      /\ "commit mdadm" \in Ops
  BY OpsAre, EmptySeq
<1>00. ms \in Seq(Disks) /\ z \in Seq(Steps)
  BY DEF AreMembers, Umounts
<1>10. IsOnArray(a, "delete", m, ms)
  BY <1>0, <1>00, OnArrayIs
<1>20. IsOnArray(b, "remove node", m, <<>>)
  BY <1>0, OnArrayIs
<1>30. IsStep(c, "clear arrays") /\ IsStep(g, "scan") /\ IsStep(h, "commit mdadm")
  BY <1>0, StepIs
<1>1. Generate = v
  BY DEF Generate
<1> HIDE DEF a, b, c, g, h
<1>2. a \in Steps /\ a.op = "delete" /\ a.md = m /\ a.members = ms
  BY <1>10 DEF IsOnArray, IsStep
<1>3. b \in Steps /\ b.op = "remove node" /\ b.md = m
  BY <1>20 DEF IsOnArray, IsStep
<1>4. c \in Steps /\ c.op = "clear arrays" /\ g \in Steps /\ g.op = "scan" /\ h \in Steps /\ h.op = "commit mdadm"
  BY <1>30 DEF IsStep
<1>5. w \in Seq(Steps) /\ Len(w) = 2 /\ w[1] = a /\ w[2] = b /\ \A i \in 1 .. Len(w) : i = 1 \/ i = 2
  BY <1>2, <1>3, TwoSteps
<1>6. /\ v \in Seq(Steps) /\ Len(v) = 3 /\ v[1] = c /\ v[2] = g /\ v[3] = h
      /\ \A i \in 1 .. Len(v) : i = 1 \/ i = 2 \/ i = 3
  BY <1>4, ThreeSteps
<1> HIDE DEF w, v
<1>7. /\ y \in Seq(Steps) /\ Len(z) \in Nat /\ Len(w) \in Nat /\ Len(y) = Len(z) + Len(w)
      /\ \A i \in 1 .. Len(z) : y[i] = z[i] /\ i \in 1 .. Len(y) /\ Earlier(y, i) = Earlier(z, i)
      /\ \A i \in 1 .. Len(w) : BehindAt(z, w, y, i)
  BY <1>00, <1>5, Joined
<1>8. \A i \in 1 .. Len(w) : BehindAt(z, w, y, i)
  BY <1>00, <1>5, JoinedAt
<1> HIDE DEF y
<1>9. /\ t \in Seq(Steps) /\ Len(y) \in Nat /\ Len(t) = Len(y) + Len(v)
      /\ \A i \in 1 .. Len(y) : t[i] = y[i] /\ i \in 1 .. Len(t) /\ Earlier(t, i) = Earlier(y, i)
  BY <1>6, <1>7, Joined, ZenonT(60)
<1>11. \A i \in 1 .. Len(v) : BehindAt(y, v, t, i)
  BY <1>6, <1>7, JoinedAt
<1> HIDE DEF t
<1>12. 1 \in 1 .. Len(w) /\ 2 \in 1 .. Len(w)
  BY <1>5
<1>13. BehindAt(z, w, y, 1) /\ BehindAt(z, w, y, 2)
  BY <1>8, <1>12
<1>14. Len(z) + 1 \in 1 .. Len(y) /\ Len(z) + 2 \in 1 .. Len(y)
  BY <1>5, <1>7
<1>15. \A x \in Range1(z) : x.op = "umount path"
  BY DEF Range1, Umounts
<1>16. t[Len(z) + 1] = a /\ t[Len(z) + 2] = b
  BY <1>5, <1>9, <1>13, <1>14 DEF BehindAt
<1>17. Earlier(t, Len(z) + 1) = Range1(z)
  <2>1. Earlier(w, 1) = {}
    <3>1. 1 .. 1 - 1 = {}
      OBVIOUS
    <3> QED BY <3>1 DEF Earlier
  <2> QED BY <1>9, <1>13, <1>14, <2>1 DEF BehindAt
<1>18. Earlier(t, Len(z) + 2) = Range1(z) \union {a}
  <2>1. Earlier(w, 2) = {a}
    <3>1. 1 .. 2 - 1 = {1}
      OBVIOUS
    <3> QED BY <1>5, <3>1 DEF Earlier
  <2> QED BY <1>9, <1>13, <1>14, <2>1 DEF BehindAt
<1>19. ASSUME NEW i \in 1 .. Len(z) PROVE Sound(s, t, i)
  <2>1. t[i].op = "umount path" /\ t[i].point # Overlay
    BY <1>7, <1>9 DEF Umounts
  <2>2. StepOK(t[i])
    BY <2>1 DEF StepOK, DevOps, MountOps, MdOps
  <2>3. OrderAt(t, i)
    BY <2>1 DEF OrderAt, Decisions
  <2>4. ReadyAt(s, t, i)
    BY <2>1, FreeStep DEF BoundOps
  <2> QED BY <2>2, <2>3, <2>4 DEF Sound
<1>21. Sound(s, t, Len(z) + 1)
  <2> DEFINE k == Len(z) + 1
  <2>1. t[k] = a /\ Earlier(t, k) = Range1(z)
    BY <1>16, <1>17
  <2> HIDE DEF k
  <2>2. OnlyOps(t, k, {"umount path"})
    BY <1>15, <2>1 DEF OnlyOps
  <2>3. ASSUME NEW n \in Mds \ {m}, NEW j \in 1 .. Len(ms) PROVE ms[j] \notin s.run[n].members
    <3>1. ms[j] \in s.run[m].members
      BY DEF AreMembers
    <3>2. s.run[m].id # 0 /\ s.super[ms[j]] = s.run[m].id
      BY <3>1 DEF DisksOK, ArraysOK
    <3>3. ASSUME ms[j] \in s.run[n].members PROVE FALSE
      <4>1. s.super[ms[j]] = s.run[n].id
        BY <3>3 DEF DisksOK, ArraysOK
      <4> QED BY <3>2, <4>1 DEF DisksOK, ArraysOK
    <3> QED BY <3>3
  <2>4. DeleteAt(s, t, k)
    BY <1>2, <2>1, <2>2, <2>3 DEF DeleteAt
  <2>5. ReadyAt(s, t, k)
    BY <1>2, <2>1, <2>4 DEF ReadyAt, EraseAt, EraseArrayAt, FormatPartsAt, MountPartsAt, UmountDeviceAt, RestAt,
                            ExistingAt, FstabAt, ChooseAt, CreateAt, AddAt, NodeAt
  <2>6. StepOK(t[k])
    BY <1>2, <2>1 DEF StepOK, DevOps, MountOps, MdOps
  <2>7. OrderAt(t, k)
    BY <1>2, <2>1 DEF OrderAt, Decisions
  <2> QED BY <2>5, <2>6, <2>7 DEF Sound, k
<1>22. Sound(s, t, Len(z) + 2)
  <2> DEFINE k == Len(z) + 2
  <2>1. t[k] = b /\ Earlier(t, k) = Range1(z) \union {a}
    BY <1>16, <1>18
  <2> HIDE DEF k
  <2>2. OnlyOps(t, k, {"umount path", "delete"})
    BY <1>2, <1>15, <2>1 DEF OnlyOps
  <2>4. NodeAt(s, t, k)
    BY <1>2, <1>3, <2>1, <2>2 DEF NodeAt
  <2>5. ReadyAt(s, t, k)
    BY <1>3, <2>1, <2>4 DEF ReadyAt, EraseAt, EraseArrayAt, FormatPartsAt, MountPartsAt, UmountDeviceAt, RestAt,
                            ExistingAt, FstabAt, ChooseAt, CreateAt, AddAt, DeleteAt
  <2>6. StepOK(t[k])
    BY <1>3, <2>1 DEF StepOK, DevOps, MountOps, MdOps
  <2>7. OrderAt(t, k)
    BY <1>3, <2>1 DEF OrderAt, Decisions
  <2> QED BY <2>5, <2>6, <2>7 DEF Sound, k
<1>23. ASSUME NEW i \in 1 .. Len(v) PROVE Sound(s, t, Len(y) + i)
  <2>1. t[Len(y) + i] = v[i]
    BY <1>11 DEF BehindAt
  <2>2. v[i].op \in PlainOps
    BY <1>4, <1>6 DEF PlainOps
  <2> QED BY <2>1, <2>2, SoundPlain
<1>24. ASSUME NEW j \in 1 .. Len(t) PROVE Sound(s, t, j)
  <2>1. j \in 1 .. Len(y) + Len(v)
    BY <1>9
  <2>2. j \in 1 .. Len(y) \/ \E i \in 1 .. Len(v) : j = Len(y) + i
    BY <1>6, <1>9, <2>1, Places
  <2>3. CASE \E i \in 1 .. Len(v) : j = Len(y) + i
    BY <1>23, <2>3
  <2>4. CASE j \in 1 .. Len(y)
    <3>1. j \in 1 .. Len(z) \/ j = Len(z) + 1 \/ j = Len(z) + 2
      BY <1>5, <1>7, <2>4
    <3> QED BY <1>19, <1>21, <1>22, <3>1
  <2> QED BY <2>2, <2>3, <2>4
<1>25. PlanOK(s, t)
  BY <1>9, <1>24, PlanList
<1> QED BY <1>1, <1>25 DEF t, y, w, a, b

LEMMA DeleteRequest ==
  ASSUME NEW s, DisksOK(s), Clean(s), NEW m \in Mds
  PROVE  PlanOK(s, Delete(s, m))
<1> DEFINE dev == ArrayOn(s, m)
           p == MountPointOf(s, dev)
           g == Step("umount path")
           c == [g EXCEPT !.point = p]
           z == IF Mounted(s, dev) THEN <<c>> ELSE <<>>
           ms == SetToSeq(s.run[m].members)
<1>1. s.run[m].members \subseteq Disks
  BY DEF DisksOK, Storage
<1>2. ms \in Seq(Disks) /\ \A k \in 1 .. Len(ms) : ms[k] \in s.run[m].members
  BY <1>1, SetToSeqType
<1>3. Delete(s, m) = z \o <<OnArray("delete", m, ms), OnArray("remove node", m, <<>>)>> \o Generate
  BY DEF Delete
<1>4. dev \notin Parts
  BY DevParts DEF ArrayOn, Parts
<1>5. IsStep(g, "umount path")
  BY OpsAre, StepIs
<1> HIDE DEF ms, dev, g
<1>6. z \in Seq(Steps) /\ \A i \in 1 .. Len(z) : z[i].op = "umount path" /\ z[i].point # Overlay
  <2>1. CASE ~Mounted(s, dev)
    BY <2>1, EmptySeq
  <2>2. CASE Mounted(s, dev)
    <3>1. PICK e \in s.mounts : e.dev = dev /\ p = e.point
      BY <2>2 DEF Mounted, MountPointOf
    <3>2. p \in Points /\ p # Overlay
      BY <1>4, <3>1 DEF DisksOK, MountsOK, Storage, Entry
    <3> HIDE DEF p
    <3>3. c \in Steps /\ c.op = "umount path" /\ c.point = p
      BY <1>5, <3>2 DEF IsStep, Steps
    <3> HIDE DEF c
    <3>4. z = <<c>>
      BY <2>2
    <3> HIDE DEF z
    <3>5. z \in Seq(Steps) /\ Len(z) = 1 /\ z[1] = c /\ \A i \in 1 .. Len(z) : i = 1
      BY <3>3, <3>4, OneStep
    <3> QED BY <3>2, <3>3, <3>5
  <2> QED BY <2>1, <2>2
<1> HIDE DEF z
<1>7. PlanOK(s, z \o <<OnArray("delete", m, ms), OnArray("remove node", m, <<>>)>> \o Generate)
  BY <1>2, <1>6, DeleteSteps DEF AreMembers, Umounts
<1> QED BY <1>3, <1>7

-----------------------------------------------------------------------------
(* The invariant                                                           *)

LEMMA NoPlan ==
  ASSUME NEW s, Clean(s) PROVE PlanOK(s, <<>>)
<1> DEFINE t == <<>>
<1>1. t \in Seq(Steps) /\ Len(t) = 0
  BY EmptySeq
<1> HIDE DEF t
<1>2. \A i \in 1 .. Len(t) : Sound(s, t, i)
  BY <1>1
<1>3. PlanOK(s, t)
  BY <1>1, <1>2, PlanList
<1> QED BY <1>3 DEF t

\* The next step of a plan leaves the disks in order, and a plan that suits them.
Continues(s, t, o) ==
  /\ Fine(s, o.s)
  /\ o.ok => PlanOK(o.s, o.more \o Tail(t))
  /\ ~o.ok => Clean(o.s)

LEMMA StepContinues ==
  ASSUME NEW s, DisksOK(s), NEW t, PlanOK(s, t), t # <<>>
  PROVE  Continues(s, t, Outcome(s, Head(t)))
<1> DEFINE c == Head(t)
           v == Tail(t)
           o == Outcome(s, c)
<1>1. c \in Steps /\ StepOK(c) /\ Ready(s, c)
  BY ReadyFirst
<1>2. v \in Seq(Steps) /\ Len(v) = Len(t) - 1 /\ Head(t) = t[1] /\ Len(t) \in Nat
  BY TailIs DEF PlanOK
<1>3. CASE c.op \notin Decisions
  <2>1. Good(s, c, o)
    <3>1. CASE c.op \in RaidCommands
      <4> HIDE DEF c
      <4> QED BY <1>1, <3>1, RaidCommandGood
    <3>2. CASE c.op \notin RaidCommands
      <4> HIDE DEF c
      <4>1. c.op \in Ops
        BY <1>1 DEF Steps
      <4>2. c.op \in DevOps \union DiskOps
        BY <1>3, <3>2, <4>1 DEF Ops
      <4> QED BY <1>1, <1>3, <4>2, DiskCommandGood
    <3> QED BY <3>1, <3>2
  <2>2. o.more = <<>> /\ Fine(s, o.s) /\ (o.ok => Follows(s, c, o.s)) /\ (~o.ok => Clean(o.s))
    BY <2>1 DEF Good
  <2>3. o.more \o v = v
    BY <1>2, <2>2, ConcatEmptySeq
  <2>4. ASSUME o.ok PROVE PlanOK(o.s, v)
    <3> DEFINE r == o.s
    <3>1. Follows(s, c, r)
      BY <2>2, <2>4
    <3> HIDE DEF r, o
    <3>2. PlanOK(r, v)
      BY <3>1, PlanTail
    <3> QED BY <3>2 DEF r
  <2> HIDE DEF o, v
  <2>5. Continues(s, t, o)
    BY <2>2, <2>3, <2>4 DEF Continues, v
  <2> QED BY <2>5 DEF o
<1>4. CASE c.op = "take member"
  <2> DEFINE d == c.disk
  <2>1. Clean(s) /\ Takes(t, d)
    BY <1>1, <1>2, <1>4 DEF Ready, Committing, Takes
  <2>2. o = TakeMember(s, d)
    BY <1>4, DecideIs
  <2>3. d \in Disks
    BY <1>1 DEF Steps
  <2> HIDE DEF d, c, o
  <2>4. TakeMember(s, d).s = s /\ (TakeMember(s, d).ok => PlanOK(s, TakeMember(s, d).more \o Tail(t)))
    BY <2>1, <2>3, TakeMemberPlan
  <2>5. Continues(s, t, o)
    BY <2>1, <2>2, <2>4, SameFine DEF Continues
  <2> QED BY <2>5 DEF o, c
<1>5. CASE c.op \in Decisions /\ c.op # "take member"
  <2>1. Due(s, c) /\ Len(t) = 1
    BY <1>5, DueFirst
  <2>2. v = <<>>
    <3> HIDE DEF v
    <3>1. Len(v) = 0
      BY <1>2, <2>1
    <3> QED BY <1>2, <3>1, EmptySeq
  <2>3. Decided(s, o)
    <3> HIDE DEF c
    <3> QED BY <1>1, <1>5, <2>1, DecisionGood
  <2> HIDE DEF c, o, v
  <2>4. ASSUME o.ok PROVE PlanOK(o.s, o.more \o v)
    <3>1. PlanOK(o.s, o.more)
      BY <2>3, <2>4 DEF Decided
    <3>2. o.more \in Seq(Steps)
      BY <3>1 DEF PlanOK
    <3>3. o.more \o <<>> = o.more
      BY <3>2, ConcatEmptySeq
    <3> QED BY <2>2, <3>1, <3>3
  <2>5. Continues(s, t, o)
    BY <2>3, <2>4 DEF Continues, Decided, v
  <2> QED BY <2>5 DEF o, c
<1> QED BY <1>3, <1>4, <1>5

LEMMA InitDisks ==
  ASSUME StorageInit PROVE StorageInv
<1>1. PICK old \in BOOLEAN :
        LET mine == <<SystemDisk, 1>>
            entries == IF old THEN {[dev |-> <<SystemDisk, 2>>, point |-> Chosen(<<SystemDisk, 2>>)]} ELSE {}
        IN  sys = [parts |-> [d \in Disks |-> IF d \in {SystemDisk, DataDisk} THEN 1 ELSE 0],
                   room |-> {SystemDisk},
                   fs |-> [dev \in Dev |->
                             IF dev \in {mine, <<DataDisk, 1>>} \/ (old /\ dev = <<SystemDisk, 2>>) THEN "ext4" ELSE "none"],
                   super |-> [d \in Disks |-> 0], gone |-> {},
                   run |-> [m \in Mds |-> NoArray], node |-> {},
                   mounts |-> {[dev |-> mine, point |-> Overlay]},
                   fstab |-> [file |-> entries, staged |-> entries],
                   mdadm |-> [file |-> <<>>, staged |-> <<>>], made |-> 0]
  BY DEF StorageInit
<1> DEFINE other == <<SystemDisk, 2>>
           fs == [dev \in Dev |-> IF dev \in {SysDev, <<DataDisk, 1>>} \/ (old /\ dev = other) THEN "ext4" ELSE "none"]
           entry == [dev |-> other, point |-> Chosen(other)]
           entries == IF old THEN {entry} ELSE {}
           own == [dev |-> SysDev, point |-> Overlay]
<1>2. /\ sys.parts = [d \in Disks |-> IF d \in {SystemDisk, DataDisk} THEN 1 ELSE 0]
      /\ sys.room = {SystemDisk} /\ sys.super = [d \in Disks |-> 0] /\ sys.gone = {}
      /\ sys.run = [m \in Mds |-> NoArray] /\ sys.node = {} /\ sys.made = 0
  BY <1>1
<1>3. sys.fs = fs
  BY <1>1 DEF SysDev
<1>4. sys.mounts = {own}
  BY <1>1 DEF SysDev
<1>5. sys.fstab = [file |-> entries, staged |-> entries]
  BY <1>1
<1>6. sys.mdadm = [file |-> <<>>, staged |-> <<>>]
  BY <1>1
<1>7. DOMAIN sys = {"parts", "room", "fs", "super", "gone", "run", "node", "mounts", "fstab", "mdadm", "made"}
  BY <1>1
<1> HIDE DEF fs, entries, own, entry, other
<1>8. other \in Dev /\ SysDev \in Dev /\ SysDev \in Parts /\ SysDev[1] = SystemDisk /\ SysDev[2] = 1 /\ other # SysDev
  BY DevParts DEF other, SysDev
<1>9. Chosen(other) \in Points \ {Overlay} /\ Overlay \in Points
  BY <1>8, PointsAre DEF Points
<1>10. entry \in Entry /\ own \in Entry /\ own.dev = SysDev /\ own.point = Overlay /\ entry.dev = other /\ entry.point # Overlay
  BY <1>8, <1>9 DEF entry, own, Entry
<1>11. entries \in SUBSET Entry /\ \A e \in entries : e = entry
  BY <1>10 DEF entries
<1>12. sys \in Storage
  <2>1. sys.parts \in [Disks -> 0 .. 2] /\ sys.room \in SUBSET Disks
    BY <1>2, BlockDevAssumption
  <2>2. sys.fs \in [Dev -> {"none", "ext4"}]
    BY <1>3 DEF fs
  <2>3. sys.super \in [Disks -> 0 .. MaxArrays] /\ sys.gone \in SUBSET Disks /\ sys.made \in 0 .. MaxArrays
    BY <1>2, BlockDevAssumption
  <2>4. sys.run \in [Mds -> [id : 0 .. MaxArrays, members : SUBSET Disks]] /\ sys.node \in SUBSET Mds
    BY <1>2, BlockDevAssumption DEF NoArray
  <2>5. sys.mounts \in SUBSET Entry
    BY <1>4, <1>10
  <2>6. sys.fstab \in [file : SUBSET Entry, staged : SUBSET Entry]
    BY <1>5, <1>11
  <2>7. sys.mdadm \in [file : Seq([md : Mds, id : 0 .. MaxArrays]), staged : Seq([md : Mds, id : 0 .. MaxArrays])]
    BY <1>6
  <2>8. sys = [parts |-> sys.parts, room |-> sys.room, fs |-> sys.fs, super |-> sys.super, gone |-> sys.gone,
               run |-> sys.run, node |-> sys.node, mounts |-> sys.mounts, fstab |-> sys.fstab, mdadm |-> sys.mdadm,
               made |-> sys.made]
    BY <1>1
  <2> QED BY <2>1, <2>2, <2>3, <2>4, <2>5, <2>6, <2>7, <2>8 DEF Storage
<1>13. MountsOK(sys)
  <2>1. sys.fs[SysDev] = "ext4"
    BY <1>3, <1>8 DEF fs
  <2>2. There(sys, SysDev)
    <3>1. sys.parts[SystemDisk] = 1
      BY <1>2, BlockDevAssumption
    <3> QED BY <1>8, <3>1 DEF There
  <2> QED BY <1>4, <1>8, <1>10, <2>1, <2>2 DEF MountsOK
<1>14. ArraysOK(sys)
  <2>1. \A m \in Mds : sys.run[m].id = 0 /\ sys.run[m].members = {}
    BY <1>2 DEF NoArray
  <2>2. \A d \in Disks : sys.super[d] = 0
    BY <1>2
  <2> QED BY <1>2, <2>1, <2>2 DEF ArraysOK
<1>15. EntriesOK(sys, entries)
  BY <1>8, <1>10, <1>11 DEF EntriesOK
<1>16. sys.fstab.file = entries /\ sys.fstab.staged = entries
  BY <1>5
<1>17. DisksOK(sys)
  BY <1>12, <1>13, <1>14, <1>15, <1>16 DEF DisksOK
<1>18. Clean(sys) /\ todo = <<>>
  BY <1>16 DEF Clean, StorageInit
<1>19. PlanOK(sys, todo)
  BY <1>18, NoPlan
<1> QED BY <1>17, <1>19 DEF StorageInv

\* A step of the specification changes the disks as a command may, or is a boot.
Changes == Fine(sys, sys') \/ sys' = Boot(sys)

LEMMA RequestKeeps ==
  ASSUME StorageInv, NEW steps, Request(steps), Clean(sys) => PlanOK(sys, steps)
  PROVE  StorageInv' /\ Changes
<1>1. sys' = sys /\ todo' = steps /\ todo = <<>>
  BY DEF Request
<1>2. Clean(sys)
  <2>1. StagedOK(sys, todo)
    BY DEF StorageInv, PlanOK
  <2> QED BY <1>1, <2>1 DEF StagedOK
<1>3. DisksOK(sys') /\ PlanOK(sys', todo')
  BY <1>1, <1>2 DEF StorageInv
<1>4. Fine(sys, sys')
  BY <1>1, SameFine DEF StorageInv
<1> QED BY <1>3, <1>4 DEF StorageInv, Changes

LEMMA StorageStep ==
  ASSUME StorageInv, [StorageNext]_storageVars
  PROVE  StorageInv' /\ Changes
<1> DEFINE c == Head(todo)
           o == Outcome(sys, c)
<1>0. DisksOK(sys) /\ PlanOK(sys, todo)
  BY DEF StorageInv
<1>1. CASE StepDone
  <2>1. todo # <<>> /\ o.ok /\ sys' = o.s /\ todo' = o.more \o Tail(todo)
    BY <1>1 DEF StepDone
  <2>2. Continues(sys, todo, o)
    BY <1>0, <2>1, StepContinues
  <2> HIDE DEF c, o
  <2>3. Fine(sys, sys') /\ PlanOK(sys', todo')
    BY <2>1, <2>2 DEF Continues
  <2>4. DisksOK(sys')
    BY <2>3 DEF Fine
  <2> QED BY <2>3, <2>4 DEF StorageInv, Changes
<1>2. CASE StepFails
  <2>1. todo # <<>> /\ todo' = <<>> /\ ((~o.ok /\ sys' = o.s) \/ sys' \in Faults(sys, c))
    BY <1>2 DEF StepFails
  <2>2. Continues(sys, todo, o)
    BY <1>0, <2>1, StepContinues
  <2>3. c \in Steps /\ StepOK(c) /\ Ready(sys, c)
    BY <1>0, <2>1, ReadyFirst
  <2> HIDE DEF c, o
  <2>4. Fine(sys, sys') /\ Clean(sys')
    <3>1. CASE ~o.ok /\ sys' = o.s
      BY <2>2, <3>1 DEF Continues
    <3>2. CASE sys' \in Faults(sys, c)
      BY <1>0, <2>3, <3>2, FaultFine
    <3> QED BY <2>1, <3>1, <3>2
  <2>5. DisksOK(sys')
    BY <2>4 DEF Fine
  <2>6. PlanOK(sys', todo')
    BY <2>1, <2>4, NoPlan
  <2> QED BY <2>4, <2>5, <2>6 DEF StorageInv, Changes
<1>3. CASE NasDiskPartitionMount
  <2>1. PICK dev \in getAllDisks(sys) : Request(<<AtPoint("mount partition", dev, Chosen(dev))>>)
    BY <1>3 DEF NasDiskPartitionMount
  <2>2. dev \in Dev
    BY <2>1, AllDisksAre
  <2>3. Clean(sys) => PlanOK(sys, <<AtPoint("mount partition", dev, Chosen(dev))>>)
    BY <2>2, MountRequest
  <2> QED BY <2>1, <2>3, RequestKeeps
<1>4. CASE NasDiskPartitionFormat
  <2>1. PICK dev \in getAllDisks(sys) : Request(<<On("format", dev)>>)
    BY <1>4 DEF NasDiskPartitionFormat
  <2>2. dev \in Dev
    BY <2>1, AllDisksAre
  <2>3. Clean(sys) => PlanOK(sys, <<On("format", dev)>>)
    BY <2>2, FormatRequest
  <2> QED BY <2>1, <2>3, RequestKeeps
<1>5. CASE NasDiskInit
  <2>1. CASE \E d \in Disks : Request(<<OnDisk("init", d)>>)
    <3>1. PICK d \in Disks : Request(<<OnDisk("init", d)>>)
      BY <2>1
    <3>2. Clean(sys) => PlanOK(sys, <<OnDisk("init", d)>>)
      BY InitRequest
    <3> QED BY <3>1, <3>2, RequestKeeps
  <2>2. CASE \E m \in Mds : sys.run[m].id # 0 /\ Request(<<On("init array", ArrayOn(sys, m))>>)
    <3>1. PICK m \in Mds : sys.run[m].id # 0 /\ Request(<<On("init array", ArrayOn(sys, m))>>)
      BY <2>2
    <3> DEFINE dev == ArrayOn(sys, m)
    <3>2. dev \in Dev
      <4>1. sys.run[m].id \in 0 .. MaxArrays
        BY <1>0 DEF DisksOK, Storage
      <4>2. sys.run[m].id \in 1 .. MaxArrays
        <5>1. sys.run[m].id # 0
          BY <3>1
        <5>2. \A k \in 0 .. MaxArrays : k # 0 => k \in 1 .. MaxArrays
          BY BlockDevAssumption
        <5> QED BY <4>1, <5>1, <5>2
      <4> QED BY <4>2 DEF ArrayOn, Dev, Arrays
    <3> HIDE DEF dev
    <3>3. Clean(sys) => PlanOK(sys, <<On("init array", dev)>>)
      BY <3>2, InitArrayRequest
    <3> QED BY <3>1, <3>3, RequestKeeps DEF dev
  <2> QED BY <1>5, <2>1, <2>2 DEF NasDiskInit
<1>6. CASE NasDiskInitRest
  <2>1. PICK d \in Disks, region \in FreeRegions : Request(<<[OnDisk("init rest", d) EXCEPT !.range = region]>>)
    BY <1>6 DEF NasDiskInitRest
  <2>2. Clean(sys) => PlanOK(sys, <<[OnDisk("init rest", d) EXCEPT !.range = region]>>)
    BY InitRestRequest
  <2> QED BY <2>1, <2>2, RequestKeeps
<1>7. CASE NasSanboxPartitionFormat
  <2>1. PICK dev \in getAllDisks(sys) \intersect Parts : Request(<<On("format partition", dev)>>)
    BY <1>7 DEF NasSanboxPartitionFormat
  <2>2. dev \in Dev /\ dev \in Parts
    BY <2>1, AllDisksAre
  <2>3. Clean(sys) => PlanOK(sys, <<On("format partition", dev)>>)
    BY <2>2, SandboxRequest
  <2> QED BY <2>1, <2>3, RequestKeeps
<1>8. CASE RaidPostCreate
  <2>1. PICK members \in UNION {[1 .. n -> Disks] : n \in 1 .. 2} : sys.made < MaxArrays /\ Request(Create(members))
    BY <1>8 DEF RaidPostCreate
  <2>2. PICK n \in 1 .. 2 : members \in [1 .. n -> Disks]
    BY <2>1
  <2>3. Clean(sys) => PlanOK(sys, Create(members))
    BY <2>1, <2>2, CreateRequest
  <2> QED BY <2>1, <2>3, RequestKeeps
<1>9. CASE RaidPostDelete
  <2>1. PICK m \in Mds : Request(Delete(sys, m))
    BY <1>9 DEF RaidPostDelete
  <2>2. Clean(sys) => PlanOK(sys, Delete(sys, m))
    BY <1>0, DeleteRequest
  <2> QED BY <2>1, <2>2, RequestKeeps
<1>10. CASE RaidPostAdd
  <2>1. PICK m \in Mds, d \in CreateList(sys) : Request(Add(m, d))
    BY <1>10 DEF RaidPostAdd
  <2>2. Clean(sys) => PlanOK(sys, Add(m, d))
    BY <1>0, AddRequest
  <2> QED BY <2>1, <2>2, RequestKeeps
<1>11. CASE RaidPostRecover
  <2>1. PICK m \in Mds, d \in CreateList(sys) : Request(Add(m, d))
    BY <1>11 DEF RaidPostRecover, Recover
  <2>2. Clean(sys) => PlanOK(sys, Add(m, d))
    BY <1>0, AddRequest
  <2> QED BY <2>1, <2>2, RequestKeeps
<1>12. CASE RaidPostRemove
  <2>1. PICK m \in Mds : \E d \in sys.run[m].members : Request(RemoveMember(m, d))
    BY <1>12 DEF RaidPostRemove
  <2>2. PICK d \in sys.run[m].members : Request(RemoveMember(m, d))
    BY <2>1
  <2>3. d \in Disks
    BY <1>0 DEF DisksOK, Storage
  <2>4. Clean(sys) => PlanOK(sys, RemoveMember(m, d))
    BY <2>3, RemoveRequest
  <2> QED BY <2>2, <2>4, RequestKeeps
<1>13. CASE RaidAutoFix
  <2>1. Request(AutoFix)
    BY <1>13 DEF RaidAutoFix
  <2>2. Clean(sys) => PlanOK(sys, AutoFix)
    BY AutoFixRequest
  <2> QED BY <2>1, <2>2, RequestKeeps
<1>14. CASE Reboot
  <2>1. sys' = Boot(sys) /\ todo' = <<>>
    BY <1>14 DEF Reboot
  <2>2. DisksOK(sys') /\ Clean(sys')
    BY <1>0, <2>1, BootOK DEF Clean
  <2>3. PlanOK(sys', todo')
    BY <2>1, <2>2, NoPlan
  <2> QED BY <2>1, <2>2, <2>3 DEF StorageInv, Changes
<1>15. CASE UNCHANGED storageVars
  <2>1. sys' = sys /\ todo' = todo
    BY <1>15 DEF storageVars
  <2> QED BY <1>0, <2>1, SameFine DEF StorageInv, Changes
<1> QED BY <1>1, <1>2, <1>3, <1>4, <1>5, <1>6, <1>7, <1>8, <1>9, <1>10, <1>11, <1>12, <1>13, <1>14, <1>15
        DEF StorageNext

\* The disks and the steps that are left of the request always suit each other:
\* the inductive invariant from which the rest follows.
THEOREM StoragePlansSound == StorageSpec => []StorageInv
<1>1. StorageInit => StorageInv
  BY InitDisks
<1>2. StorageInv /\ [StorageNext]_storageVars => StorageInv'
  BY StorageStep
<1> QED BY <1>1, <1>2, PTL DEF StorageSpec

\* No disk of a running array loses its superblock, whatever is erased, formatted
\* or stopped, and whatever fails on the way.
THEOREM StorageKeepsMembers == StorageSpec => MembersKept
<1> DEFINE Kept == \A m \in Mds : \A d \in sys.run[m].members :
                     sys'.run[m].id = sys.run[m].id /\ d \in sys'.run[m].members => sys'.super[d] = sys.run[m].id
<1>1. StorageInv /\ [StorageNext]_storageVars => [Kept]_storageVars
  <2> SUFFICES ASSUME StorageInv, [StorageNext]_storageVars PROVE Kept
    OBVIOUS
  <2>1. Changes
    BY StorageStep
  <2>2. CASE Fine(sys, sys')
    BY <2>2 DEF Fine, SafeStep
  <2>3. CASE sys' = Boot(sys)
    <3>1. MembersKeep(sys, Boot(sys))
      BY BootOK DEF StorageInv
    <3> QED BY <2>3, <3>1 DEF MembersKeep
  <2> QED BY <2>1, <2>2, <2>3 DEF Changes
<1>2. StorageSpec => []StorageInv
  BY StoragePlansSound
<1> QED BY <1>1, <1>2, PTL DEF StorageSpec, MembersKept

-----------------------------------------------------------------------------
(* The refinement of DiskData                                              *)

OverlayOf(s) == (CHOOSE e \in s.mounts : e.point = Overlay).dev
DevsOf(s) == {e.dev : e \in s.mounts}

LEMMA OverlayUsed ==
  ASSUME NEW s, DisksOK(s)
  PROVE  OverlayOf(s) \in DevsOf(s) /\ DevsOf(s) \subseteq Dev /\ s.fs \in [Dev -> {"none", "ext4"}]
<1>1. \E e \in s.mounts : e.point = Overlay
  BY DEF DisksOK, MountsOK
<1>2. OverlayOf(s) \in DevsOf(s)
  BY <1>1 DEF OverlayOf, DevsOf
<1>3. \A e \in s.mounts : e.dev \in Dev
  BY DEF DisksOK, Storage, Entry
<1>4. s.fs \in [Dev -> {"none", "ext4"}]
  BY DEF DisksOK, Storage
<1> QED BY <1>2, <1>3, <1>4 DEF DevsOf

\* A command keeps the overlay.
LEMMA OverlaySame ==
  ASSUME NEW s, DisksOK(s), NEW r, Fine(s, r)
  PROVE  OverlayOf(r) = OverlayOf(s)
<1>1. PICK o \in s.mounts : o.point = Overlay /\ \A e \in s.mounts : e.point = Overlay => e = o
  BY DEF DisksOK, MountsOK
<1>2. {e \in r.mounts : e.point = Overlay} = {e \in s.mounts : e.point = Overlay}
  BY DEF Fine, SafeStep
<1>3. o \in r.mounts /\ \A e \in r.mounts : e.point = Overlay => e = o
  BY <1>1, <1>2
<1>4. (CHOOSE e \in s.mounts : e.point = Overlay) = o
  BY <1>1
<1>5. (CHOOSE e \in r.mounts : e.point = Overlay) = o
  BY <1>1, <1>3
<1> QED BY <1>4, <1>5 DEF OverlayOf

LEMMA DataStep ==
  ASSUME StorageInv, StorageInv', Changes
  PROVE  /\ [Data!Next]_<<sys.fs, MountedDevs, OverlayDev>>
         /\ sys' # Boot(sys) => OverlayDev' = OverlayDev
<1>1. OverlayDev = OverlayOf(sys) /\ OverlayDev' = OverlayOf(sys')
  BY DEF OverlayDev, OverlayOf
<1>2. MountedDevs = DevsOf(sys) /\ MountedDevs' = DevsOf(sys')
  BY DEF MountedDevs, DevsOf
<1>3. DisksOK(sys) /\ DisksOK(sys')
  BY DEF StorageInv
<1>4. OverlayOf(sys') \in DevsOf(sys') /\ DevsOf(sys') \subseteq Dev /\ sys'.fs \in [Dev -> {"none", "ext4"}]
  BY <1>3, OverlayUsed
<1>5. CASE Fine(sys, sys')
  <2>1. OverlayOf(sys') = OverlayOf(sys)
    BY <1>3, <1>5, OverlaySame
  <2>2. \/ sys'.fs = sys.fs
        \/ sys'.mounts = sys.mounts /\ \A e \in sys.mounts : sys'.fs[e.dev] = sys.fs[e.dev]
    BY <1>5 DEF Fine, SafeStep
  <2>3. CASE sys'.fs = sys.fs
    <3>1. Data!Use
      BY <1>1, <1>2, <1>4, <2>1, <2>3 DEF Data!Use
    <3> QED BY <1>1, <2>1, <3>1 DEF Data!Next
  <2>4. CASE sys'.mounts = sys.mounts /\ \A e \in sys.mounts : sys'.fs[e.dev] = sys.fs[e.dev]
    <3>1. DevsOf(sys') = DevsOf(sys)
      BY <2>4 DEF DevsOf
    <3>2. \A d \in DevsOf(sys) : sys'.fs[d] = sys.fs[d]
      BY <2>4 DEF DevsOf
    <3>3. Data!Write
      BY <1>1, <1>2, <1>4, <2>1, <3>1, <3>2 DEF Data!Write
    <3> QED BY <1>1, <2>1, <3>3 DEF Data!Next
  <2> QED BY <2>2, <2>3, <2>4
<1>6. CASE sys' = Boot(sys)
  <2>1. sys'.fs = sys.fs
    BY <1>3, <1>6, BootOK
  <2>2. Data!Reboot
    BY <1>1, <1>2, <1>4, <2>1 DEF Data!Reboot
  <2> QED BY <1>6, <2>2 DEF Data!Next
<1> QED BY <1>5, <1>6 DEF Changes

\* The storage requests implement DiskData: a file system in use is neither made
\* anew nor wiped, and only a reboot changes the overlay, for any disks and any
\* failures.
THEOREM StorageRefinesData == StorageSpec => ImplementsDiskData
<1>1. StorageInv => Data!Init
  <2> SUFFICES ASSUME StorageInv PROVE Data!Init
    OBVIOUS
  <2>1. OverlayOf(sys) \in DevsOf(sys) /\ DevsOf(sys) \subseteq Dev /\ sys.fs \in [Dev -> {"none", "ext4"}]
    BY OverlayUsed DEF StorageInv
  <2> QED BY <2>1 DEF Data!Init, OverlayOf, DevsOf, OverlayDev, MountedDevs
<1>2. StorageInv /\ [StorageNext]_storageVars
        => /\ [Data!Next]_<<sys.fs, MountedDevs, OverlayDev>>
           /\ [sys' # Boot(sys) => OverlayDev' = OverlayDev]_storageVars
  <2> SUFFICES ASSUME StorageInv, [StorageNext]_storageVars
               PROVE  /\ [Data!Next]_<<sys.fs, MountedDevs, OverlayDev>>
                      /\ sys' # Boot(sys) => OverlayDev' = OverlayDev
    OBVIOUS
  <2>1. StorageInv' /\ Changes
    BY StorageStep
  <2> QED BY <2>1, DataStep
<1>3. StorageSpec => []StorageInv
  BY StoragePlansSound
<1>4. StorageInit => StorageInv
  BY InitDisks
<1> QED BY <1>1, <1>2, <1>3, <1>4, PTL DEF StorageSpec, ImplementsDiskData, OverlayKept, Data!Spec

-----------------------------------------------------------------------------
(* The files and the steps                                                 *)

\* What the requests have mounted, or will have, are entries of devices there can be.
EntriesInv ==
  /\ faults \in 0 .. MaxFaults
  /\ fresh \subseteq Entry /\ kept \subseteq Entry
  /\ todo = <<>> => fresh = {}

LEMMA PromisedEntries ==
  ASSUME StorageInv, todo # <<>>
  PROVE  Promised(Head(todo)) \subseteq Entry
<1> DEFINE c == Head(todo)
<1>1. c \in Steps /\ StepOK(c) /\ Ready(sys, c)
  BY ReadyFirst DEF StorageInv
<1> HIDE DEF c
<1>2. CASE c.op = "create"
  <2> DEFINE dev == <<"array", sys.made + 1>>
  <2>1. sys.made < MaxArrays
    BY <1>1, <1>2 DEF Ready
  <2>2. sys.made \in 0 .. MaxArrays
    BY DEF StorageInv, DisksOK, Storage
  <2>3. sys.made + 1 \in 1 .. MaxArrays
    BY <2>1, <2>2, BlockDevAssumption
  <2>4. dev \in Dev
    BY <2>3 DEF Dev, Arrays
  <2>5. Promised(c) = {[dev |-> dev, point |-> Generated(dev)]}
    BY <1>2 DEF Promised
  <2> HIDE DEF dev
  <2>6. Generated(dev) \in Points
    BY <2>4, PointsAre
  <2>7. [dev |-> dev, point |-> Generated(dev)] \in Entry
    BY <2>4, <2>6 DEF Entry
  <2> QED BY <2>5, <2>7 DEF c
<1>3. CASE c.op = "mount" \/ c.op = "mount or commit"
  <2>1. c.dev \in Dev /\ c.point \in Points
    BY <1>1, <1>3 DEF StepOK, DevOps, MountOps
  <2>2. Promised(c) = {[dev |-> c.dev, point |-> c.point]} \/ Promised(c) = {}
    BY <1>3 DEF Promised
  <2>3. [dev |-> c.dev, point |-> c.point] \in Entry
    BY <2>1 DEF Entry
  <2>4. Promised(c) \subseteq Entry
    BY <2>2, <2>3
  <2> QED BY <2>4 DEF c
<1>4. CASE c.op # "create" /\ c.op # "mount" /\ c.op # "mount or commit"
  <2>1. Promised(c) = {}
    BY <1>4 DEF Promised
  <2> QED BY <2>1 DEF c
<1> QED BY <1>2, <1>3, <1>4

LEMMA EntriesStep ==
  ASSUME StorageInv, EntriesInv, [StorageNext]_storageVars
  PROVE  EntriesInv'
<1>1. CASE StepDone
  <2> DEFINE c == Head(todo)
             o == Outcome(sys, c)
             new == fresh \union Promised(c)
             left == o.more \o Tail(todo)
  <2>1. /\ todo # <<>> /\ todo' = left /\ faults' = faults
        /\ fresh' = IF left = <<>> THEN {} ELSE new
        /\ kept' = StillMounted(o.s, IF left = <<>> THEN kept \union new ELSE kept)
    BY <1>1 DEF StepDone
  <2>2. new \subseteq Entry /\ kept \subseteq Entry
    BY <2>1, PromisedEntries DEF EntriesInv
  <2> HIDE DEF new, left, o
  <2>3. fresh' \subseteq Entry /\ kept' \subseteq Entry
    BY <2>1, <2>2 DEF StillMounted
  <2>4. todo' = <<>> => fresh' = {}
    BY <2>1
  <2> QED BY <2>1, <2>3, <2>4 DEF EntriesInv
<1>2. CASE StepFails
  <2> DEFINE o == Outcome(sys, Head(todo))
             broken == Faults(sys, Head(todo))
  <2>0. /\ \/ ~o.ok /\ sys' = o.s /\ UNCHANGED <<faults, offer>>
           \/ faults < MaxFaults /\ sys' \in broken /\ faults' = faults + 1 /\ UNCHANGED offer
        /\ fresh' = {} /\ kept' = StillMounted(sys', kept)
    BY <1>2, Zenon DEF StepFails
  <2> HIDE DEF o, broken
  <2>1. fresh' = {} /\ kept' = StillMounted(sys', kept)
    BY <2>0
  <2>2. faults' \in 0 .. MaxFaults
    <3>1. faults' = faults \/ (faults < MaxFaults /\ faults' = faults + 1)
      BY <2>0, Zenon
    <3> QED BY <3>1, StorageAssumption DEF EntriesInv
  <2>3. kept' \subseteq Entry
    BY <2>1 DEF StillMounted, EntriesInv
  <2> QED BY <2>1, <2>2, <2>3 DEF EntriesInv
<1>3. CASE \E steps : Request(steps)
  BY <1>3 DEF Request, EntriesInv
<1>4. CASE Reboot
  <2>1. fresh' = {} /\ kept' = StillMounted(sys', kept) /\ faults' = faults
    BY <1>4 DEF Reboot
  <2> QED BY <2>1 DEF EntriesInv, StillMounted
<1>5. CASE UNCHANGED storageVars
  BY <1>5 DEF storageVars, EntriesInv
<1>6. ASSUME \/ NasDiskPartitionMount \/ NasDiskPartitionFormat \/ NasDiskInit \/ NasDiskInitRest
             \/ NasSanboxPartitionFormat
             \/ RaidPostCreate \/ RaidPostDelete \/ RaidPostAdd \/ RaidPostRecover \/ RaidPostRemove
             \/ RaidAutoFix
      PROVE  \E steps : Request(steps)
  BY <1>6 DEF NasDiskPartitionMount, NasDiskPartitionFormat, NasDiskInit, NasDiskInitRest, NasSanboxPartitionFormat,
              RaidPostCreate, RaidPostDelete, RaidPostAdd, RaidPostRecover, RaidPostRemove, RaidAutoFix
<1> QED BY <1>1, <1>2, <1>3, <1>4, <1>5, <1>6 DEF StorageNext

\* Sectors: the partition begins and ends in the free space, if it is one.
LEMMA AlignedInside ==
  ASSUME NEW region \in FreeRegions, Aligned(region)[1] <= Aligned(region)[2]
  PROVE  region[1] <= Aligned(region)[1] /\ Aligned(region)[2] <= region[2]
<1>1. region[1] \in Nat /\ region[2] \in Nat
  BY StorageAssumption
<1> DEFINE x == ((region[1] + 2047) \div 2048) * 2048
           y == IF region[2] < 512 THEN -1 ELSE ((region[2] - 512) \div 2048) * 2048
<1>2. Aligned(region) = <<x, y>>
  BY DEF Aligned
<1>3. region[1] <= x /\ x \in Nat
  BY <1>1
<1>4. y <= region[2]
  BY <1>1
<1> HIDE DEF x, y
<1> QED BY <1>2, <1>3, <1>4

\* What the runs check of the disks and their files, but for the mounts that come
\* back after a boot: types, one entry of fstab for a file system and one overlay,
\* nothing staged between requests, a node for every running array, and new
\* partitions inside the free space.
THEOREM StorageFilesCorrect == StorageSpec => [](StorageTypeOK /\ OneEntry /\ RunningHasNode /\ RangeInside)
<1>1. StorageInit => EntriesInv
  BY StorageAssumption DEF StorageInit, EntriesInv
<1>2. StorageInv /\ EntriesInv /\ [StorageNext]_storageVars => EntriesInv'
  BY EntriesStep
<1>3. StorageInv /\ EntriesInv => StorageTypeOK /\ OneEntry /\ RunningHasNode /\ RangeInside
  <2> SUFFICES ASSUME StorageInv, EntriesInv PROVE StorageTypeOK /\ OneEntry /\ RunningHasNode /\ RangeInside
    OBVIOUS
  <2>1. DisksOK(sys) /\ PlanOK(sys, todo)
    BY DEF StorageInv
  <2>2. StorageTypeOK
    BY <2>1 DEF EntriesInv, StorageTypeOK, DisksOK, ArraysOK
  <2>3. OneEntry
    <3>1. todo = <<>> => sys.fstab.staged = sys.fstab.file
      BY <2>1 DEF PlanOK, StagedOK, Clean
    <3>2. EntriesOK(sys, sys.fstab.file)
      BY <2>1 DEF DisksOK
    <3> QED BY <3>1, <3>2 DEF OneEntry, EntriesOK
  <2>4. RunningHasNode
    BY <2>1 DEF DisksOK, ArraysOK, RunningHasNode
  <2>5. RangeInside
    <3> DEFINE c == Head(todo)
    <3> SUFFICES ASSUME todo # <<>>, c.op = "mkpart range", c.range[1] <= c.range[2]
                 PROVE  \E region \in FreeRegions : /\ Aligned(region) = c.range
                                                    /\ region[1] <= c.range[1] /\ c.range[2] <= region[2]
      BY DEF RangeInside
    <3>1. StepOK(c)
      BY <2>1, ReadyFirst
    <3> HIDE DEF c
    <3>2. PICK region \in FreeRegions : c.range = Aligned(region)
      BY <3>1 DEF StepOK
    <3>3. region[1] <= Aligned(region)[1] /\ Aligned(region)[2] <= region[2]
      BY <3>2, AlignedInside
    <3> QED BY <3>2, <3>3
  <2> QED BY <2>2, <2>3, <2>4, <2>5
<1>4. StorageSpec => []StorageInv
  BY StoragePlansSound
<1> QED BY <1>1, <1>2, <1>3, <1>4, PTL DEF StorageSpec
==============================================================================
