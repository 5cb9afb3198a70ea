------------------------------- MODULE RaidFlow -------------------------------
(***************************************************************************)
(* The requests on md arrays and the UCI package mdadm, from which the     *)
(* arrays are assembled at boot.                                           *)
(*                                                                         *)
(*   backend/modules/raid/writeflow/service.go, mdadmconfig/service.go     *)
(*   backend/service/raid.go, raid_write_usecase.go,                       *)
(*   raid_mdadm_config_usecase.go                                          *)
(***************************************************************************)
EXTENDS DiskFlow

\* An array is made of two disks or more (levels 0, 1 and linear); levels 5, 6
\* and 10 ask for more.
ValidateMemberCount(members, least) == Len(members) >= least

OnArray(op, m, members) == [Step(op) EXCEPT !.md = m, !.members = members]

Generate == <<Step("clear arrays"), Step("scan"), Step("commit mdadm")>>

-----------------------------------------------------------------------------
(* Create                                                                  *)

Create(members) ==
  [i \in 1 .. Len(members) |-> OnDisk("take member", members[i])]
  \o <<[Step("choose md") EXCEPT !.members = members]>>

\* One pass of the loop over the disks of the request.
TakeMember(s, d) ==
  LET Unmounting(dev) == UnmountSteps(s, dev)
  IN  IF is_raid_member(s, d) THEN Fail(s)
      ELSE Then(s, ForEach(PartsOf(s, d), Unmounting) \o <<OnDisk("erase", d), OnDisk("mkraid", d)>>)

\* FindFreeMd, RunCreate, the configuration, and the formatting of the handler.
ChooseMd(s, members) ==
  IF findFreeMd(s, 0) = {} THEN Fail(s)
  ELSE LET m == CHOOSE m \in findFreeMd(s, 0) : TRUE
       IN  Then(s, <<OnArray("create", m, members)>> \o Generate \o <<OnArray("format array", m, <<>>)>>)

\* A creation that fails has its node removed.
CleanupCreatedDevice(s, m) == Fail([s EXCEPT !.node = @ \ {m}])

RunCreate(s, m, members) ==
  LET id == s.made + 1
      disks == {members[i] : i \in 1 .. Len(members)}
  IN  IF s.run[m].id # 0 \/ ~IsInjective(members) \/ \E d \in disks : s.parts[d] # 1 \/ DiskBusy(s, d)
        THEN CleanupCreatedDevice(s, m)
      ELSE Done([s EXCEPT !.made = id, !.node = @ \union {m},
                          !.run[m] = [id |-> id, members |-> disks],
                          !.super = [d \in Disks |-> IF d \in disks THEN id ELSE @[d]]])

-----------------------------------------------------------------------------
(* Delete                                                                  *)

\* The mount path is the one the list of arrays shows, or none.
Delete(s, m) ==
  (IF Mounted(s, ArrayOn(s, m)) THEN <<[Step("umount path") EXCEPT !.point = MountPointOf(s, ArrayOn(s, m))]>>
   ELSE <<>>)
  \o <<OnArray("delete", m, SetToSeq(s.run[m].members)), OnArray("remove node", m, <<>>)>> \o Generate

\* mdadm --stop, and the superblocks of those members that are zeroed.
Stop(s, m, zeroed) ==
  [s EXCEPT !.run[m] = NoArray,
            !.super = [d \in Disks |-> IF d \in zeroed THEN 0 ELSE @[d]]]

\* Stop, remove and zero-superblock.  The last one's status is the answer, and it
\* refuses the members of an array that is still running.
RunDelete(s, m, members) ==
  IF Mounted(s, ArrayOn(s, m)) THEN Fail(s)
  ELSE Done(Stop(s, m, {members[i] : i \in 1 .. Len(members)}))

RemoveDeletedDevice(s, m) == Done([s EXCEPT !.node = @ \ {m}])

-----------------------------------------------------------------------------
(* Add, Remove, Recover                                                    *)

Add(m, d) == <<OnDisk("erase", d), OnDisk("mkraid", d), [OnArray("add", m, <<>>) EXCEPT !.disk = d]>>

\* Recover is given the path of the member and asks ReadDisk for a disk of that
\* name: there is none, so CheckRaidPartition makes no difference.
Recover(m, d, checkRaidPartition) == Add(m, d)

RemoveMember(m, d) == <<[OnArray("remove", m, <<>>) EXCEPT !.disk = d]>>

RunAdd(s, m, d) ==
  IF s.run[m].id = 0 \/ s.parts[d] # 1 \/ DiskBusy(s, d) THEN Fail(s)
  ELSE Done([s EXCEPT !.run[m].members = @ \union {d}, !.super[d] = s.run[m].id, !.gone = @ \ {d}])

\* mdadm --fail and --remove; the last member cannot be removed.
RunRemove(s, m, d) ==
  IF d \notin s.run[m].members \/ s.run[m].members = {d} THEN Fail(s)
  ELSE Done([s EXCEPT !.run[m].members = @ \ {d}, !.gone = @ \union {d}])

-----------------------------------------------------------------------------
(* mdadmconfig                                                             *)

\* clearExistingArrays: as many deletions as the file has arrays, each of the
\* first one that is staged.
clearExistingArrays(s) ==
  LET n == Len(s.mdadm.file)
      k == Len(s.mdadm.staged)
  IN  IF k < n THEN Fail([s EXCEPT !.mdadm.staged = <<>>])
      ELSE Done([s EXCEPT !.mdadm.staged = SubSeq(@, n + 1, k)])

\* The numbers of a set from the least one on.
InOrder(S) == [i \in 1 .. Cardinality(S) |-> CHOOSE m \in S : Cardinality({n \in S : n < m}) = i - 1]

\* Mutant: the first array is taken for a heading.
MutScan(s) ==
  LET running == InOrder({m \in Mds : s.run[m].id # 0})
      found == [i \in 1 .. Len(running) |-> [md |-> running[i], id |-> s.run[running[i]].id]]
  IN  Done([s EXCEPT !.mdadm.staged = @ \o SubSeq(found, 2, Len(found))])

\* "mdadm -Ds", parseScannedArrays and AddArray.
Scan(s) ==
  LET running == InOrder({m \in Mds : s.run[m].id # 0})
  IN  Done([s EXCEPT !.mdadm.staged =
              @ \o [i \in 1 .. Len(running) |-> [md |-> running[i], id |-> s.run[running[i]].id]]])

CommitMdadm(s) == Done([s EXCEPT !.mdadm.file = s.mdadm.staged])

\* DiscoverMemberUUIDs: without any, one UUID that is empty.
MemberUUIDs(s) ==
  LET ids == {s.super[d] : d \in Disks} \ {0} IN IF ids = {} THEN <<0>> ELSE InOrder(ids)

\* AutoFix: each gets the next number without a node, those of running arrays
\* among them; when the numbers are used up the rest is left out.
AutoFixArrays(s) ==
  LET ids == MemberUUIDs(s)
      free == InOrder(Mds \ s.node)
      n == IF Len(ids) < Len(free) THEN Len(ids) ELSE Len(free)
  IN  Done([s EXCEPT !.mdadm.staged = @ \o [i \in 1 .. n |-> [md |-> free[i], id |-> ids[i]]]])

AutoFix == <<Step("clear arrays"), Step("autofix"), Step("commit mdadm"), Step("restart mdadm")>>

\* What starts an array from its entry: the members whose superblocks are up to
\* date.  An array that runs, and a number that is taken, are left alone.
StartArray(s, e) ==
  LET members == {d \in Disks : s.super[d] = e.id /\ d \notin s.gone}
  IN  IF e.id = 0 \/ members = {} \/ s.run[e.md].id # 0 \/ \E m \in Mds : s.run[m].id = e.id THEN s
      ELSE [s EXCEPT !.run[e.md] = [id |-> e.id, members |-> members], !.node = @ \union {e.md}]

\* One entry of the file after the other.
Assemble(s) ==
  LET up[k \in 0 .. Len(s.mdadm.file)] ==
        IF k = 0 THEN s ELSE StartArray(up[k - 1], s.mdadm.file[k])
  IN  up[Len(s.mdadm.file)]
=============================================================================
