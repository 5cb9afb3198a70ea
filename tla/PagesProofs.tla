----------------------------- MODULE PagesProofs -----------------------------
(***************************************************************************)
(* The pages whose state is their own: the docker page (Docker), the       *)
(* installer of the console menu (Console), the page of shares and users   *)
(* (Shares) and the NAS services (NasServices), each proved correct for    *)
(* every value of its constants.                                           *)
(* Each part states the inductive invariant its property needs, proves     *)
(* that every action keeps it, and reads the property off it.              *)
(***************************************************************************)
EXTENDS Docker, Console, Shares, NasServices, DataLemmas

-----------------------------------------------------------------------------
(* The docker page: directories                                            *)

LEMMA InsideSource ==
  ASSUME NEW d \in Dirs, NEW e \in Dirs, Inside(d, e)
  PROVE  Source(d) = Source(e)
BY DEF Inside, Source, Dirs

\* The directories a root may be moved to.
Usable(d) == Source(d) \in {"a", "b"}

LEMMA SourceIs ==
  ASSUME NEW d \in Dirs
  PROVE  Source(d) \in {"overlay", "a", "b", "n"}
BY DEF Source

LEMMA PartIs ==
  ASSUME NEW d \in Dirs
  PROVE  /\ PartOf(d) \in Parts /\ PartOf(d).source = Source(d)
         /\ Usable(d) => ~PartOf(d).system /\ PartOf(d).fs \in {"ext4", "btrfs"}
         /\ Source(d) = "n" => PartOf(d).fs = "ntfs"
<1>1. \E p \in Parts : p.source = Source(d)
  BY SourceIs DEF Parts
<1>2. PartOf(d) \in Parts /\ PartOf(d).source = Source(d)
  BY <1>1 DEF PartOf
<1>3. \A p \in Parts : /\ p.source \in {"a", "b"} => ~p.system /\ p.fs \in {"ext4", "btrfs"}
                       /\ p.source = "n" => p.fs = "ntfs"
  BY DEF Parts
<1> QED BY <1>2, <1>3 DEF Usable

LEMMA ValidIsUsable ==
  ASSUME NEW t \in Dirs, NEW o \in Dirs
  PROVE  /\ ValidatePathSnapshot(t, o) => Usable(t) /\ t # o /\ Source(t) # Source(o)
         /\ Usable(t) /\ Source(t) # Source(o) => ValidatePathSnapshot(t, o)
<1>1. Source(t) \in {"overlay", "a", "b", "n"} /\ (Source(t) = "n" => PartOf(t).fs = "ntfs")
      /\ (Usable(t) => PartOf(t).fs \in {"ext4", "btrfs"})
  BY SourceIs, PartIs
<1> QED BY <1>1 DEF ValidatePathSnapshot, Usable

LEMMA UsableIsQuiet ==
  ASSUME NEW d \in Dirs, Usable(d)
  PROVE  buildGuideDockerRuntimeWarning(PartOf(d)) = ""
BY PartIs DEF buildGuideDockerRuntimeWarning

LEMMA OfferedIsUsable ==
  ASSUME NEW p \in BuildPartitionCandidates(Parts)
  PROVE  p \in Dirs /\ Usable(p)
<1>1. p \in {"/mnt/a/docker", "/mnt/b/docker"}
  BY DEF BuildPartitionCandidates, Parts
<1> QED BY <1>1 DEF Dirs, Usable, Source

-----------------------------------------------------------------------------
(* The docker page: the inductive invariant                                *)

Layers == SUBSET (1 .. MaxLayers)
Working == {"copy", "remove", "set", "commit", "restart"}
TransferType == [pc : Working, target : Dirs, origin : Dirs, todo : Layers, base : Layers, copied : BOOLEAN]
MovedType == [target : Dirs, base : Layers, copied : BOOLEAN]
DockerTyped ==
  /\ root \in [file : Dirs, staged : Dirs, live : Dirs]
  /\ dirs \in [Dirs -> [there : BOOLEAN, layers : Layers, other : BOOLEAN]]
  /\ written \in 1 .. MaxLayers /\ owned \in Layers /\ inSync \in BOOLEAN /\ dockerd \in BOOLEAN
  /\ transfer \in {NoTransfer} \union TransferType
  /\ moved \in {NotMoved} \union MovedType
  /\ \A d \in Dirs : dirs[d].layers # {} => dirs[d].there

\* A transfer goes to a partition that a root may be on, and not the one it comes from.
UnderWay ==
  transfer.pc # "none" =>
    /\ Usable(transfer.target) /\ moved = NotMoved
    /\ Source(transfer.target) # Source(transfer.origin)
    /\ transfer.pc \in {"copy", "remove"} => dirs[transfer.target].there /\ transfer.copied

\* The three roots, while no transfer was cut off between staging one and the restart.
Roots ==
  inSync =>
    /\ transfer.pc = "none" => root.staged = root.file /\ root.live = root.file
    /\ transfer.pc \in {"copy", "remove", "set"} =>
         root.staged = transfer.origin /\ root.file = transfer.origin /\ root.live = transfer.origin
    /\ transfer.pc = "commit" =>
         root.staged = transfer.target /\ root.file = transfer.origin /\ root.live = transfer.origin
    /\ transfer.pc = "restart" =>
         root.staged = transfer.target /\ root.file = transfer.target /\ root.live \in {transfer.origin, transfer.target}

\* What the root had when the transfer began is at its target, or still to be copied.
Copied ==
  inSync /\ transfer.pc # "none" /\ transfer.copied =>
    /\ transfer.pc = "remove" => transfer.base \subseteq dirs[transfer.origin].layers
    /\ transfer.pc = "copy" => transfer.base \subseteq dirs[transfer.target].layers \union transfer.todo
    /\ transfer.pc \in {"set", "commit", "restart"} => transfer.base \subseteq dirs[transfer.target].layers

MovedOK == moved # NotMoved => Usable(moved.target)
DockerInv ==
  /\ DockerTyped /\ UnderWay /\ Roots /\ Copied /\ MovedOK
  /\ LiveRootKept /\ TransferComplete

LEMMA DockerStart == DockerInit => DockerInv
<1> SUFFICES ASSUME DockerInit PROVE DockerInv
  OBVIOUS
<1> USE DEF DockerInit, DockerIdle
<1>0. 1 \in 1 .. MaxLayers
  BY DockerAssumption
<1>1. /\ dirs \in [Dirs -> [there : BOOLEAN, layers : Layers, other : BOOLEAN]]
      /\ \A d \in Dirs : dirs[d].layers # {} => dirs[d].there
      /\ dirs["/opt/docker"].layers = {1}
  BY <1>0 DEF DockerDirs, Dirs, EmptyDir, NoDir, Layers
<1>2. DockerTyped
  BY <1>0, <1>1 DEF DockerTyped, Dirs, Layers
<1>3. UnderWay /\ Roots /\ Copied /\ MovedOK
  BY DEF UnderWay, Roots, Copied, MovedOK, NoTransfer
<1>4. LiveRootKept /\ TransferComplete
  BY <1>1 DEF LiveRootKept, TransferComplete, NotMoved
<1> QED BY <1>2, <1>3, <1>4 DEF DockerInv

\* The transfer that is under way.
LEMMA Under ==
  ASSUME DockerTyped, transfer.pc # "none"
  PROVE  transfer \in TransferType
BY DEF DockerTyped, NoTransfer

\* A transfer begins.
LEMMA TransferBegins ==
  ASSUME DockerInv, GuideDockerTransfer
  PROVE  DockerInv'
<1>1. PICK to \in Dirs, force \in BOOLEAN, overwriteDir \in BOOLEAN :
        LET origin == ReadDockerRootPath
            next == transferDockerPath(to, force, overwriteDir)
        IN  /\ transfer.pc = "none"
            /\ checkDockerPath(to)
            /\ transfer' = IF ~ValidatePathSnapshot(to, origin) \/ next = "warn" THEN NoTransfer
                           ELSE [pc |-> next, target |-> to, origin |-> origin, todo |-> dirs[origin].layers,
                                 base |-> dirs[root.live].layers, copied |-> next # "set"]
            /\ moved' = NotMoved
            /\ UNCHANGED <<root, dockerd, written, owned, inSync>>
  BY DEF GuideDockerTransfer
<1> DEFINE origin == root.staged
           next == transferDockerPath(to, force, overwriteDir)
           valid == ValidatePathSnapshot(to, origin) /\ next # "warn"
<1>2. /\ transfer' = IF ~valid THEN NoTransfer
                     ELSE [pc |-> next, target |-> to, origin |-> origin, todo |-> dirs[origin].layers,
                           base |-> dirs[root.live].layers, copied |-> next # "set"]
      /\ transfer.pc = "none" /\ moved' = NotMoved /\ UNCHANGED <<root, dockerd, written, owned, inSync>>
  BY <1>1 DEF ReadDockerRootPath
<1>3. next \in {"copy", "warn", "remove", "set"}
  BY DEF transferDockerPath
<1>4. origin \in Dirs /\ root.live \in Dirs /\ DockerTyped
  BY DEF DockerInv, DockerTyped
<1>5. valid => Usable(to) /\ to # origin /\ Source(to) # Source(origin)
  BY <1>4, ValidIsUsable
<1>6. /\ dirs' \in [Dirs -> [there : BOOLEAN, layers : Layers, other : BOOLEAN]]
      /\ \A d \in Dirs : /\ dirs'[d].layers # {} => dirs'[d].there
                         /\ dirs'[d].layers = dirs[d].layers
      /\ to # origin => dirs'[to].there
  <2>1. dirs' = IF to # origin /\ ~dirs[to].there
                THEN [d \in Dirs |-> IF Inside(to, d) /\ ~dirs[d].there THEN EmptyDir ELSE dirs[d]] ELSE dirs
    BY <1>1 DEF checkDockerPath, ReadDockerRootPath
  <2>2. \A d \in Dirs : ~dirs[d].there => dirs[d].layers = {}
    BY <1>4 DEF DockerTyped
  <2> QED BY <2>1, <2>2, <1>4 DEF DockerTyped, EmptyDir, Inside, Layers
<1> HIDE DEF next, valid, origin
<1>7. dirs[origin].layers \in Layers /\ dirs[root.live].layers \in Layers
  BY <1>4 DEF DockerTyped
<1>8. valid => transfer' \in TransferType
  BY <1>2, <1>3, <1>4, <1>7 DEF TransferType, Working, valid
<1>9. DockerTyped'
  BY <1>2, <1>4, <1>6, <1>8 DEF DockerTyped
<1>10. UnderWay'
  BY <1>2, <1>5, <1>6 DEF UnderWay, NoTransfer
<1>11. inSync => root.staged = root.file /\ root.live = root.file
  BY <1>2 DEF DockerInv, Roots
<1>12. Roots'
  BY <1>2, <1>3, <1>11 DEF Roots, NoTransfer, origin, valid
<1>13. Copied'
  BY <1>2, <1>3, <1>4, <1>6, <1>11, ZenonT(60) DEF Copied, NoTransfer, origin, valid
<1>14. MovedOK' /\ TransferComplete'
  BY <1>2 DEF MovedOK, TransferComplete, NotMoved
<1>15. LiveRootKept'
  BY <1>2, <1>4, <1>6 DEF DockerInv, LiveRootKept
<1> QED BY <1>9, <1>10, <1>12, <1>13, <1>14, <1>15 DEF DockerInv

\* The target is emptied: it is not the daemon's root, nor does it hold it.
LEMMA RemoveKeeps ==
  ASSUME DockerInv, RemoveTarget
  PROVE  DockerInv'
<1>1. /\ transfer.pc = "remove"
      /\ dirs' = [d \in Dirs |-> IF d = transfer.target THEN EmptyDir ELSE IF Inside(d, transfer.target) THEN NoDir ELSE dirs[d]]
      /\ transfer' = [transfer EXCEPT !.pc = "copy", !.todo = dirs[transfer.origin].layers]
      /\ UNCHANGED <<root, dockerd, written, owned, inSync, moved>>
  BY DEF RemoveTarget
<1>2. DockerTyped /\ transfer \in TransferType
  BY <1>1, Under DEF DockerInv
<1>3. /\ transfer.target \in Dirs /\ transfer.origin \in Dirs /\ dirs[transfer.origin].layers \in Layers
      /\ transfer.copied
      /\ Usable(transfer.target) /\ moved = NotMoved /\ Source(transfer.target) # Source(transfer.origin)
  BY <1>1, <1>2 DEF DockerInv, UnderWay, TransferType, DockerTyped
<1>4. \A d \in Dirs : Source(d) # Source(transfer.target) => dirs'[d] = dirs[d]
  BY <1>1, <1>3, InsideSource
<1>5. /\ dirs' \in [Dirs -> [there : BOOLEAN, layers : Layers, other : BOOLEAN]]
      /\ \A d \in Dirs : dirs'[d].layers # {} => dirs'[d].there
      /\ dirs'[transfer.target].there
  BY <1>1, <1>2, <1>3 DEF DockerTyped, EmptyDir, NoDir, Layers
<1>6. /\ transfer' \in TransferType /\ transfer'.pc = "copy"
      /\ transfer'.target = transfer.target /\ transfer'.origin = transfer.origin
      /\ transfer'.base = transfer.base /\ transfer'.copied = transfer.copied
      /\ transfer'.todo = dirs[transfer.origin].layers
  BY <1>1, <1>2, <1>3 DEF TransferType, Working
<1>7. DockerTyped'
  BY <1>1, <1>2, <1>5, <1>6 DEF DockerTyped
<1>8. UnderWay'
  BY <1>1, <1>3, <1>5, <1>6 DEF UnderWay
<1>9. inSync => root.staged = transfer.origin /\ root.file = transfer.origin /\ root.live = transfer.origin
  BY <1>1 DEF DockerInv, Roots
<1>10. Roots'
  BY <1>1, <1>6, <1>9 DEF Roots
<1>11. Copied'
  BY <1>1, <1>3, <1>6 DEF Copied, DockerInv
<1>12. MovedOK' /\ TransferComplete'
  BY <1>1, <1>3 DEF MovedOK, TransferComplete, NotMoved
<1>13. LiveRootKept'
  BY <1>1, <1>3, <1>4, <1>9 DEF DockerInv, LiveRootKept
<1> QED BY <1>7, <1>8, <1>10, <1>11, <1>12, <1>13 DEF DockerInv

\* A layer more at one place.
LEMMA LayerAdded ==
  ASSUME DockerTyped, NEW at \in Dirs, NEW n \in 1 .. MaxLayers, dirs[at].there,
         dirs' = [dirs EXCEPT ![at].layers = @ \union {n}]
  PROVE  /\ dirs' \in [Dirs -> [there : BOOLEAN, layers : Layers, other : BOOLEAN]]
         /\ \A d \in Dirs : /\ dirs'[d].layers # {} => dirs'[d].there
                            /\ dirs'[d].there = dirs[d].there
                            /\ dirs[d].layers \subseteq dirs'[d].layers
         /\ dirs'[at].layers = dirs[at].layers \union {n}
<1>1. dirs[at] \in [there : BOOLEAN, layers : Layers, other : BOOLEAN]
  BY DEF DockerTyped
<1>2. dirs'[at] = [dirs[at] EXCEPT !.layers = dirs[at].layers \union {n}]
  BY DEF DockerTyped
<1>3. dirs[at].layers \union {n} \in Layers
  BY <1>1 DEF Layers
<1>4. dirs'[at] \in [there : BOOLEAN, layers : Layers, other : BOOLEAN] /\ dirs'[at].there = dirs[at].there
      /\ dirs'[at].layers = dirs[at].layers \union {n}
  BY <1>1, <1>2, <1>3
<1>5. \A d \in Dirs \ {at} : dirs'[d] = dirs[d]
  BY DEF DockerTyped
<1>6. DOMAIN dirs' = Dirs /\ dirs' = [d \in Dirs |-> dirs'[d]]
  BY DEF DockerTyped
<1> QED BY <1>4, <1>5, <1>6 DEF DockerTyped

LEMMA CopyKeeps ==
  ASSUME DockerInv, CopyLayer
  PROVE  DockerInv'
<1>1. PICK n \in transfer.todo :
        /\ dirs' = [dirs EXCEPT ![transfer.target].layers = @ \union {n}]
        /\ transfer' = [transfer EXCEPT !.todo = @ \ {n}]
  BY DEF CopyLayer
<1>2. transfer.pc = "copy" /\ UNCHANGED <<root, dockerd, written, owned, inSync, moved>>
  BY DEF CopyLayer
<1>3. DockerTyped /\ transfer \in TransferType
  BY <1>2, Under DEF DockerInv
<1>4. /\ transfer.target \in Dirs /\ n \in 1 .. MaxLayers /\ transfer.todo \in Layers
      /\ dirs[transfer.target].there /\ moved = NotMoved
      /\ transfer.copied /\ Usable(transfer.target) /\ Source(transfer.target) # Source(transfer.origin)
  BY <1>1, <1>2, <1>3 DEF DockerInv, UnderWay, TransferType, Layers
<1>5. /\ dirs' \in [Dirs -> [there : BOOLEAN, layers : Layers, other : BOOLEAN]]
      /\ \A d \in Dirs : /\ dirs'[d].layers # {} => dirs'[d].there
                         /\ dirs'[d].there = dirs[d].there
                         /\ dirs[d].layers \subseteq dirs'[d].layers
      /\ dirs'[transfer.target].layers = dirs[transfer.target].layers \union {n}
  BY <1>1, <1>3, <1>4, LayerAdded
<1>6. /\ transfer' \in TransferType /\ transfer'.pc = "copy"
      /\ transfer'.target = transfer.target /\ transfer'.origin = transfer.origin
      /\ transfer'.base = transfer.base /\ transfer'.copied = transfer.copied
      /\ transfer'.todo = transfer.todo \ {n}
  BY <1>1, <1>2, <1>3, <1>4 DEF TransferType, Layers
<1>7. DockerTyped'
  BY <1>2, <1>3, <1>5, <1>6 DEF DockerTyped
<1>8. UnderWay'
  BY <1>2, <1>4, <1>5, <1>6 DEF UnderWay
<1>9. Roots'
  BY <1>2, <1>6 DEF DockerInv, Roots
<1>10. Copied'
  BY <1>2, <1>4, <1>5, <1>6 DEF Copied, DockerInv
<1>11. MovedOK' /\ TransferComplete'
  BY <1>2, <1>4 DEF MovedOK, TransferComplete, NotMoved
<1>12. LiveRootKept'
  BY <1>2, <1>3, <1>5 DEF DockerInv, LiveRootKept, DockerTyped
<1> QED BY <1>7, <1>8, <1>9, <1>10, <1>11, <1>12 DEF DockerInv

\* cp has ended: everything is there, or the request fails.
LEMMA CopyDoneKeeps ==
  ASSUME DockerInv, CopyDone
  PROVE  DockerInv'
<1>1. /\ transfer.pc = "copy"
      /\ transfer' = IF transfer.todo = {} THEN [transfer EXCEPT !.pc = "set"] ELSE NoTransfer
      /\ UNCHANGED <<root, dirs, dockerd, written, owned, inSync, moved>>
  BY DEF CopyDone, CopyEnds
<1>2. DockerTyped /\ transfer \in TransferType
  BY <1>1, Under DEF DockerInv
<1>3. /\ transfer.copied /\ moved = NotMoved
      /\ Usable(transfer.target) /\ Source(transfer.target) # Source(transfer.origin)
  BY <1>1 DEF DockerInv, UnderWay
<1>4. inSync => root.staged = transfer.origin /\ root.file = transfer.origin /\ root.live = transfer.origin
  BY <1>1 DEF DockerInv, Roots
<1>5. inSync /\ transfer.todo = {} => transfer.base \subseteq dirs[transfer.target].layers
  BY <1>1, <1>3 DEF DockerInv, Copied
<1>6. \/ transfer' = NoTransfer
      \/ /\ transfer.todo = {}
         /\ transfer' \in TransferType /\ transfer'.pc = "set"
         /\ transfer'.target = transfer.target /\ transfer'.origin = transfer.origin
         /\ transfer'.base = transfer.base /\ transfer'.copied = transfer.copied
  BY <1>1, <1>2 DEF TransferType, Working
<1>7. DockerTyped'
  BY <1>1, <1>2, <1>6 DEF DockerTyped
<1>8. UnderWay'
  BY <1>1, <1>3, <1>6 DEF UnderWay, NoTransfer
<1>9. Roots'
  BY <1>1, <1>4, <1>6 DEF Roots, NoTransfer
<1>10. Copied'
  BY <1>1, <1>5, <1>6 DEF Copied, NoTransfer
<1>11. MovedOK' /\ TransferComplete' /\ LiveRootKept'
  BY <1>1 DEF DockerInv, MovedOK, TransferComplete, LiveRootKept, NotMoved
<1> QED BY <1>7, <1>8, <1>9, <1>10, <1>11 DEF DockerInv

\* The root is staged, committed, and the daemon restarted on it.
LEMMA UpdateKeeps ==
  ASSUME DockerInv, UpdateDockerRootPath
  PROVE  DockerInv'
<1>1. /\ transfer.pc \in {"set", "commit", "restart"}
      /\ root' = BuildUpdateCommands(transfer.pc)
      /\ UNCHANGED <<dirs, written, inSync>>
  BY DEF UpdateDockerRootPath
<1>2. DockerTyped /\ transfer \in TransferType
  BY <1>1, Under DEF DockerInv
<1>3. /\ moved = NotMoved /\ transfer.target \in Dirs /\ transfer.base \in Layers /\ transfer.copied \in BOOLEAN
      /\ Usable(transfer.target) /\ Source(transfer.target) # Source(transfer.origin)
  BY <1>1, <1>2 DEF DockerInv, UnderWay, TransferType
<1>4. inSync => root.staged = (IF transfer.pc = "set" THEN transfer.origin ELSE transfer.target)
                /\ root.file = (IF transfer.pc = "restart" THEN transfer.target ELSE transfer.origin)
                /\ root.live \in {transfer.origin, IF transfer.pc = "restart" THEN transfer.target ELSE transfer.origin}
  BY <1>1 DEF DockerInv, Roots
<1>5. inSync /\ transfer.copied => transfer.base \subseteq dirs[transfer.target].layers
  BY <1>1 DEF DockerInv, Copied
<1>6. root \in [file : Dirs, staged : Dirs, live : Dirs]
  BY <1>2 DEF DockerTyped
<1>7. /\ root' \in [file : Dirs, staged : Dirs, live : Dirs]
      /\ root'.staged = IF transfer.pc = "set" THEN transfer.target ELSE root.staged
      /\ root'.file = IF transfer.pc = "commit" THEN root.staged ELSE root.file
      /\ root'.live = IF transfer.pc = "restart" THEN root.file ELSE root.live
  BY <1>1, <1>3, <1>6 DEF BuildUpdateCommands
<1>8. dirs'[root'.live].layers \in Layers
  BY <1>1, <1>2, <1>7 DEF DockerTyped
<1>9. CASE transfer.pc = "restart"
  <2>1. /\ transfer' = NoTransfer /\ dockerd' = TRUE /\ owned' = dirs[root'.live].layers
        /\ moved' = [target |-> transfer.target, base |-> transfer.base, copied |-> transfer.copied]
    BY <1>9 DEF UpdateDockerRootPath
  <2>2. DockerTyped'
    BY <1>1, <1>2, <1>3, <1>7, <1>8, <2>1 DEF DockerTyped, MovedType
  <2>3. UnderWay' /\ Copied' /\ MovedOK' /\ LiveRootKept'
    BY <1>1, <1>3, <2>1 DEF UnderWay, Copied, MovedOK, NoTransfer, LiveRootKept
  <2>4. Roots'
    BY <1>1, <1>4, <1>7, <1>9, <2>1 DEF Roots, NoTransfer
  <2>5. TransferComplete'
    BY <1>1, <1>4, <1>5, <1>7, <1>9, <2>1 DEF TransferComplete
  <2> QED BY <2>2, <2>3, <2>4, <2>5 DEF DockerInv
<1>10. CASE transfer.pc # "restart"
  <2>1. /\ transfer' = [transfer EXCEPT !.pc = IF @ = "set" THEN "commit" ELSE "restart"]
        /\ UNCHANGED <<dockerd, owned, moved>>
    BY <1>10 DEF UpdateDockerRootPath
  <2>2. /\ transfer' \in TransferType /\ transfer'.pc = (IF transfer.pc = "set" THEN "commit" ELSE "restart")
        /\ transfer'.target = transfer.target /\ transfer'.origin = transfer.origin
        /\ transfer'.base = transfer.base /\ transfer'.copied = transfer.copied
    BY <2>1, <1>2 DEF TransferType, Working
  <2>3. DockerTyped'
    BY <1>1, <1>2, <1>7, <2>1, <2>2 DEF DockerTyped
  <2>4. UnderWay' /\ MovedOK'
    BY <1>1, <1>3, <2>1, <2>2 DEF UnderWay, MovedOK
  <2>5. Roots'
    BY <1>1, <1>4, <1>7, <1>10, <2>2 DEF Roots
  <2>6. Copied'
    BY <1>1, <1>5, <2>2 DEF Copied
  <2>7. TransferComplete' /\ LiveRootKept'
    BY <1>1, <1>3, <1>7, <1>10, <2>1 DEF TransferComplete, NotMoved, LiveRootKept, DockerInv
  <2> QED BY <2>3, <2>4, <2>5, <2>6, <2>7 DEF DockerInv
<1> QED BY <1>9, <1>10

\* The client goes away.
LEMMA CutOffKeeps ==
  ASSUME DockerInv, CutOff
  PROVE  DockerInv'
<1>1. /\ transfer.pc # "none" /\ transfer' = NoTransfer
      /\ inSync' = (inSync /\ transfer.pc \notin {"commit", "restart"})
      /\ UNCHANGED <<root, dirs, dockerd, written, owned, moved>>
  BY DEF CutOff
<1>2. transfer \in TransferType
  BY <1>1, Under DEF DockerInv
<1>3. inSync' => inSync /\ transfer.pc \in {"copy", "remove", "set"}
  BY <1>1, <1>2 DEF TransferType, Working
<1>4. DockerTyped'
  BY <1>1 DEF DockerInv, DockerTyped
<1>5. UnderWay' /\ Copied' /\ MovedOK'
  BY <1>1 DEF UnderWay, Copied, NoTransfer, MovedOK, DockerInv
<1>6. Roots'
  BY <1>1, <1>3 DEF DockerInv, Roots, NoTransfer
<1>7. TransferComplete' /\ LiveRootKept'
  BY <1>1, <1>3 DEF DockerInv, TransferComplete, LiveRootKept
<1> QED BY <1>4, <1>5, <1>6, <1>7 DEF DockerInv

LEMMA NothingMoved == moved.copied => moved # NotMoved
<1> SUFFICES ASSUME moved = NotMoved PROVE ~moved.copied
  OBVIOUS
<1>1. moved.copied = FALSE
  BY DEF NotMoved
<1> QED BY <1>1, Zenon

\* The daemon is stopped, or started on what is committed.
LEMMA SwitchKeeps ==
  ASSUME DockerInv, DockerSwitch
  PROVE  DockerInv'
<1>1. /\ dockerd' = ~dockerd
      /\ IF dockerd THEN UNCHANGED <<root, owned>>
         ELSE root' = [root EXCEPT !.live = root.file] /\ owned' = dirs[root.file].layers
      /\ UNCHANGED <<dirs, transfer, written, inSync, moved>>
  BY DEF DockerSwitch
<1>2. root \in [file : Dirs, staged : Dirs, live : Dirs] /\ dirs[root.file].layers \in Layers
  BY DEF DockerInv, DockerTyped
<1>3. /\ root' \in [file : Dirs, staged : Dirs, live : Dirs]
      /\ root'.file = root.file /\ root'.staged = root.staged
      /\ root'.live \in {root.live, root.file}
      /\ \/ owned' = owned /\ root'.live = root.live
         \/ owned' = dirs[root.file].layers /\ root'.live = root.file
  BY <1>1, <1>2
<1>4. DockerTyped'
  BY <1>1, <1>2, <1>3 DEF DockerInv, DockerTyped
<1>5. UnderWay' /\ Copied' /\ MovedOK'
  BY <1>1 DEF UnderWay, Copied, MovedOK, DockerInv
<1>6. Roots'
  BY <1>1, <1>3 DEF DockerInv, Roots
<1>7. LiveRootKept'
  BY <1>1, <1>3 DEF DockerInv, LiveRootKept
<1>8. inSync /\ moved.copied => root.live = root.file
  <2> QED BY NothingMoved DEF DockerInv, UnderWay, Roots
<1>9. TransferComplete'
  BY <1>1, <1>3, <1>8 DEF DockerInv, TransferComplete
<1> QED BY <1>4, <1>5, <1>6, <1>7, <1>9 DEF DockerInv

\* The daemon writes a layer to its root.
LEMMA DaemonKeeps ==
  ASSUME DockerInv, DaemonWrites
  PROVE  DockerInv'
<1>1. /\ written < MaxLayers /\ dirs[root.live].there
      /\ written' = written + 1 /\ owned' = owned \union {written + 1}
      /\ dirs' = [dirs EXCEPT ![root.live].layers = @ \union {written + 1}]
      /\ UNCHANGED <<root, dockerd, transfer, inSync, moved>>
  BY DEF DaemonWrites
<1>2. DockerTyped /\ root.live \in Dirs
  BY DEF DockerInv, DockerTyped
<1>3. written + 1 \in 1 .. MaxLayers
  BY <1>1, <1>2, DockerAssumption DEF DockerTyped
<1>4. /\ dirs' \in [Dirs -> [there : BOOLEAN, layers : Layers, other : BOOLEAN]]
      /\ \A d \in Dirs : /\ dirs'[d].layers # {} => dirs'[d].there
                         /\ dirs'[d].there = dirs[d].there
                         /\ dirs[d].layers \subseteq dirs'[d].layers
      /\ dirs'[root.live].layers = dirs[root.live].layers \union {written + 1}
  BY <1>1, <1>2, <1>3, LayerAdded
<1>5. owned' \in Layers
  BY <1>1, <1>2, <1>3 DEF DockerTyped, Layers
<1>6. DockerTyped'
  BY <1>1, <1>2, <1>3, <1>4, <1>5 DEF DockerTyped
<1>7. transfer.pc # "none" => transfer.target \in Dirs /\ transfer.origin \in Dirs
  BY <1>2, Under DEF TransferType
<1>8. UnderWay'
  BY <1>1, <1>4, <1>7 DEF DockerInv, UnderWay
<1>9. Roots' /\ MovedOK'
  BY <1>1 DEF DockerInv, Roots, MovedOK
<1>10. Copied'
  BY <1>1, <1>4, <1>7 DEF DockerInv, Copied
<1>11. LiveRootKept'
  BY <1>1, <1>4 DEF DockerInv, LiveRootKept
<1>12. moved.copied => moved.target \in Dirs
  BY <1>2, NothingMoved DEF DockerTyped, MovedType
<1>13. TransferComplete'
  BY <1>1, <1>4, <1>12 DEF DockerInv, TransferComplete
<1> QED BY <1>6, <1>8, <1>9, <1>10, <1>11, <1>13 DEF DockerInv

LEMMA DockerInductive == DockerInv /\ [DockerNext]_dockerVars => DockerInv'
<1> SUFFICES ASSUME DockerInv, [DockerNext]_dockerVars PROVE DockerInv'
  OBVIOUS
<1>1. CASE UNCHANGED dockerVars
  <2>1. UNCHANGED <<root, dirs, dockerd, transfer, written, owned, inSync, moved>>
    BY <1>1 DEF dockerVars
  <2> QED
    BY <2>1 DEF DockerInv, DockerTyped, UnderWay, Roots, Copied, MovedOK, LiveRootKept, TransferComplete
<1> QED
  BY <1>1, TransferBegins, RemoveKeeps, CopyKeeps, CopyDoneKeeps, UpdateKeeps, CutOffKeeps, SwitchKeeps, DaemonKeeps
  DEF DockerNext

LEMMA DockerInvShows == DockerInv => DockerCorrect
<1> SUFFICES ASSUME DockerInv PROVE DockerCorrect
  OBVIOUS
<1>1. DockerTyped /\ root.staged \in Dirs
  BY DEF DockerInv, DockerTyped
<1>2. DockerTypeOK
  <2>1. transfer.pc \in {"none", "copy", "remove", "set", "commit", "restart"}
    BY <1>1 DEF DockerTyped, NoTransfer, TransferType, Working
  <2> QED BY <1>1, <2>1 DEF DockerTyped, DockerTypeOK, Layers
<1>3. NoWarningAfterTransfer
  <2> SUFFICES ASSUME moved # NotMoved, root.staged = moved.target
               PROVE  buildGuideDockerRuntimeWarning(PartOf(root.staged)) = ""
    BY DEF NoWarningAfterTransfer, GetDockerStatus, ReadDockerRuntime, ReadDockerRootPath
  <2> QED BY <1>1, UsableIsQuiet DEF DockerInv, MovedOK
<1>4. OfferedIsAccepted
  BY <1>1, OfferedIsUsable, ValidIsUsable DEF OfferedIsAccepted, ReadDockerRootPath
<1> QED BY <1>2, <1>3, <1>4 DEF DockerInv, DockerCorrect

\* The docker page is correct: for any number of layers and of transfers, cut off anywhere
\* and with the daemon writing or being switched between any two of their steps, no layer
\* of the daemon's root is lost, a transfer that was answered with success has every layer
\* it began with, and what the page offers, accepts and warns of agrees.
THEOREM DockerPageCorrect == DockerSpec => []DockerCorrect
<1>1. DockerSpec => []DockerInv
  BY DockerStart, DockerInductive, PTL DEF DockerSpec
<1> QED BY <1>1, DockerInvShows, PTL

-----------------------------------------------------------------------------
(* The console: device numbers                                             *)

\* The function that Minor defines, for the first n disks.
Numbers(n, f) ==
  f = [d \in 1 .. n |-> IF d = 1 THEN 0 ELSE f[d - 1] + machine.disks[d - 1].parts + 1]

LEMMA NumbersExist == \A n \in Nat : \E f : Numbers(n, f)
<1> DEFINE Good == {n \in Nat : \E f : Numbers(n, f)}
<1>1. 0 \in Good
  <2> DEFINE f == [d \in 1 .. 0 |-> 0]
  <2>1. Numbers(0, f)
    BY DEF Numbers
  <2> QED BY <2>1
<1>2. ASSUME NEW n \in Nat, n \in Good PROVE n + 1 \in Good
  <2>1. PICK f : Numbers(n, f)
    BY <1>2
  <2> DEFINE g == [d \in 1 .. n + 1 |-> IF d = 1 THEN 0 ELSE f[d - 1] + machine.disks[d - 1].parts + 1]
  <2>2. \A d \in 1 .. n : g[d] = f[d]
    <3> TAKE d \in 1 .. n
    <3>1. d \in 1 .. n + 1
      OBVIOUS
    <3>2. f[d] = IF d = 1 THEN 0 ELSE f[d - 1] + machine.disks[d - 1].parts + 1
      BY <2>1 DEF Numbers
    <3> QED BY <3>1, <3>2
  <2>3. \A d \in 1 .. n + 1 : d # 1 => g[d - 1] = f[d - 1]
    <3> TAKE d \in 1 .. n + 1
    <3> HAVE d # 1
    <3>1. d - 1 \in 1 .. n
      OBVIOUS
    <3> HIDE DEF g
    <3> QED BY <3>1, <2>2
  <2>4. \A d \in 1 .. n + 1 : g[d] = IF d = 1 THEN 0 ELSE g[d - 1] + machine.disks[d - 1].parts + 1
    <3> TAKE d \in 1 .. n + 1
    <3>1. g[d] = IF d = 1 THEN 0 ELSE f[d - 1] + machine.disks[d - 1].parts + 1
      OBVIOUS
    <3> HIDE DEF g
    <3> QED BY <3>1, <2>3
  <2>5. g = [d \in 1 .. n + 1 |-> g[d]]
    OBVIOUS
  <2> HIDE DEF g
  <2>6. Numbers(n + 1, g)
    BY <2>4, <2>5 DEF Numbers
  <2> QED BY <2>6
<1>3. Nat \subseteq Good
  <2> HIDE DEF Good
  <2> QED BY <1>1, <1>2, NatInSet
<1> QED BY <1>3

LEMMA MinorIs ==
  \A d \in DiskIds : Minor[d] = IF d = 1 THEN 0 ELSE Minor[d - 1] + machine.disks[d - 1].parts + 1
<1>1. Minor = CHOOSE f : Numbers(DiskCount, f)
  BY DEF Minor, Numbers, DiskIds
<1>2. Numbers(DiskCount, Minor)
  BY <1>1, NumbersExist, ConsoleAssumption
<1> QED BY <1>2 DEF Numbers, DiskIds

-----------------------------------------------------------------------------
(* The console: the inductive invariant                                    *)

MachineOK ==
  /\ machine \in [disks : [DiskIds -> [parts : 0 .. 4, large : BOOLEAN, kind : {"disk", "loop", "sr"}]],
                  root : DiskIds, boot : BOOLEAN, gpt : BOOLEAN]
  /\ machine.disks[machine.root].parts >= 3

\* What was listed: other disks than the system's, and none that is too small.
FoundOK ==
  /\ found \in [root : {None0, machine.root}, devs : SUBSET {d \in DiskIds : d # machine.root /\ machine.disks[d].large}]
  /\ found.devs # {} => found.root = machine.root

\* The disk that was chosen is of those, and its loss was agreed to as often as it was asked.
ChosenOK ==
  /\ target \in DiskIds \union {None0}
  /\ Writing \/ menu \in {"confirm", "again"} => target \in found.devs
  /\ agreed = (CASE menu = "confirm" -> 0 [] menu = "again" -> 1 [] Writing -> 2 [] OTHER -> agreed)

\* How far the target's table is.
Guids == {"old", "new", "src"}
Entries == [main : {"", "src"}, grub : {"", "src"}]
Table == [header : [guid : Guids, ecrc : Entries, hcrc : Guids \X Entries],
          entries : Entries, alt : Entries, altGuid : Guids, reset : BOOLEAN]
TableOK ==
  /\ table \in Table
  /\ menu \in {"gpt", "crc", "alt", "reboot"} => table.entries = Source0 /\ table.reset
  /\ menu \in {"crc", "alt", "reboot"} => table.header.guid = "src"
  /\ menu \in {"alt", "reboot"} => Valid(table)
  /\ menu = "reboot" /\ machine.gpt => table.alt = Source0 /\ table.altGuid = "src"
Menus == {"main", "select", "confirm", "again", "dd", "gpt", "crc", "alt", "reboot", "reset", "quit"}
ConsoleInv == menu \in Menus /\ MachineOK /\ FoundOK /\ ChosenOK /\ TableOK

LEMMA DiskIsNat ==
  ASSUME NEW d \in DiskIds
  PROVE  d \in Nat /\ d >= 1
BY ConsoleAssumption DEF DiskIds

LEMMA PartsAreNat ==
  ASSUME MachineOK, NEW d \in DiskIds
  PROVE  machine.disks[d].parts \in Nat
<1>1. machine.disks[d] \in [parts : 0 .. 4, large : BOOLEAN, kind : {"disk", "loop", "sr"}]
  BY DEF MachineOK
<1> QED BY <1>1

\* A disk's number lies behind those of the disks before it and of their partitions.
LEMMA NumbersApart ==
  ASSUME MachineOK
  PROVE  \A e \in DiskIds : /\ Minor[e] \in Nat
                            /\ \A d \in DiskIds : d < e => Minor[d] + machine.disks[d].parts + 1 <= Minor[e]
<1> DEFINE p(d) == machine.disks[d].parts
           Apart(e) == /\ Minor[e] \in Nat
                       /\ \A d \in DiskIds : d < e => Minor[d] + p(d) + 1 <= Minor[e]
           Good == {n \in Nat : \A e \in DiskIds : e <= n => Apart(e)}
<1>0. \A d \in DiskIds : p(d) \in Nat /\ d \in Nat /\ d >= 1
  BY PartsAreNat, DiskIsNat
<1>1. 0 \in Good
  BY <1>0
<1>2. ASSUME NEW n \in Nat, n \in Good PROVE n + 1 \in Good
  <2> SUFFICES ASSUME n + 1 \in DiskIds PROVE Apart(n + 1)
    BY <1>0, <1>2
  <2>1. CASE n = 0
    <3>1. Minor[n + 1] = 0
      BY <2>1, MinorIs
    <3> QED BY <3>1, <2>1, <1>0
  <2>2. CASE n # 0
    <3>1. n \in DiskIds /\ n + 1 # 1 /\ (n + 1) - 1 = n
      BY <2>2, ConsoleAssumption DEF DiskIds
    <3>2. Minor[n + 1] = Minor[n] + p(n) + 1
      BY <3>1, MinorIs
    <3>3. Apart(n)
      BY <3>1, <1>2
    <3>4. Minor[n] \in Nat /\ p(n) \in Nat
      BY <3>1, <3>3, <1>0
    <3>5. ASSUME NEW d \in DiskIds, d < n + 1 PROVE Minor[d] + p(d) + 1 <= Minor[n + 1]
      <4>1. CASE d = n
        BY <4>1, <3>2, <3>4
      <4>2. CASE d < n
        <5>0. p(d) \in Nat
          BY <1>0
        <5>3. Minor[d] \in Nat
          BY <4>2, <1>0, <1>2
        <5>1. Minor[d] + p(d) + 1 <= Minor[n]
          BY <4>2, <3>3
        <5> HIDE DEF p
        <5> QED BY <5>0, <5>1, <5>3, <3>2, <3>4
      <4> QED BY <4>1, <4>2, <3>5, <1>0
    <3>6. Minor[n + 1] \in Nat
      BY <3>2, <3>4
    <3> QED BY <3>5, <3>6
  <2> QED BY <2>1, <2>2
<1>3. Nat \subseteq Good
  <2> HIDE DEF Good
  <2> QED BY <1>1, <1>2, NatInSet
<1>4. ASSUME NEW e \in DiskIds PROVE Apart(e)
  <2>1. e \in Good
    BY <1>0, <1>3
  <2> QED BY <2>1, <1>0
<1> QED BY <1>4

\* The guess from a device number is the system's disk, or none: no other disk of three
\* partitions has a number that near.
LEMMA BootDiskIsRoot ==
  ASSUME MachineOK
  PROVE  getBootDisk \in {None0, machine.root}
<1> DEFINE m == Minor[machine.root]
           number == ((m + 2) \div 4) * 4
           at == {d \in DiskIds : Minor[d] = number /\ machine.disks[d].parts >= 3}
<1>1. /\ machine.root \in DiskIds /\ m \in Nat
      /\ machine.disks[machine.root].parts \in Nat /\ machine.disks[machine.root].parts >= 3
  BY NumbersApart DEF MachineOK
<1>2. number \in Int /\ m - 2 < number /\ number <= m + 2
  <2> HIDE DEF m
  <2> QED BY <1>1
<1>3. ASSUME NEW d \in at PROVE d = machine.root
  <2>1. /\ d \in DiskIds /\ Minor[d] = number /\ machine.disks[d].parts >= 3
        /\ machine.disks[d].parts \in Nat /\ d \in Int /\ machine.root \in Int
    BY <1>1, <1>3, PartsAreNat, DiskIsNat
  <2>2. d < machine.root => number + machine.disks[d].parts + 1 <= m
    BY <2>1, <1>1, NumbersApart
  <2>3. machine.root < d => m + machine.disks[machine.root].parts + 1 <= number
    BY <2>1, <1>1, NumbersApart
  <2> HIDE DEF m, number
  <2> QED BY <2>1, <2>2, <2>3, <1>1, <1>2
<1>4. getBootDisk = IF at = {} THEN None0 ELSE CHOOSE d \in at : TRUE
  BY DEF getBootDisk
<1> HIDE DEF at
<1> QED BY <1>3, <1>4

LEMMA X86RootIsRoot ==
  ASSUME MachineOK
  PROVE  X86Root \in {None0, machine.root}
<1> DEFINE mounted == {d \in DiskIds : isX86DiskRoot(d)}
<1>1. X86Root = IF mounted = {} THEN getBootDisk ELSE CHOOSE d \in mounted : TRUE
  BY DEF X86Root
<1>2. \A d \in mounted : d = machine.root
  BY DEF isX86DiskRoot
<1> HIDE DEF mounted
<1> QED BY <1>1, <1>2, BootDiskIsRoot

\* What is listed.
LEMMA ListedIsOther ==
  ASSUME MachineOK
  PROVE  /\ FromLSBLK \in [root : {None0, machine.root}, devs : SUBSET {d \in DiskIds : d # machine.root /\ machine.disks[d].large}]
         /\ FromLSBLK.devs # {} => FromLSBLK.root = machine.root
<1>1. X86Root = None0 \/ X86Root = machine.root
  BY X86RootIsRoot
<1>2. machine.root # None0
  BY ConsoleAssumption DEF MachineOK, DiskIds, None0
<1> DEFINE offered == IF X86Root = None0 THEN {}
                      ELSE {d \in DiskIds : d # X86Root /\ machine.disks[d].kind = "disk" /\ machine.disks[d].large}
<1>3. offered \in SUBSET {d \in DiskIds : d # machine.root /\ machine.disks[d].large}
  BY <1>1, <1>2
<1>4. FromLSBLK = [root |-> X86Root, devs |-> offered]
  BY DEF FromLSBLK
<1>5. offered # {} => X86Root = machine.root
  BY <1>1
<1> HIDE DEF offered
<1> QED BY <1>1, <1>3, <1>4, <1>5

\* Headers.
Headers == [guid : Guids, ecrc : Entries, hcrc : Guids \X Entries]

LEMMA EntriesAre == Source0 \in Entries /\ Blank \in Entries
BY DEF Source0, Blank, Entries

LEMMA HeaderIs ==
  ASSUME NEW g \in Guids, NEW e \in Entries
  PROVE  Header(g, e) \in Headers
<1>1. <<g, e>> \in Guids \X Entries
  OBVIOUS
<1> QED BY <1>1 DEF Header, Headers

\* The steps on the table of the disk that is written.
LEMMA DdMakes ==
  ASSUME NEW t \in Table
  PROVE  /\ WriteReset(Dd(t)) \in Table /\ WriteReset(Dd(t)).entries = Source0 /\ WriteReset(Dd(t)).reset
         /\ WriteReset(Dd(t)).header.guid = "src" /\ Valid(WriteReset(Dd(t)))
<1> DEFINE u == WriteReset(Dd(t))
<1>1. u = [t EXCEPT !.header = Header("src", Source0), !.entries = Source0, !.reset = TRUE]
  BY DEF WriteReset, Dd, Table
<1>2. Source0 \in Entries /\ Header("src", Source0) \in Headers
  BY EntriesAre, HeaderIs DEF Guids
<1>3. /\ u \in Table /\ u.entries = Source0 /\ u.reset = TRUE
      /\ u.header = [guid |-> "src", ecrc |-> Source0, hcrc |-> <<"src", Source0>>]
  BY <1>1, <1>2 DEF Table, Headers, Header
<1> HIDE DEF u
<1>4. Valid(u)
  BY <1>3 DEF Valid
<1> QED BY <1>3, <1>4 DEF u

LEMMA RebuildMakes ==
  ASSUME NEW t \in Table, NEW ok \in BOOLEAN
  PROVE  /\ RebuildGPT(t, ok) \in Table /\ RebuildGPT(t, ok).entries = Source0
         /\ RebuildGPT(t, ok).reset = t.reset /\ RebuildGPT(t, ok).header.guid = "src"
<1> DEFINE made == IF ok THEN [t EXCEPT !.header = Header("new", Blank), !.entries = Blank, !.alt = Blank, !.altGuid = "new"] ELSE t
<1>1. Source0 \in Entries /\ Blank \in Entries /\ Header("new", Blank) \in Headers
  BY EntriesAre, HeaderIs DEF Guids
<1>2. made \in Table /\ made.reset = t.reset
  BY <1>1 DEF Table, Headers, Guids
<1>3. RebuildGPT(t, ok) = [made EXCEPT !.header.guid = "src", !.entries = Source0]
  BY DEF RebuildGPT
<1> HIDE DEF made
<1> DEFINE u == [made EXCEPT !.header.guid = "src", !.entries = Source0]
<1>4. u = [made EXCEPT !.header = [made.header EXCEPT !.guid = "src"], !.entries = Source0]
  BY <1>2 DEF Table
<1>5. [made.header EXCEPT !.guid = "src"] \in Headers /\ [made.header EXCEPT !.guid = "src"].guid = "src"
  BY <1>2 DEF Table, Headers, Guids
<1>6. u \in Table /\ u.entries = Source0 /\ u.reset = made.reset /\ u.header.guid = "src"
  BY <1>1, <1>2, <1>4, <1>5 DEF Table, Headers
<1> QED BY <1>2, <1>3, <1>6

LEMMA FixMakes ==
  ASSUME NEW t \in Table
  PROVE  /\ FixCrc(t) \in Table /\ FixCrc(t).entries = t.entries /\ FixCrc(t).reset = t.reset
         /\ FixCrc(t).header.guid = t.header.guid /\ Valid(FixCrc(t))
<1> DEFINE e == [t EXCEPT !.header.ecrc = t.entries]
<1>1. /\ e \in Table /\ e.entries = t.entries /\ e.reset = t.reset
      /\ e.header.guid = t.header.guid /\ e.header.ecrc = t.entries
  BY DEF Table
<1>2. FixCrc(t) = [e EXCEPT !.header.hcrc = <<e.header.guid, e.header.ecrc>>]
  BY DEF FixCrc
<1> HIDE DEF e
<1> DEFINE u == [e EXCEPT !.header.hcrc = <<e.header.guid, e.header.ecrc>>]
<1>3. /\ u \in Table /\ u.entries = e.entries /\ u.reset = e.reset
      /\ u.header.guid = e.header.guid /\ u.header.ecrc = e.header.ecrc
      /\ u.header.hcrc = <<e.header.guid, e.header.ecrc>>
  BY <1>1 DEF Table
<1> HIDE DEF u
<1>4. Valid(u)
  BY <1>1, <1>3 DEF Valid
<1>5. FixCrc(t) = u
  BY <1>2 DEF u
<1> QED BY <1>1, <1>3, <1>4, <1>5

LEMMA AlternativeMakes ==
  ASSUME NEW t \in Table, Valid(t)
  PROVE  /\ FixAlternative(t) \in Table /\ FixAlternative(t).entries = t.entries /\ FixAlternative(t).reset = t.reset
         /\ FixAlternative(t).header = t.header
         /\ FixAlternative(t).alt = t.entries /\ FixAlternative(t).altGuid = t.header.guid
BY DEF FixAlternative, Table

LEMMA ConsoleStart == ConsoleInit => ConsoleInv
<1> SUFFICES ASSUME ConsoleInit PROVE ConsoleInv
  OBVIOUS
<1>1. PICK parts \in [DiskIds -> 0 .. 4], at \in DiskIds, boot \in BOOLEAN, large \in BOOLEAN,
           kind \in {"disk", "loop", "sr"}, gpt \in BOOLEAN :
        /\ parts[at] >= 3
        /\ machine = [disks |-> [d \in DiskIds |-> [parts |-> parts[d], large |-> d = at \/ large,
                                                    kind |-> IF d = at THEN "disk" ELSE kind]],
                      root |-> at, boot |-> boot, gpt |-> gpt]
  BY DEF ConsoleInit
<1>2. MachineOK
  BY <1>1 DEF MachineOK
<1>3. menu = "main" /\ found = [root |-> None0, devs |-> {}] /\ target = None0 /\ agreed = 0 /\ table = OldTable
  BY DEF ConsoleInit
<1>4. FoundOK /\ ChosenOK
  BY <1>3 DEF FoundOK, ChosenOK, Writing
<1>5. OldTable \in Table
  <2>1. Header("old", Blank) \in Headers
    BY EntriesAre, HeaderIs DEF Guids
  <2> QED BY <2>1, EntriesAre DEF OldTable, Table, Headers, Guids
<1>6. TableOK
  BY <1>3, <1>5 DEF TableOK
<1> QED BY <1>2, <1>3, <1>4, <1>6 DEF ConsoleInv, Menus

\* The steps before anything is written.
LEMMA ListKeeps ==
  ASSUME ConsoleInv, SelectInstall
  PROVE  ConsoleInv'
<1>1. /\ found' = FromLSBLK /\ menu' \in {"quit", "select"} /\ UNCHANGED <<machine, target, agreed, table>>
  BY DEF SelectInstall
<1>2. MachineOK /\ MachineOK'
  BY <1>1 DEF ConsoleInv, MachineOK
<1>3. FoundOK'
  BY <1>1, <1>2, ListedIsOther DEF FoundOK
<1>4. ChosenOK' /\ TableOK'
  BY <1>1 DEF ConsoleInv, ChosenOK, TableOK, Writing
<1> QED BY <1>1, <1>2, <1>3, <1>4 DEF ConsoleInv, Menus

LEMMA ChoiceKeeps ==
  ASSUME ConsoleInv, SelectDisk
  PROVE  ConsoleInv'
<1>1. /\ UNCHANGED <<machine, found, table>>
      /\ \/ target' \in found.devs /\ menu' = "confirm" /\ agreed' = 0
         \/ menu' = "main" /\ UNCHANGED <<target, agreed>>
  BY DEF SelectDisk
<1>2. MachineOK' /\ FoundOK' /\ TableOK'
  BY <1>1 DEF ConsoleInv, MachineOK, FoundOK, TableOK
<1>3. found.devs \subseteq DiskIds
  BY DEF ConsoleInv, FoundOK
<1>4. ChosenOK'
  BY <1>1, <1>3 DEF ConsoleInv, ChosenOK, Writing
<1> QED BY <1>1, <1>2, <1>4 DEF ConsoleInv, Menus

LEMMA AnswerKeeps ==
  ASSUME ConsoleInv, Answer
  PROVE  ConsoleInv'
<1>1. menu \in {"confirm", "again"} /\ UNCHANGED <<machine, found, target, table>>
  BY DEF Answer
<1>2. \/ menu' \in {"select", "main"}
      \/ menu = "confirm" /\ menu' = "again" /\ agreed' = agreed + 1
      \/ menu = "again" /\ menu' = "dd" /\ agreed' = agreed + 1
  <2>1. PICK answer \in {"ok", "no", "quit"} :
          /\ menu' = Confirm(answer)
          /\ agreed' = IF answer = "ok" THEN agreed + 1 ELSE 0
    BY DEF Answer
  <2> QED BY <2>1, <1>1 DEF Confirm
<1>3. MachineOK' /\ FoundOK' /\ TableOK'
  BY <1>1, <1>2 DEF ConsoleInv, MachineOK, FoundOK, TableOK
<1>4. target \in found.devs /\ target \in DiskIds \union {None0} /\ (menu = "confirm" => agreed = 0) /\ (menu = "again" => agreed = 1)
  BY <1>1 DEF ConsoleInv, ChosenOK, Writing
<1>5. ChosenOK'
  BY <1>1, <1>2, <1>4 DEF ChosenOK, Writing
<1> QED BY <1>2, <1>3, <1>5 DEF ConsoleInv, Menus

\* The disk is written: the steps that leave everything but the table and the menu.
LEMMA WritingKeeps ==
  ASSUME ConsoleInv, Writing, menu' \in {"quit", "gpt", "crc", "alt", "reboot"},
         UNCHANGED <<machine, found, target, agreed>>
  PROVE  MachineOK' /\ FoundOK' /\ ChosenOK' /\ menu' \in Menus
<1>1. MachineOK' /\ FoundOK'
  BY DEF ConsoleInv, MachineOK, FoundOK
<1>2. target \in found.devs /\ target \in DiskIds \union {None0} /\ agreed = 2
  BY DEF ConsoleInv, ChosenOK, Writing
<1>3. ChosenOK'
  BY <1>2 DEF ChosenOK, Writing
<1> QED BY <1>1, <1>3 DEF Menus

LEMMA CopyKeepsConsole ==
  ASSUME ConsoleInv, CopySystem
  PROVE  ConsoleInv'
<1>1. /\ menu = "dd" /\ UNCHANGED <<machine, found, target, agreed>>
      /\ \/ menu' = "quit" /\ UNCHANGED table
         \/ menu' = (IF machine.gpt THEN "gpt" ELSE "reboot") /\ table' = WriteReset(Dd(table))
  BY DEF CopySystem
<1>2. MachineOK' /\ FoundOK' /\ ChosenOK' /\ menu' \in Menus
  BY <1>1, WritingKeeps DEF Writing
<1>3. table \in Table
  BY DEF ConsoleInv, TableOK
<1>4. TableOK'
  <2>1. CASE menu' = "quit" /\ UNCHANGED table
    BY <2>1, <1>3 DEF TableOK
  <2>2. CASE menu' = (IF machine.gpt THEN "gpt" ELSE "reboot") /\ table' = WriteReset(Dd(table))
    <3>1. /\ table' \in Table /\ table'.entries = Source0 /\ table'.reset
          /\ table'.header.guid = "src" /\ Valid(table')
      BY <2>2, <1>3, DdMakes
    <3> QED BY <3>1, <2>2, <1>1 DEF TableOK
  <2> QED BY <1>1, <2>1, <2>2
<1> QED BY <1>2, <1>4 DEF ConsoleInv

LEMMA RebuildKeeps ==
  ASSUME ConsoleInv, RebuildTable
  PROVE  ConsoleInv'
<1>1. /\ menu = "gpt" /\ menu' = "crc" /\ UNCHANGED <<machine, found, target, agreed>>
      /\ table \in Table /\ table.entries = Source0 /\ table.reset
  BY DEF RebuildTable, ConsoleInv, TableOK
<1>2. MachineOK' /\ FoundOK' /\ ChosenOK' /\ menu' \in Menus
  BY <1>1, WritingKeeps DEF Writing
<1>3. PICK ok \in BOOLEAN : table' = RebuildGPT(table, ok)
  BY DEF RebuildTable
<1>4. table' \in Table /\ table'.entries = Source0 /\ table'.reset = table.reset /\ table'.header.guid = "src"
  BY <1>1, <1>3, RebuildMakes
<1>5. TableOK'
  BY <1>1, <1>4 DEF TableOK
<1> QED BY <1>2, <1>5 DEF ConsoleInv

LEMMA ChecksumsKeep ==
  ASSUME ConsoleInv, Checksums
  PROVE  ConsoleInv'
<1>1. /\ menu = "crc" /\ menu' = "alt" /\ UNCHANGED <<machine, found, target, agreed>> /\ table' = FixCrc(table)
      /\ table \in Table /\ table.entries = Source0 /\ table.reset /\ table.header.guid = "src"
  BY DEF Checksums, ConsoleInv, TableOK
<1>2. MachineOK' /\ FoundOK' /\ ChosenOK' /\ menu' \in Menus
  BY <1>1, WritingKeeps DEF Writing
<1>3. /\ table' \in Table /\ table'.entries = table.entries /\ table'.reset = table.reset
      /\ table'.header.guid = table.header.guid /\ Valid(table')
  BY <1>1, FixMakes
<1>4. TableOK'
  BY <1>1, <1>3 DEF TableOK
<1> QED BY <1>2, <1>4 DEF ConsoleInv

LEMMA AlternativeKeeps ==
  ASSUME ConsoleInv, Alternative
  PROVE  ConsoleInv'
<1>1. /\ menu = "alt" /\ menu' = "reboot" /\ UNCHANGED <<machine, found, target, agreed>>
      /\ table' = FixAlternative(table)
      /\ table \in Table /\ table.entries = Source0 /\ table.reset /\ table.header.guid = "src" /\ Valid(table)
  BY DEF Alternative, ConsoleInv, TableOK
<1>2. MachineOK' /\ FoundOK' /\ ChosenOK' /\ menu' \in Menus
  BY <1>1, WritingKeeps DEF Writing
<1>3. /\ table' \in Table /\ table'.entries = table.entries /\ table'.reset = table.reset
      /\ table'.header = table.header /\ table'.alt = table.entries /\ table'.altGuid = table.header.guid
  BY <1>1, AlternativeMakes
<1>4. Valid(table')
  BY <1>1, <1>3 DEF Valid
<1>5. TableOK'
  BY <1>1, <1>3, <1>4 DEF TableOK
<1> QED BY <1>2, <1>5 DEF ConsoleInv

LEMMA EndKeeps ==
  ASSUME ConsoleInv, promptReset \/ QuitMenu
  PROVE  ConsoleInv'
<1>1. menu' \in {"reset", "quit"} /\ UNCHANGED <<machine, found, target, agreed, table>>
  BY DEF promptReset, QuitMenu
<1>2. MachineOK' /\ FoundOK' /\ ChosenOK'
  BY <1>1 DEF ConsoleInv, MachineOK, FoundOK, ChosenOK, Writing
<1>3. TableOK'
  BY <1>1 DEF ConsoleInv, TableOK
<1> QED BY <1>1, <1>2, <1>3 DEF ConsoleInv, Menus

LEMMA ConsoleInductive == ConsoleInv /\ [ConsoleNext]_consoleVars => ConsoleInv'
<1> SUFFICES ASSUME ConsoleInv, [ConsoleNext]_consoleVars PROVE ConsoleInv'
  OBVIOUS
<1>1. CASE UNCHANGED consoleVars
  BY <1>1 DEF consoleVars, ConsoleInv, MachineOK, FoundOK, ChosenOK, TableOK, Writing, Valid
<1> QED
  BY <1>1, ListKeeps, ChoiceKeeps, AnswerKeeps, CopyKeepsConsole, RebuildKeeps, ChecksumsKeep, AlternativeKeeps, EndKeeps
  DEF ConsoleNext

LEMMA ConsoleInvShows == ConsoleInv => ConsoleCorrect
<1> SUFFICES ASSUME ConsoleInv PROVE ConsoleCorrect
  OBVIOUS
<1>1. /\ found.root \in {None0, machine.root} /\ found.devs \subseteq {d \in DiskIds : d # machine.root /\ machine.disks[d].large}
      /\ found.devs # {} => found.root = machine.root
      /\ machine.root \in DiskIds /\ machine.disks[machine.root].parts >= 3
  BY DEF ConsoleInv, FoundOK, MachineOK
<1>2. ConsoleTypeOK
  BY <1>1 DEF ConsoleTypeOK, ConsoleInv, ChosenOK, Menus
<1>3. Writing => target \in found.devs /\ agreed = 2
  BY DEF ConsoleInv, ChosenOK, Writing
<1>4. NeverOwnDisk /\ AgreedTwice
  BY <1>1, <1>3 DEF NeverOwnDisk, AgreedTwice
<1>5. BootableAtReboot
  BY DEF ConsoleInv, TableOK, BootableAtReboot
<1> QED BY <1>2, <1>4, <1>5 DEF ConsoleCorrect

\* The console's installation is correct on a machine of any number of disks: whatever
\* partitions they have and however the system's own is found, that one is never written,
\* no disk is without two consents in a row, and the one that is written will start.
THEOREM ConsoleInstallCorrect == ConsoleSpec => []ConsoleCorrect
<1>1. ConsoleSpec => []ConsoleInv
  BY ConsoleStart, ConsoleInductive, PTL DEF ConsoleSpec
<1> QED BY <1>1, ConsoleInvShows, PTL

-----------------------------------------------------------------------------
(* Shares: the inductive invariant                                         *)

UserSections == [name : {"ann", "bob", NoName}, password : {"p1", "p2", NoName}]
ShareSections == [name : {"a", "b", NoName}, path : {"/mnt/a", "/mnt/b", "/mnt/c", NoName},
                  ro : SUBSET {"ann", "bob"}, rw : SUBSET {"ann", "bob"}, proto : SUBSET {"samba", "webdav"}]
Files == [user : Seq(UserSections), share : Seq(ShareSections), webdav_port : {0, 6086}, enabled : BOOLEAN]
SambaForms == [workgroup : {"w0", "w1"}, description : {"d"}, flags : SUBSET Flags]

\* The requests that were not refused.
UserForms == [name : {"ann", "bob"}, password : {"p1", "p2"}]
FolderForms == [name : {"a", "b"}, path : {"/mnt/c"}, users : SUBSET ({"ann", "bob"} \X {"ro", "rw"}), proto : SUBSET {"samba", "webdav"}]
Jobs(kinds, of, forms) == [kind : kinds, of : {of}, r : forms, at : Nat \ {0}, twice : BOOLEAN, stale : BOOLEAN]
UserJobs == Jobs({"create", "update"}, "user", UserForms)
UserDeletes == Jobs({"delete"}, "user", [name : {"ann", "bob"}])
ShareJobs == Jobs({"create", "update"}, "share", FolderForms)
ShareDeletes == Jobs({"delete"}, "share", [name : {"a", "b"}])
AllJobs == UserJobs \union UserDeletes \union ShareJobs \union ShareDeletes
SharesTyped ==
  /\ unishare \in Files /\ served \in Files /\ samba4 \in SambaForms
  /\ job \in [ShareClients -> AllJobs \union {NoJob}]
  /\ shareAsked \in AllJobs \union {NoJob} \union [kind : {"webdav"}, r : {6086}] \union [kind : {"samba"}, r : SambaForms]

\* A request that is not stale has the place that its name has now.
Placed(u, j) ==
  LET at == PlacesOf(u[j.of], j.r.name)
  IN  IF j.kind = "create" THEN j.at = Len(u[j.of]) + 1 /\ at = {}
      ELSE j.at \in at /\ (~j.twice => at = {j.at})
AllPlaced == \A c \in ShareClients : job[c] # NoJob /\ ~job[c].stale => Placed(unishare, job[c])

\* The share that a request asks for, and what a request that was answered with success has left.
NewShare(r) == shareServiceListCommands([BlankShare EXCEPT !.name = r.name, !.path = r.path], r)
Left(u, j) ==
  /\ j.of = "user" /\ j.kind = "delete" => PlacesOf(u.user, j.r.name) = {}
  /\ j.of = "user" /\ j.kind # "delete" => PlacesOf(u.user, j.r.name) = {j.at} /\ u.user[j.at] = j.r
  /\ j.of = "share" /\ j.kind # "delete" => j.at \in DOMAIN u.share /\ u.share[j.at] = NewShare(j.r)
AskedIsLeft ==
  shareAsked # NoJob /\ shareAsked.kind \in {"create", "update", "delete"} /\ Unmoved(shareAsked) =>
    Left(unishare, shareAsked) /\ Left(served, shareAsked)
SharesInv == SharesTyped /\ AllPlaced /\ AskedIsLeft /\ ProtocolAsAsked

-----------------------------------------------------------------------------
(* Shares: sections                                                        *)

LEMMA PutIs ==
  ASSUME NEW S, NEW s \in Seq(S), NEW at, NEW x \in S
  PROVE  /\ Put(s, at, x) \in Seq(S) /\ Len(Put(s, at, x)) = Len(s) /\ DOMAIN Put(s, at, x) = DOMAIN s
         /\ \A n \in DOMAIN s : n # at => Put(s, at, x)[n] = s[n]
         /\ at \in DOMAIN s => Put(s, at, x)[at] = x
<1>1. CASE at \in DOMAIN s
  <2> DEFINE t == [s EXCEPT ![at] = x]
  <2>1. Put(s, at, x) = t
    BY <1>1 DEF Put
  <2>2. DOMAIN t = DOMAIN s /\ t[at] = x /\ \A n \in DOMAIN s : n # at => t[n] = s[n]
    BY <1>1
  <2>3. t \in Seq(S) /\ Len(t) = Len(s)
    BY <1>1
  <2> QED BY <2>1, <2>2, <2>3
<1>2. CASE at \notin DOMAIN s
  BY <1>2 DEF Put
<1> QED BY <1>1, <1>2

LEMMA DropIs ==
  ASSUME NEW S, NEW s \in Seq(S), NEW at
  PROVE  /\ Drop(s, at) \in Seq(S)
         /\ at \in DOMAIN s => /\ Len(Drop(s, at)) = Len(s) - 1
                               /\ \A n \in DOMAIN s : n < at => Drop(s, at)[n] = s[n]
                               /\ \A n \in DOMAIN s : n > at => Drop(s, at)[n - 1] = s[n]
<1>1. CASE at \in DOMAIN s
  <2>0. at \in 1 .. Len(s) /\ Len(s) \in Nat
    BY <1>1
  <2> DEFINE l == SubSeq(s, 1, at - 1)
             r == SubSeq(s, at + 1, Len(s))
  <2>1. Drop(s, at) = l \o r
    BY <1>1 DEF Drop, RemoveAt
  <2>2. l \in Seq(S) /\ Len(l) = at - 1 /\ \A n \in 1 .. at - 1 : l[n] = s[n]
    BY <2>0
  <2>3. r \in Seq(S) /\ Len(r) = Len(s) - at /\ \A n \in 1 .. Len(s) - at : r[n] = s[at + n]
    BY <2>0
  <2> HIDE DEF l, r
  <2>4. l \o r \in Seq(S) /\ Len(l \o r) = Len(s) - 1
    <3>1. l \o r \in Seq(S) /\ Len(l \o r) = Len(l) + Len(r)
      BY <2>2, <2>3, SMTT(30)
    <3> QED BY <3>1, <2>0, <2>2, <2>3
  <2>5. \A n \in DOMAIN s : n < at => (l \o r)[n] = s[n]
    <3> SUFFICES ASSUME NEW n \in DOMAIN s, n < at PROVE (l \o r)[n] = s[n]
      OBVIOUS
    <3>1. n \in 1 .. at - 1 /\ n \in 1 .. Len(l)
      BY <2>0, <2>2
    <3>2. (l \o r)[n] = l[n]
      BY <3>1, <2>0, <2>2, <2>3
    <3> QED BY <3>1, <3>2, <2>2
  <2>6. \A n \in DOMAIN s : n > at => (l \o r)[n - 1] = s[n]
    <3> SUFFICES ASSUME NEW n \in DOMAIN s, n > at PROVE (l \o r)[n - 1] = s[n]
      OBVIOUS
    <3>1. n \in 1 .. Len(s) /\ n - at \in 1 .. Len(s) - at /\ n - 1 \in 1 .. Len(s) - 1 /\ n - 1 > at - 1
      BY <2>0
    <3>2. (l \o r)[n - 1] = r[n - 1 - (at - 1)]
      BY <3>1, <2>0, <2>2, <2>3, SMTT(30)
    <3>3. n - 1 - (at - 1) = n - at /\ at + (n - at) = n
      BY <3>1, <2>0
    <3> QED BY <3>1, <3>2, <3>3, <2>3
  <2> QED BY <2>1, <2>4, <2>5, <2>6
<1>2. CASE at \notin DOMAIN s
  BY <1>2 DEF Drop
<1> QED BY <1>1, <1>2

LEMMA AppendIs ==
  ASSUME NEW S, NEW s \in Seq(S), NEW x \in S
  PROVE  /\ Append(s, x) \in Seq(S) /\ Len(Append(s, x)) = Len(s) + 1 /\ Len(s) + 1 \in DOMAIN Append(s, x)
         /\ \A n \in DOMAIN s : n \in DOMAIN Append(s, x) /\ Append(s, x)[n] = s[n]
         /\ Append(s, x)[Len(s) + 1] = x
OBVIOUS

\* The kinds of requests.
LEMMA JobIs ==
  ASSUME NEW j \in AllJobs
  PROVE  /\ j.kind \in {"create", "update", "delete"} /\ j.of \in {"user", "share"}
         /\ j.at \in Nat \ {0} /\ j.twice \in BOOLEAN /\ j.stale \in BOOLEAN /\ j # NoJob
         /\ j.of = "user" => j.r.name \in {"ann", "bob"}
         /\ j.of = "share" => j.r.name \in {"a", "b"}
         /\ j.of = "user" /\ j.kind # "delete" => j.r \in UserForms
         /\ j.of = "share" /\ j.kind # "delete" => j.r \in FolderForms
<1>1. CASE j \in UserJobs
  BY <1>1 DEF UserJobs, Jobs, UserForms, NoJob
<1>2. CASE j \in UserDeletes
  BY <1>2 DEF UserDeletes, Jobs, NoJob
<1>3. CASE j \in ShareJobs
  BY <1>3 DEF ShareJobs, Jobs, FolderForms, NoJob
<1>4. CASE j \in ShareDeletes
  BY <1>4 DEF ShareDeletes, Jobs, NoJob
<1> QED BY <1>1, <1>2, <1>3, <1>4 DEF AllJobs

LEMMA NewShareIs ==
  ASSUME NEW r \in FolderForms
  PROVE  /\ NewShare(r) \in ShareSections /\ NewShare(r).name = r.name /\ NewShare(r).path = r.path
         /\ NewShare(r).ro = {p[1] : p \in {q \in r.users : q[2] = "ro"}}
         /\ NewShare(r).rw = {p[1] : p \in {q \in r.users : q[2] = "rw"}}
         /\ NewShare(r).proto = r.proto
<1> DEFINE ro == {p[1] : p \in {q \in r.users : q[2] = "ro"}}
           rw == {p[1] : p \in {q \in r.users : q[2] = "rw"}}
<1>1. ro \subseteq {"ann", "bob"} /\ rw \subseteq {"ann", "bob"}
  BY DEF FolderForms
<1>2. NewShare(r) = [name |-> r.name, path |-> r.path, ro |-> {} \union ro, rw |-> {} \union rw, proto |-> {} \union r.proto]
  <2> DEFINE b == [BlankShare EXCEPT !.name = r.name, !.path = r.path]
  <2>0. BlankShare \in ShareSections /\ BlankShare.ro = {} /\ BlankShare.rw = {} /\ BlankShare.proto = {}
    BY DEF BlankShare, ShareSections
  <2>a. r.name \in {"a", "b", NoName} /\ r.path \in {"/mnt/a", "/mnt/b", "/mnt/c", NoName}
    BY DEF FolderForms
  <2>b. b \in ShareSections /\ b.name = r.name /\ b.path = r.path /\ b.ro = {} /\ b.rw = {} /\ b.proto = {}
    BY <2>0, <2>a DEF ShareSections
  <2> HIDE DEF b
  <2>1. b = [name |-> r.name, path |-> r.path, ro |-> {}, rw |-> {}, proto |-> {}]
    BY <2>b DEF ShareSections
  <2>2. NewShare(r) = [b EXCEPT !.ro = b.ro \union ro, !.rw = b.rw \union rw, !.proto = b.proto \union r.proto]
    BY DEF NewShare, shareServiceListCommands, b
  <2> HIDE DEF ro, rw
  <2> QED BY <2>1, <2>2
<1> HIDE DEF ro, rw
<1>3. NewShare(r) = [name |-> r.name, path |-> r.path, ro |-> ro, rw |-> rw, proto |-> r.proto]
  BY <1>2
<1>4. r.name \in {"a", "b"} /\ r.path = "/mnt/c" /\ r.proto \in SUBSET {"samba", "webdav"}
  BY DEF FolderForms
<1>5. NewShare(r) \in ShareSections
  BY <1>1, <1>3, <1>4 DEF ShareSections
<1> QED BY <1>3, <1>5 DEF ro, rw

\* A share section that is written over another.
LEMMA ListCommandsTyped ==
  ASSUME NEW x \in ShareSections, NEW r \in FolderForms
  PROVE  shareServiceListCommands([x EXCEPT !.name = r.name, !.path = r.path], r) \in ShareSections
<1> DEFINE b == [x EXCEPT !.name = r.name, !.path = r.path]
           ro == {p[1] : p \in {q \in r.users : q[2] = "ro"}}
           rw == {p[1] : p \in {q \in r.users : q[2] = "rw"}}
<1>1. ro \subseteq {"ann", "bob"} /\ rw \subseteq {"ann", "bob"} /\ r.proto \subseteq {"samba", "webdav"}
  BY DEF FolderForms
<1>2. r.name \in {"a", "b", NoName} /\ r.path \in {"/mnt/a", "/mnt/b", "/mnt/c", NoName}
  BY DEF FolderForms
<1>3. b \in ShareSections
  BY <1>2 DEF ShareSections
<1>4. shareServiceListCommands(b, r) = [b EXCEPT !.ro = b.ro \union ro, !.rw = b.rw \union rw, !.proto = b.proto \union r.proto]
  BY DEF shareServiceListCommands
<1> HIDE DEF b, ro, rw
<1>5. b.ro \union ro \in SUBSET {"ann", "bob"} /\ b.rw \union rw \in SUBSET {"ann", "bob"}
      /\ b.proto \union r.proto \in SUBSET {"samba", "webdav"}
  BY <1>1, <1>3 DEF ShareSections
<1>6. shareServiceListCommands(b, r) \in ShareSections
  BY <1>3, <1>4, <1>5 DEF ShareSections
<1> QED BY <1>6 DEF b

\* A file with other sections of one type.
LEMMA UserFile ==
  ASSUME NEW u \in Files, NEW s \in Seq(UserSections)
  PROVE  /\ [u EXCEPT !.user = s] \in Files /\ [u EXCEPT !.user = s].user = s
         /\ [u EXCEPT !.user = s].share = u.share /\ [u EXCEPT !.user = s].webdav_port = u.webdav_port
BY DEF Files

LEMMA ShareFile ==
  ASSUME NEW u \in Files, NEW s \in Seq(ShareSections)
  PROVE  /\ [u EXCEPT !.share = s] \in Files /\ [u EXCEPT !.share = s].share = s
         /\ [u EXCEPT !.share = s].user = u.user /\ [u EXCEPT !.share = s].webdav_port = u.webdav_port
BY DEF Files

Ported(u, p, v) == v \in Files /\ v.webdav_port = p /\ v.user = u.user /\ v.share = u.share

LEMMA PortFile ==
  ASSUME NEW u \in Files, NEW p \in {0, 6086}
  PROVE  Ported(u, p, UpdateWebdav(u, p))
BY DEF Files, Ported, UpdateWebdav

LEMMA EnabledFile ==
  ASSUME NEW u \in Files, NEW s \in Seq(ShareSections)
  PROVE  /\ [u EXCEPT !.share = s, !.enabled = TRUE] \in Files /\ [u EXCEPT !.share = s, !.enabled = TRUE].share = s
         /\ [u EXCEPT !.share = s, !.enabled = TRUE].user = u.user
<1> DEFINE w == [user |-> u.user, share |-> s, webdav_port |-> u.webdav_port, enabled |-> TRUE]
<1>1. [u EXCEPT !.share = s, !.enabled = TRUE] = w
  <2>1. ASSUME NEW v \in Files, NEW yes \in BOOLEAN
        PROVE  [v EXCEPT !.enabled = yes] = [user |-> v.user, share |-> v.share, webdav_port |-> v.webdav_port, enabled |-> yes]
    BY <2>1, SMTT(30) DEF Files
  <2> DEFINE v == [u EXCEPT !.share = s]
  <2>2. v \in Files /\ v.share = s /\ v.user = u.user /\ v.webdav_port = u.webdav_port
    BY ShareFile
  <2>3. [u EXCEPT !.share = s, !.enabled = TRUE] = [v EXCEPT !.enabled = TRUE]
    OBVIOUS
  <2>4. TRUE \in BOOLEAN
    OBVIOUS
  <2> HIDE DEF v
  <2>5. [v EXCEPT !.enabled = TRUE] = [user |-> v.user, share |-> v.share, webdav_port |-> v.webdav_port, enabled |-> TRUE]
    BY <2>1, <2>2, <2>4, Zenon
  <2> QED BY <2>2, <2>3, <2>5, Zenon
<1>2. u.user \in Seq(UserSections) /\ u.webdav_port \in {0, 6086}
  BY DEF Files
<1>3. w \in Files
  BY <1>2 DEF Files
<1> QED BY <1>1, <1>3

LEMMA BlankIs == BlankUser \in UserSections /\ BlankShare \in ShareSections
BY DEF BlankUser, BlankShare, UserSections, ShareSections

\* What a request writes, wherever it does.
LEMMA ApplyCreateUser ==
  ASSUME NEW u \in Files, NEW j \in AllJobs, j.of = "user", j.kind = "create"
  PROVE  /\ Apply(u, j) \in Files /\ Apply(u, j).share = u.share
         /\ Apply(u, j).user = Put(Append(u.user, BlankUser), j.at, j.r)
<1>1. Apply(u, j) = [u EXCEPT !.user = Put(Append(u.user, BlankUser), j.at, [name |-> j.r.name, password |-> j.r.password])]
  BY DEF Apply, CreateUser
<1>2. j.r \in UserForms /\ u.user \in Seq(UserSections)
  BY JobIs DEF Files
<1>3. [name |-> j.r.name, password |-> j.r.password] = j.r /\ j.r \in UserSections
  BY <1>2 DEF UserForms, UserSections
<1>4. Append(u.user, BlankUser) \in Seq(UserSections)
  BY <1>2, BlankIs, AppendIs
<1>5. Put(Append(u.user, BlankUser), j.at, j.r) \in Seq(UserSections)
  BY <1>3, <1>4, PutIs
<1> QED BY <1>1, <1>3, <1>5, UserFile

LEMMA ApplyUpdateUser ==
  ASSUME NEW u \in Files, NEW j \in AllJobs, j.of = "user", j.kind = "update"
  PROVE  /\ Apply(u, j) \in Files /\ Apply(u, j).share = u.share
         /\ DOMAIN Apply(u, j).user = DOMAIN u.user /\ Len(Apply(u, j).user) = Len(u.user)
         /\ \A n \in DOMAIN u.user : /\ n # j.at => Apply(u, j).user[n] = u.user[n]
                                     /\ Apply(u, j).user[n].name = u.user[n].name
         /\ j.at \in DOMAIN u.user => Apply(u, j).user[j.at] = [name |-> u.user[j.at].name, password |-> j.r.password]
<1> DEFINE t == IF j.at \in DOMAIN u.user THEN [u.user EXCEPT ![j.at].password = j.r.password] ELSE u.user
<1>1. Apply(u, j) = [u EXCEPT !.user = t]
  BY DEF Apply, UpdateUser
<1>2. j.r.password \in {"p1", "p2", NoName} /\ u.user \in Seq(UserSections)
  BY JobIs DEF Files, UserForms
<1>3. /\ t \in Seq(UserSections) /\ DOMAIN t = DOMAIN u.user /\ Len(t) = Len(u.user)
      /\ \A n \in DOMAIN u.user : (n # j.at => t[n] = u.user[n]) /\ t[n].name = u.user[n].name
      /\ j.at \in DOMAIN u.user => t[j.at] = [name |-> u.user[j.at].name, password |-> j.r.password]
  <2>1. CASE j.at \notin DOMAIN u.user
    BY <2>1, <1>2
  <2>2. CASE j.at \in DOMAIN u.user
    <3> DEFINE x == [u.user[j.at] EXCEPT !.password = j.r.password]
    <3>1. u.user[j.at] \in UserSections
      BY <2>2, <1>2
    <3>2. x \in UserSections /\ x.name = u.user[j.at].name /\ x = [name |-> u.user[j.at].name, password |-> j.r.password]
      BY <3>1, <1>2 DEF UserSections
    <3>3. t = [u.user EXCEPT ![j.at] = x]
      BY <2>2, <1>2
    <3> HIDE DEF x, t
    <3>4. t \in Seq(UserSections) /\ DOMAIN t = DOMAIN u.user /\ Len(t) = Len(u.user)
      BY <2>2, <3>2, <3>3, <1>2
    <3>5. t[j.at] = x /\ \A n \in DOMAIN u.user : n # j.at => t[n] = u.user[n]
      BY <2>2, <3>3, <1>2
    <3> QED BY <3>2, <3>4, <3>5
  <2> QED BY <2>1, <2>2
<1> HIDE DEF t
<1> QED BY <1>1, <1>3, UserFile

LEMMA ApplyDeleteUser ==
  ASSUME NEW u \in Files, NEW j \in AllJobs, j.of = "user", j.kind = "delete"
  PROVE  Apply(u, j) \in Files /\ Apply(u, j).share = u.share /\ Apply(u, j).user = Drop(u.user, j.at)
<1>1. Apply(u, j) = [u EXCEPT !.user = Drop(u.user, j.at)]
  BY DEF Apply, DeleteUser
<1>2. Drop(u.user, j.at) \in Seq(UserSections)
  BY DropIs DEF Files
<1> QED BY <1>1, <1>2, UserFile

LEMMA ApplyCreateShare ==
  ASSUME NEW u \in Files, NEW j \in AllJobs, j.of = "share", j.kind = "create"
  PROVE  /\ Apply(u, j) \in Files /\ Apply(u, j).user = u.user
         /\ j.at = Len(u.share) + 1 => Apply(u, j).share = Put(Append(u.share, BlankShare), j.at, NewShare(j.r))
<1> DEFINE add == Append(u.share, BlankShare)
           x == shareServiceListCommands([add[j.at] EXCEPT !.name = j.r.name, !.path = j.r.path], j.r)
           t == IF j.at \in DOMAIN add THEN Put(add, j.at, x) ELSE add
<1>1. Apply(u, j) = [u EXCEPT !.share = t, !.enabled = TRUE]
  BY DEF Apply, CreateShare
<1>2. u.share \in Seq(ShareSections) /\ j.r \in FolderForms
  BY JobIs DEF Files
<1>3. add \in Seq(ShareSections) /\ (j.at = Len(u.share) + 1 => j.at \in DOMAIN add /\ add[j.at] = BlankShare)
  BY <1>2, BlankIs, AppendIs
<1>4. j.at \in DOMAIN add => x \in ShareSections
  <2> HIDE DEF add
  <2>1. j.at \in DOMAIN add => add[j.at] \in ShareSections
    BY <1>3
  <2> QED BY <2>1, <1>2, ListCommandsTyped
<1>5. j.at = Len(u.share) + 1 => x = NewShare(j.r)
  <2> HIDE DEF add
  <2> QED BY <1>3 DEF NewShare
<1> HIDE DEF add, x
<1>6. t \in Seq(ShareSections)
  BY <1>3, <1>4, PutIs
<1>7. j.at = Len(u.share) + 1 => t = Put(add, j.at, NewShare(j.r))
  BY <1>3, <1>5
<1> HIDE DEF t
<1>8. Apply(u, j) \in Files /\ Apply(u, j).user = u.user /\ Apply(u, j).share = t
  <2> DEFINE w == [u EXCEPT !.share = t, !.enabled = TRUE]
  <2>1. w \in Files /\ w.share = t /\ w.user = u.user
    BY <1>6, EnabledFile, Zenon
  <2> QED BY <1>1, <2>1, Zenon
<1> QED BY <1>7, <1>8 DEF add

LEMMA ApplyUpdateShare ==
  ASSUME NEW u \in Files, NEW j \in AllJobs, j.of = "share", j.kind = "update"
  PROVE  Apply(u, j) \in Files /\ Apply(u, j).user = u.user /\ Apply(u, j).share = Put(u.share, j.at, NewShare(j.r))
<1>1. Apply(u, j) = [u EXCEPT !.share = Put(u.share, j.at, NewShare(j.r))]
  BY DEF Apply, UpdateShare, NewShare
<1>2. u.share \in Seq(ShareSections) /\ NewShare(j.r) \in ShareSections
  BY JobIs, NewShareIs DEF Files
<1>3. Put(u.share, j.at, NewShare(j.r)) \in Seq(ShareSections)
  BY <1>2, PutIs
<1> QED BY <1>1, <1>3, ShareFile

LEMMA ApplyDeleteShare ==
  ASSUME NEW u \in Files, NEW j \in AllJobs, j.of = "share", j.kind = "delete"
  PROVE  Apply(u, j) \in Files /\ Apply(u, j).user = u.user /\ Apply(u, j).share = Drop(u.share, j.at)
<1>1. Apply(u, j) = [u EXCEPT !.share = Drop(u.share, j.at)]
  BY DEF Apply, DeleteShare
<1>2. Drop(u.share, j.at) \in Seq(ShareSections)
  BY DropIs DEF Files
<1> QED BY <1>1, <1>2, ShareFile

-----------------------------------------------------------------------------
(* Shares: a request whose place nobody has moved                          *)

\* Nothing but the section of the request's name is another, and the rest is in its order.
OnlyThat(old, new, j) ==
  /\ Len(new) = Len(old) + (IF j.kind = "create" THEN 1 ELSE IF j.kind = "delete" THEN -1 ELSE 0)
  /\ \A n \in DOMAIN old \ PlacesOf(old, j.r.name) :
       new[IF j.kind = "delete" /\ n > j.at THEN n - 1 ELSE n] = old[n]
  /\ PlacesOf(new, j.r.name) = IF j.kind = "delete" THEN {} ELSE {j.at}

Created(s, t, at, x) ==
  /\ Len(t) = Len(s) + 1 /\ at \in DOMAIN t /\ t[at] = x
  /\ \A n \in DOMAIN s : t[n] = s[n]
  /\ PlacesOf(t, x.name) = {at}
Deleted(s, t, at, name) ==
  /\ Len(t) = Len(s) - 1
  /\ \A n \in DOMAIN s : n # at => t[IF n > at THEN n - 1 ELSE n] = s[n]
  /\ PlacesOf(t, name) = {}

LEMMA CreatedIs ==
  ASSUME NEW S, NEW s \in Seq(S), NEW b \in S, NEW x \in S, PlacesOf(s, x.name) = {},
         NEW at, at = Len(s) + 1
  PROVE  Created(s, Put(Append(s, b), at, x), at, x)
<1> DEFINE a == Append(s, b)
           t == Put(a, at, x)
<1>1. /\ a \in Seq(S) /\ Len(a) = Len(s) + 1 /\ at \in DOMAIN a
      /\ \A n \in DOMAIN s : n \in DOMAIN a /\ a[n] = s[n]
  BY AppendIs
<1>2. \A n \in DOMAIN s : n # at
  OBVIOUS
<1>3. \A n \in DOMAIN a : n \in DOMAIN s \/ n = at
  OBVIOUS
<1> HIDE DEF a
<1>4. /\ t \in Seq(S) /\ Len(t) = Len(a) /\ DOMAIN t = DOMAIN a
      /\ \A n \in DOMAIN a : n # at => t[n] = a[n]
      /\ t[at] = x
  BY <1>1, PutIs
<1> HIDE DEF t
<1>5. \A n \in DOMAIN s : t[n] = s[n] /\ s[n].name # x.name
  BY <1>1, <1>2, <1>4 DEF PlacesOf
<1>6. PlacesOf(t, x.name) = {at}
  BY <1>1, <1>3, <1>4, <1>5 DEF PlacesOf
<1> QED BY <1>1, <1>4, <1>5, <1>6 DEF t, a, Created

LEMMA DeletedIs ==
  ASSUME NEW S, NEW s \in Seq(S), NEW name, NEW at, PlacesOf(s, name) = {at}
  PROVE  Deleted(s, Drop(s, at), at, name)
<1> DEFINE t == Drop(s, at)
<1>1. at \in DOMAIN s /\ at \in 1 .. Len(s) /\ \A n \in DOMAIN s : n # at => s[n].name # name
  BY DEF PlacesOf
<1>2. /\ t \in Seq(S) /\ Len(t) = Len(s) - 1
      /\ \A n \in DOMAIN s : n < at => t[n] = s[n]
      /\ \A n \in DOMAIN s : n > at => t[n - 1] = s[n]
  BY <1>1, DropIs, ZenonT(60)
<1> HIDE DEF t
<1>3. \A n \in DOMAIN s : n # at => t[IF n > at THEN n - 1 ELSE n] = s[n]
  BY <1>1, <1>2
<1>4. ASSUME NEW n \in DOMAIN t PROVE t[n].name # name
  <2>0. n \in 1 .. Len(s) - 1
    BY <1>2
  <2>1. CASE n < at
    <3>1. n \in DOMAIN s /\ n # at
      BY <2>0, <2>1, <1>1
    <3> QED BY <3>1, <2>1, <1>1, <1>2
  <2>2. CASE ~(n < at)
    <3>1. n + 1 \in DOMAIN s /\ n + 1 > at /\ n + 1 # at /\ (n + 1) - 1 = n
      BY <2>0, <2>2, <1>1
    <3>2. t[(n + 1) - 1] = s[n + 1]
      BY <3>1, <1>2
    <3> QED BY <3>1, <3>2, <1>1
  <2> QED BY <2>1, <2>2
<1>5. PlacesOf(t, name) = {}
  BY <1>4 DEF PlacesOf
<1> QED BY <1>2, <1>3, <1>5 DEF t, Deleted

LEMMA UserWritten ==
  ASSUME NEW u \in Files, NEW j \in AllJobs, j.of = "user", Placed(u, j), ~j.twice
  PROVE  OnlyThat(u.user, Apply(u, j).user, j) /\ Left(Apply(u, j), j)
<1> DEFINE s == u.user
           t == Apply(u, j).user
<1>1. s \in Seq(UserSections) /\ Len(s) \in Nat
  BY DEF Files
<1>2. CASE j.kind = "create"
  <2>1. t = Put(Append(s, BlankUser), j.at, j.r)
    BY <1>2, ApplyCreateUser
  <2>2. j.at = Len(s) + 1 /\ PlacesOf(s, j.r.name) = {} /\ j.r \in UserSections
    BY <1>2, JobIs DEF Placed, UserForms, UserSections
  <2> HIDE DEF t, s
  <2>3. /\ Len(t) = Len(s) + 1 /\ t[j.at] = j.r
        /\ \A n \in DOMAIN s : t[n] = s[n]
        /\ PlacesOf(t, j.r.name) = {j.at}
    <3>1. Created(s, t, j.at, j.r)
      BY <2>1, <2>2, <1>1, BlankIs, CreatedIs, Zenon
    <3> QED BY <3>1 DEF Created
  <2> QED BY <2>3, <1>2 DEF OnlyThat, Left, t, s
<1>3. CASE j.kind = "update"
  <2>1. /\ DOMAIN t = DOMAIN s /\ Len(t) = Len(s)
        /\ \A n \in DOMAIN s : (n # j.at => t[n] = s[n]) /\ t[n].name = s[n].name
        /\ j.at \in DOMAIN s => t[j.at] = [name |-> s[j.at].name, password |-> j.r.password]
    BY <1>3, ApplyUpdateUser
  <2>2. PlacesOf(s, j.r.name) = {j.at} /\ j.r \in UserForms
    BY <1>3, JobIs DEF Placed
  <2> HIDE DEF t, s
  <2>3. j.at \in DOMAIN s /\ s[j.at].name = j.r.name
    BY <2>2 DEF PlacesOf
  <2>4. t[j.at] = j.r
    BY <2>1, <2>2, <2>3 DEF UserForms
  <2>5. PlacesOf(t, j.r.name) = {j.at}
    BY <2>1, <2>2 DEF PlacesOf
  <2>6. OnlyThat(s, t, j)
    BY <2>1, <2>2, <2>5, <1>1, <1>3 DEF OnlyThat
  <2> QED BY <2>4, <2>5, <2>6, <1>3 DEF Left, t, s
<1>4. CASE j.kind = "delete"
  <2>1. t = Drop(s, j.at) /\ PlacesOf(s, j.r.name) = {j.at}
    BY <1>4, ApplyDeleteUser DEF Placed
  <2> HIDE DEF t, s
  <2>2. /\ Len(t) = Len(s) - 1
        /\ \A n \in DOMAIN s : n # j.at => t[IF n > j.at THEN n - 1 ELSE n] = s[n]
        /\ PlacesOf(t, j.r.name) = {}
    <3>1. Deleted(s, t, j.at, j.r.name)
      BY <2>1, <1>1, DeletedIs, Zenon
    <3> QED BY <3>1 DEF Deleted
  <2>3. OnlyThat(s, t, j)
    BY <2>1, <2>2, <1>1, <1>4 DEF OnlyThat
  <2> QED BY <2>2, <2>3, <1>4 DEF Left, t, s
<1> QED BY <1>2, <1>3, <1>4, JobIs

LEMMA ShareWritten ==
  ASSUME NEW u \in Files, NEW j \in AllJobs, j.of = "share", Placed(u, j), ~j.twice
  PROVE  OnlyThat(u.share, Apply(u, j).share, j) /\ Left(Apply(u, j), j)
<1> DEFINE s == u.share
           t == Apply(u, j).share
           x == NewShare(j.r)
<1>1. s \in Seq(ShareSections) /\ Len(s) \in Nat
  BY DEF Files
<1>0. j.kind # "delete" => x \in ShareSections /\ x.name = j.r.name
  BY JobIs, NewShareIs
<1>2. CASE j.kind = "create"
  <2>1. j.at = Len(s) + 1 /\ PlacesOf(s, j.r.name) = {}
    BY <1>2 DEF Placed
  <2>2. t = Put(Append(s, BlankShare), j.at, x)
    BY <1>2, <2>1, ApplyCreateShare
  <2> HIDE DEF t, s, x
  <2>3. /\ Len(t) = Len(s) + 1 /\ j.at \in DOMAIN t /\ t[j.at] = x
        /\ \A n \in DOMAIN s : t[n] = s[n]
        /\ PlacesOf(t, j.r.name) = {j.at}
    <3>0. x \in ShareSections /\ x.name = j.r.name /\ PlacesOf(s, x.name) = {}
      BY <2>1, <1>0, <1>2
    <3>1. Created(s, t, j.at, x)
      BY <2>1, <2>2, <3>0, <1>1, BlankIs, CreatedIs, Zenon
    <3> QED BY <3>0, <3>1 DEF Created
  <2> QED BY <2>3, <1>2 DEF OnlyThat, Left, t, s, x
<1>3. CASE j.kind = "update"
  <2>1. t = Put(s, j.at, x)
    BY <1>3, ApplyUpdateShare
  <2>2. PlacesOf(s, j.r.name) = {j.at}
    BY <1>3 DEF Placed
  <2> HIDE DEF t, s, x
  <2>3. j.at \in DOMAIN s
    BY <2>2 DEF PlacesOf
  <2>4. /\ t \in Seq(ShareSections) /\ Len(t) = Len(s) /\ DOMAIN t = DOMAIN s
        /\ \A n \in DOMAIN s : n # j.at => t[n] = s[n]
        /\ t[j.at] = x
    BY <2>1, <2>3, <1>0, <1>1, <1>3, PutIs
  <2>5. PlacesOf(t, j.r.name) = {j.at}
    BY <2>2, <2>3, <2>4, <1>0, <1>3 DEF PlacesOf
  <2>6. OnlyThat(s, t, j)
    BY <2>2, <2>4, <2>5, <1>1, <1>3 DEF OnlyThat
  <2> QED BY <2>3, <2>4, <2>6, <1>3 DEF Left, t, s, x
<1>4. CASE j.kind = "delete"
  <2>1. t = Drop(s, j.at) /\ PlacesOf(s, j.r.name) = {j.at}
    BY <1>4, ApplyDeleteShare DEF Placed
  <2> HIDE DEF t, s
  <2>2. /\ Len(t) = Len(s) - 1
        /\ \A n \in DOMAIN s : n # j.at => t[IF n > j.at THEN n - 1 ELSE n] = s[n]
        /\ PlacesOf(t, j.r.name) = {}
    <3>1. Deleted(s, t, j.at, j.r.name)
      BY <2>1, <1>1, DeletedIs, Zenon
    <3> QED BY <3>1 DEF Deleted
  <2>3. OnlyThat(s, t, j)
    BY <2>1, <2>2, <1>1, <1>4 DEF OnlyThat
  <2> QED BY <2>2, <2>3, <1>4 DEF Left, t, s
<1> QED BY <1>2, <1>3, <1>4, JobIs

-----------------------------------------------------------------------------
(* Shares: a request has read                                              *)

NewJob(kind, of, r, at) ==
  [kind |-> kind, of |-> of, r |-> r, at |-> CHOOSE n \in at : TRUE,
   twice |-> Twice(unishare[of], r.name), stale |-> FALSE]
Found(kind, of, r, at) == at # {} => NewJob(kind, of, r, at) \in AllJobs /\ Placed(unishare, NewJob(kind, of, r, at))

LEMMA ReadKeeps ==
  ASSUME SharesInv, NEW kind, NEW of, NEW r, NEW at, Read(kind, of, r, at), Found(kind, of, r, at)
  PROVE  SharesInv'
<1> DEFINE j == NewJob(kind, of, r, at)
<1>1. UNCHANGED <<unishare, samba4, served, shareAsked>>
  BY DEF Read
<1>2. PICK c \in ShareClients : job' = IF at = {} THEN job ELSE [job EXCEPT ![c] = j]
  BY DEF Read, NewJob
<1>3. job' = job \/ (job' = [job EXCEPT ![c] = j] /\ j \in AllJobs /\ Placed(unishare, j))
  BY <1>2 DEF Found
<1> HIDE DEF j
<1>4. job \in [ShareClients -> AllJobs \union {NoJob}]
  BY DEF SharesInv, SharesTyped
<1>5. job' \in [ShareClients -> AllJobs \union {NoJob}]
  BY <1>3, <1>4
<1>6. SharesTyped'
  BY <1>1, <1>5 DEF SharesInv, SharesTyped
<1>7. ASSUME NEW d \in ShareClients, job'[d] # NoJob, ~job'[d].stale PROVE Placed(unishare, job'[d])
  <2>1. job'[d] = job[d] \/ (job'[d] = j /\ Placed(unishare, j))
    BY <1>3, <1>4
  <2>2. CASE job'[d] = job[d]
    BY <2>2, <1>7 DEF SharesInv, AllPlaced
  <2> QED BY <2>1, <2>2
<1>8. AllPlaced'
  BY <1>1, <1>7 DEF AllPlaced
<1>9. AskedIsLeft' /\ ProtocolAsAsked'
  BY <1>1 DEF SharesInv, AskedIsLeft, ProtocolAsAsked
<1> QED BY <1>6, <1>8, <1>9 DEF SharesInv

\* A place of the name that was found is the request's.
LEMMA FoundPlace ==
  ASSUME NEW u, NEW j, j.kind # "create", j.at \in PlacesOf(u[j.of], j.r.name),
         j.twice = Twice(u[j.of], j.r.name)
  PROVE  Placed(u, j)
<1>1. ~j.twice => \A m, n \in PlacesOf(u[j.of], j.r.name) : m = n
  BY DEF Twice
<1>2. ~j.twice => PlacesOf(u[j.of], j.r.name) = {j.at}
  BY <1>1
<1> QED BY <1>2 DEF Placed

LEMMA UserFound ==
  ASSUME SharesTyped, NEW kind \in {"update", "delete"}, NEW r, NEW at, at \subseteq PlacesOf(unishare.user, r.name),
         r \in (IF kind = "update" THEN UserForms ELSE [name : {"ann", "bob"}])
  PROVE  Found(kind, "user", r, at)
<1> SUFFICES ASSUME at # {} PROVE NewJob(kind, "user", r, at) \in AllJobs /\ Placed(unishare, NewJob(kind, "user", r, at))
  BY DEF Found
<1> DEFINE j == NewJob(kind, "user", r, at)
           place == CHOOSE n \in at : TRUE
<1>1. place \in PlacesOf(unishare.user, r.name)
  OBVIOUS
<1>2. unishare.user \in Seq(UserSections)
  BY DEF SharesTyped, Files
<1>3. place \in Nat \ {0}
  BY <1>1, <1>2 DEF PlacesOf
<1> HIDE DEF place
<1>4. Twice(unishare.user, r.name) \in BOOLEAN
  BY DEF Twice
<1>5. j = [kind |-> kind, of |-> "user", r |-> r, at |-> place, twice |-> Twice(unishare.user, r.name), stale |-> FALSE]
  BY DEF NewJob, place
<1> HIDE DEF j
<1>6. j.kind = kind /\ j.of = "user" /\ j.r = r /\ j.at = place /\ j.twice = Twice(unishare.user, r.name)
  BY <1>5
<1>7. Placed(unishare, j)
  BY <1>1, <1>6, FoundPlace
<1>8. j \in AllJobs
  <2>1. CASE kind = "update"
    BY <2>1, <1>3, <1>4, <1>5 DEF AllJobs, UserJobs, Jobs
  <2>2. CASE kind = "delete"
    BY <2>2, <1>3, <1>4, <1>5 DEF AllJobs, UserDeletes, Jobs
  <2> QED BY <2>1, <2>2
<1> QED BY <1>7, <1>8 DEF j

LEMMA ShareFound ==
  ASSUME SharesTyped, NEW kind \in {"update", "delete"}, NEW r, NEW at, at \subseteq PlacesOf(unishare.share, r.name),
         r \in (IF kind = "update" THEN FolderForms ELSE [name : {"a", "b"}])
  PROVE  Found(kind, "share", r, at)
<1> SUFFICES ASSUME at # {} PROVE NewJob(kind, "share", r, at) \in AllJobs /\ Placed(unishare, NewJob(kind, "share", r, at))
  BY DEF Found
<1> DEFINE j == NewJob(kind, "share", r, at)
           place == CHOOSE n \in at : TRUE
<1>1. place \in PlacesOf(unishare.share, r.name)
  OBVIOUS
<1>2. unishare.share \in Seq(ShareSections)
  BY DEF SharesTyped, Files
<1>3. place \in Nat \ {0}
  BY <1>1, <1>2 DEF PlacesOf
<1> HIDE DEF place
<1>4. Twice(unishare.share, r.name) \in BOOLEAN
  BY DEF Twice
<1>5. j = [kind |-> kind, of |-> "share", r |-> r, at |-> place, twice |-> Twice(unishare.share, r.name), stale |-> FALSE]
  BY DEF NewJob, place
<1> HIDE DEF j
<1>6. j.kind = kind /\ j.of = "share" /\ j.r = r /\ j.at = place /\ j.twice = Twice(unishare.share, r.name)
  BY <1>5
<1>7. Placed(unishare, j)
  BY <1>1, <1>6, FoundPlace
<1>8. j \in AllJobs
  <2>1. CASE kind = "update"
    BY <2>1, <1>3, <1>4, <1>5 DEF AllJobs, ShareJobs, Jobs
  <2>2. CASE kind = "delete"
    BY <2>2, <1>3, <1>4, <1>5 DEF AllJobs, ShareDeletes, Jobs
  <2> QED BY <2>1, <2>2
<1> QED BY <1>7, <1>8 DEF j

\* A request to create has the place behind the last.
LEMMA CreateFound ==
  ASSUME SharesTyped, NEW r, NEW of \in {"user", "share"}, NEW at, at \subseteq {Len(unishare[of]) + 1},
         at # {} => PlacesOf(unishare[of], r.name) = {},
         at # {} => r \in (IF of = "user" THEN UserForms ELSE FolderForms)
  PROVE  Found("create", of, r, at)
<1> SUFFICES ASSUME at # {} PROVE NewJob("create", of, r, at) \in AllJobs /\ Placed(unishare, NewJob("create", of, r, at))
  BY DEF Found
<1> DEFINE j == NewJob("create", of, r, at)
           place == CHOOSE n \in at : TRUE
<1>1. place = Len(unishare[of]) + 1
  OBVIOUS
<1>2. unishare.user \in Seq(UserSections) /\ unishare.share \in Seq(ShareSections)
  BY DEF SharesTyped, Files
<1>3. Len(unishare[of]) \in Nat
  <2>1. Len(unishare.user) \in Nat /\ Len(unishare.share) \in Nat
    BY <1>2
  <2> QED BY <2>1
<1> HIDE DEF place
<1>4. Twice(unishare[of], r.name) \in BOOLEAN
  BY DEF Twice
<1>5. j = [kind |-> "create", of |-> of, r |-> r, at |-> place, twice |-> Twice(unishare[of], r.name), stale |-> FALSE]
  BY DEF NewJob, place
<1> HIDE DEF j
<1>6. j.kind = "create" /\ j.of = of /\ j.r = r /\ j.at = place
  BY <1>5
<1>7. Placed(unishare, j)
  BY <1>1, <1>6 DEF Placed
<1>8. place \in Nat \ {0}
  BY <1>1, <1>3
<1>9. j \in AllJobs
  <2>1. CASE of = "user"
    BY <2>1, <1>4, <1>5, <1>8 DEF AllJobs, UserJobs, Jobs
  <2>2. CASE of = "share"
    BY <2>2, <1>4, <1>5, <1>8 DEF AllJobs, ShareJobs, Jobs
  <2> QED BY <2>1, <2>2
<1> QED BY <1>7, <1>9 DEF j

LEMMA UserCreateKeeps ==
  ASSUME SharesInv, ShareUserCreate
  PROVE  SharesInv'
<1>1. PICK n \in UserNames, p \in Passwords :
        Read("create", "user", [name |-> n, password |-> p], UserCreate(unishare, [name |-> n, password |-> p]))
  BY DEF ShareUserCreate
<1> DEFINE r == [name |-> n, password |-> p]
           at == UserCreate(unishare, r)
<1>2. at \subseteq {Len(unishare.user) + 1}
  BY DEF UserCreate, ReadUsers
<1>3. at # {} => PlacesOf(unishare.user, r.name) = {}
  BY DEF UserCreate, ReadUsers
<1>4. at # {} => validateCreateInput(r)
  BY DEF UserCreate
<1>5. validateCreateInput(r) => r \in UserForms
  BY DEF validateCreateInput, IsUsernameValid, UserForms, UserNames, Passwords
<1> HIDE DEF r, at
<1>6. Found("create", "user", r, at)
  BY <1>2, <1>3, <1>4, <1>5, CreateFound DEF SharesInv
<1>7. Read("create", "user", r, at)
  BY <1>1 DEF r, at
<1> QED BY <1>6, <1>7, ReadKeeps

LEMMA UserUpdateKeeps ==
  ASSUME SharesInv, ShareUserUpdate
  PROVE  SharesInv'
<1>1. PICK n \in {"ann", "bob", "Ann"}, p \in {"p2", NoName} :
        Read("update", "user", [name |-> n, password |-> p], UserUpdate(unishare, [name |-> n, password |-> p]))
  BY DEF ShareUserUpdate
<1> DEFINE r == [name |-> n, password |-> p]
           at == UserUpdate(unishare, r)
<1>2. at \subseteq PlacesOf(unishare.user, r.name)
  BY DEF UserUpdate, FirstUser, ReadUsers
<1>3. at # {} => validateUpdateInput(r)
  BY DEF UserUpdate
<1>4. validateUpdateInput(r) => r \in UserForms
  BY DEF validateUpdateInput, UserForms
<1> HIDE DEF r, at
<1>5. Found("update", "user", r, at)
  <2>1. CASE at = {}
    BY <2>1 DEF Found
  <2>2. CASE at # {}
    BY <2>2, <1>2, <1>3, <1>4, UserFound DEF SharesInv
  <2> QED BY <2>1, <2>2
<1>6. Read("update", "user", r, at)
  BY <1>1 DEF r, at
<1> QED BY <1>5, <1>6, ReadKeeps

LEMMA UserDeleteKeeps ==
  ASSUME SharesInv, ShareUserDelete
  PROVE  SharesInv'
<1>1. PICK n \in {"ann", "bob", "everyone"} : Read("delete", "user", [name |-> n], UserDelete(unishare, [name |-> n]))
  BY DEF ShareUserDelete
<1> DEFINE r == [name |-> n]
           at == UserDelete(unishare, r)
<1>2. at \subseteq PlacesOf(unishare.user, r.name)
  BY DEF UserDelete, FirstUser, ReadUsers
<1>3. at # {} => r \in [name : {"ann", "bob"}]
  BY DEF UserDelete
<1> HIDE DEF r, at
<1>4. Found("delete", "user", r, at)
  <2>1. CASE at = {}
    BY <2>1 DEF Found
  <2>2. CASE at # {}
    BY <2>2, <1>2, <1>3, UserFound DEF SharesInv
  <2> QED BY <2>1, <2>2
<1>5. Read("delete", "user", r, at)
  BY <1>1 DEF r, at
<1> QED BY <1>4, <1>5, ReadKeeps

LEMMA ValidForm ==
  ASSUME NEW r \in ShareForms, validateShareInput(r.name, r.path)
  PROVE  r \in FolderForms
<1> DEFINE us == {{<<"ann", "ro">>}, {<<"ann", "rw">>, <<"ann", "ro">>, <<"bob", "ro">>}}
           ps == {{"samba"}, {"webdav"}}
<1>1. us \subseteq SUBSET ({"ann", "bob"} \X {"ro", "rw"}) /\ ps \subseteq SUBSET {"samba", "webdav"}
  OBVIOUS
<1>2. r.name \notin {"a b", NoName}
  BY DEF validateShareInput, IsNameValid
<1>3. r \in [name : {"a", "b"}, path : {"/mnt/c"}, proto : ps, users : us]
  BY <1>2 DEF ShareForms
<1> HIDE DEF us, ps
<1> QED BY <1>1, <1>3 DEF FolderForms

LEMMA ServiceCreateKeeps ==
  ASSUME SharesInv, ShareServiceCreate
  PROVE  SharesInv'
<1>1. PICK r \in ShareForms : Read("create", "share", r, ServiceCreate(unishare, r))
  BY DEF ShareServiceCreate
<1> DEFINE at == ServiceCreate(unishare, r)
<1>2. at \subseteq {Len(unishare.share) + 1} /\ (at # {} => PlacesOf(unishare.share, r.name) = {})
  BY DEF ServiceCreate, ReadShares
<1>3. at # {} => r \in FolderForms
  BY ValidForm DEF ServiceCreate
<1> HIDE DEF at
<1>4. Found("create", "share", r, at)
  BY <1>2, <1>3, CreateFound DEF SharesInv
<1> QED BY <1>1, <1>4, ReadKeeps DEF at

LEMMA ServiceUpdateKeeps ==
  ASSUME SharesInv, ShareServiceUpdate
  PROVE  SharesInv'
<1>1. PICK r \in ShareForms : Read("update", "share", r, ServiceUpdate(unishare, r))
  BY DEF ShareServiceUpdate
<1> DEFINE at == ServiceUpdate(unishare, r)
<1>2. at \subseteq PlacesOf(unishare.share, r.name)
  BY DEF ServiceUpdate, findShareIndex, ReadShares
<1>3. at # {} => r \in FolderForms
  BY ValidForm DEF ServiceUpdate
<1> HIDE DEF at
<1>4. Found("update", "share", r, at)
  <2>1. CASE at = {}
    BY <2>1 DEF Found
  <2>2. CASE at # {}
    BY <2>2, <1>2, <1>3, ShareFound DEF SharesInv
  <2> QED BY <2>1, <2>2
<1> QED BY <1>1, <1>4, ReadKeeps DEF at

LEMMA ServiceDeleteKeeps ==
  ASSUME SharesInv, ShareServiceDelete
  PROVE  SharesInv'
<1>1. PICK n \in {"a", "b", NoName} : Read("delete", "share", [name |-> n], ServiceDelete(unishare, [name |-> n]))
  BY DEF ShareServiceDelete
<1> DEFINE r == [name |-> n]
           at == ServiceDelete(unishare, r)
<1>2. at \subseteq PlacesOf(unishare.share, r.name)
  BY DEF ServiceDelete, findShareIndex, ReadShares
<1>3. at # {} => r \in [name : {"a", "b"}]
  BY DEF ServiceDelete
<1> HIDE DEF r, at
<1>4. Found("delete", "share", r, at)
  <2>1. CASE at = {}
    BY <2>1 DEF Found
  <2>2. CASE at # {}
    BY <2>2, <1>2, <1>3, ShareFound DEF SharesInv
  <2> QED BY <2>1, <2>2
<1>5. Read("delete", "share", r, at)
  BY <1>1 DEF r, at
<1> QED BY <1>4, <1>5, ReadKeeps

-----------------------------------------------------------------------------
(* Shares: a request writes                                                *)

\* What is written stays a file, and the other type's sections stay as they were.
LEMMA ApplyKeeps ==
  ASSUME NEW u \in Files, NEW j \in AllJobs
  PROVE  /\ Apply(u, j) \in Files
         /\ j.of = "user" => Apply(u, j).share = u.share
         /\ j.of = "share" => Apply(u, j).user = u.user
<1>1. j.kind \in {"create", "update", "delete"} /\ j.of \in {"user", "share"}
  BY JobIs
<1> QED BY <1>1, ApplyCreateUser, ApplyUpdateUser, ApplyDeleteUser, ApplyCreateShare, ApplyUpdateShare, ApplyDeleteShare

\* An update whose place is still that of its name changes no name.
SameNames(s, t) == Len(t) = Len(s) /\ DOMAIN t = DOMAIN s /\ \A n \in DOMAIN s : t[n].name = s[n].name

LEMMA UpdateKeepsNames ==
  ASSUME NEW u \in Files, NEW j \in AllJobs, j.kind = "update", Placed(u, j)
  PROVE  SameNames(u[j.of], Apply(u, j)[j.of])
<1>1. CASE j.of = "user"
  <2> DEFINE s == u.user
             t == Apply(u, j).user
  <2>1. Len(t) = Len(s) /\ DOMAIN t = DOMAIN s /\ \A n \in DOMAIN s : t[n].name = s[n].name
    BY <1>1, ApplyUpdateUser
  <2> HIDE DEF s, t
  <2>2. SameNames(s, t)
    BY <2>1 DEF SameNames
  <2> QED BY <2>2, <1>1 DEF s, t
<1>2. CASE j.of = "share"
  <2> DEFINE s == u.share
             t == Apply(u, j).share
  <2>1. t = Put(s, j.at, NewShare(j.r)) /\ s \in Seq(ShareSections)
    BY <1>2, ApplyUpdateShare DEF Files
  <2>2. NewShare(j.r) \in ShareSections /\ NewShare(j.r).name = j.r.name
    BY <1>2, JobIs, NewShareIs
  <2>3. j.at \in DOMAIN s /\ s[j.at].name = j.r.name
    BY <1>2 DEF Placed, PlacesOf
  <2> HIDE DEF s, t
  <2>4. /\ Len(t) = Len(s) /\ DOMAIN t = DOMAIN s
        /\ \A n \in DOMAIN s : n # j.at => t[n] = s[n]
        /\ t[j.at] = NewShare(j.r)
    BY <2>1, <2>2, <2>3, PutIs
  <2>5. SameNames(s, t)
    BY <2>2, <2>3, <2>4 DEF SameNames
  <2> QED BY <2>5, <1>2 DEF s, t
<1> QED BY <1>1, <1>2, JobIs

LEMMA SameNamesPlaced ==
  ASSUME NEW u, NEW v, NEW j, SameNames(u[j.of], v[j.of]), Placed(u, j)
  PROVE  Placed(v, j)
<1>1. PlacesOf(v[j.of], j.r.name) = PlacesOf(u[j.of], j.r.name) /\ Len(v[j.of]) = Len(u[j.of])
  BY DEF SameNames, PlacesOf
<1> QED BY <1>1 DEF Placed

\* A request that was outdated is the same one, and stale.
LEMMA OutdatedIs ==
  ASSUME NEW j \in AllJobs
  PROVE  [j EXCEPT !.stale = TRUE] \in AllJobs /\ [j EXCEPT !.stale = TRUE].stale
<1>0. ASSUME NEW kinds, NEW of, NEW forms, j \in Jobs(kinds, of, forms)
      PROVE  [j EXCEPT !.stale = TRUE] \in Jobs(kinds, of, forms) /\ [j EXCEPT !.stale = TRUE].stale = TRUE
  <2> DEFINE o == [kind |-> j.kind, of |-> j.of, r |-> j.r, at |-> j.at, twice |-> j.twice, stale |-> TRUE]
  <2>1. ASSUME NEW yes \in BOOLEAN
        PROVE  [j EXCEPT !.stale = yes] = [kind |-> j.kind, of |-> j.of, r |-> j.r, at |-> j.at, twice |-> j.twice, stale |-> yes]
    BY <1>0 DEF Jobs
  <2>2. TRUE \in BOOLEAN
    OBVIOUS
  <2>3. [j EXCEPT !.stale = TRUE] = o
    BY <2>1, <2>2, Zenon
  <2>4. j.kind \in kinds /\ j.of = of /\ j.r \in forms /\ j.at \in Nat \ {0} /\ j.twice \in BOOLEAN
    BY <1>0 DEF Jobs
  <2>5. o \in Jobs(kinds, of, forms) /\ o.stale = TRUE
    BY <2>4 DEF Jobs
  <2> QED BY <2>3, <2>5, Zenon
<1>1. \/ j \in UserJobs \/ j \in UserDeletes \/ j \in ShareJobs \/ j \in ShareDeletes
  BY DEF AllJobs
<1> DEFINE k == [j EXCEPT !.stale = TRUE]
<1>2. CASE j \in UserJobs
  <2>1. k \in UserJobs /\ k.stale = TRUE
    BY <1>2, <1>0, Zenon DEF UserJobs
  <2> QED BY <2>1, Zenon DEF AllJobs
<1>3. CASE j \in UserDeletes
  <2>1. k \in UserDeletes /\ k.stale = TRUE
    BY <1>3, <1>0, Zenon DEF UserDeletes
  <2> QED BY <2>1, Zenon DEF AllJobs
<1>4. CASE j \in ShareJobs
  <2>1. k \in ShareJobs /\ k.stale = TRUE
    BY <1>4, <1>0, Zenon DEF ShareJobs
  <2> QED BY <2>1, Zenon DEF AllJobs
<1>5. CASE j \in ShareDeletes
  <2>1. k \in ShareDeletes /\ k.stale = TRUE
    BY <1>5, <1>0, Zenon DEF ShareDeletes
  <2> QED BY <2>1, Zenon DEF AllJobs
<1> QED BY <1>1, <1>2, <1>3, <1>4, <1>5

\* What becomes of the other requests.
LEMMA OthersOutdated ==
  ASSUME SharesTyped, NEW c \in ShareClients, job' = [Outdate(c) EXCEPT ![c] = NoJob]
  PROVE  /\ job' \in [ShareClients -> AllJobs \union {NoJob}] /\ job'[c] = NoJob
         /\ \A d \in ShareClients \ {c} :
              /\ job[d] = NoJob => job'[d] = NoJob
              /\ job[d] # NoJob => job'[d] # NoJob
              /\ job[d] # NoJob /\ ~job'[d].stale =>
                   job'[d] = job[d] /\ ~(Moves(job[c]) /\ job[d].of = job[c].of)
<1> DEFINE Over(d) == [job[d] EXCEPT !.stale = TRUE]
<1>0. Outdate(c) = [d \in ShareClients |-> IF d # c /\ job[d] # NoJob /\ Moves(job[c]) /\ job[d].of = job[c].of THEN Over(d) ELSE job[d]]
  BY DEF Outdate
<1>1. \A d \in ShareClients : job[d] \in AllJobs \union {NoJob}
  BY DEF SharesTyped
<1>2. \A d \in ShareClients : job[d] # NoJob => Over(d) \in AllJobs /\ Over(d).stale
  BY <1>1, OutdatedIs
<1> HIDE DEF Over
<1>3. job' = [d \in ShareClients |-> IF d = c THEN NoJob
                                     ELSE IF job[d] # NoJob /\ Moves(job[c]) /\ job[d].of = job[c].of THEN Over(d) ELSE job[d]]
  BY <1>0
<1>4. \A d \in ShareClients : job'[d] \in AllJobs \union {NoJob}
  BY <1>1, <1>2, <1>3
<1>5. job' \in [ShareClients -> AllJobs \union {NoJob}] /\ job'[c] = NoJob
  BY <1>3, <1>4
<1>6. NoJob \notin AllJobs
  BY JobIs
<1>7. ASSUME NEW d \in ShareClients \ {c}
      PROVE  /\ job[d] = NoJob => job'[d] = NoJob
             /\ job[d] # NoJob => job'[d] # NoJob
             /\ job[d] # NoJob /\ ~job'[d].stale =>
                  job'[d] = job[d] /\ ~(Moves(job[c]) /\ job[d].of = job[c].of)
  <2>1. job'[d] = IF job[d] # NoJob /\ Moves(job[c]) /\ job[d].of = job[c].of THEN Over(d) ELSE job[d]
    BY <1>3
  <2>2. CASE job[d] # NoJob /\ Moves(job[c]) /\ job[d].of = job[c].of
    BY <2>1, <2>2, <1>2, <1>6
  <2>3. CASE ~(job[d] # NoJob /\ Moves(job[c]) /\ job[d].of = job[c].of)
    BY <2>1, <2>3
  <2> QED BY <2>2, <2>3
<1> QED BY <1>5, <1>7

\* After a write, every request that is not stale has its place.
LEMMA WriteKeepsPlaces ==
  ASSUME SharesInv, NEW c \in ShareClients, job[c] # NoJob,
         unishare' = Apply(unishare, job[c]), job' = [Outdate(c) EXCEPT ![c] = NoJob]
  PROVE  AllPlaced'
<1>1. unishare \in Files /\ job[c] \in AllJobs /\ SharesTyped
  BY DEF SharesInv, SharesTyped
<1>2. ASSUME NEW d \in ShareClients, job'[d] # NoJob, ~job'[d].stale PROVE Placed(unishare', job'[d])
  <2>1. d \in ShareClients \ {c} /\ job[d] # NoJob
    BY <1>1, <1>2, OthersOutdated
  <2>2. job'[d] = job[d] /\ ~(Moves(job[c]) /\ job[d].of = job[c].of)
    BY <1>1, <1>2, <2>1, OthersOutdated
  <2>3. job[d] \in AllJobs /\ Placed(unishare, job[d])
    BY <1>2, <2>1, <2>2 DEF SharesInv, SharesTyped, AllPlaced
  <2>4. CASE job[d].of # job[c].of
    <3>1. /\ job[d].of \in {"user", "share"} /\ job[c].of \in {"user", "share"}
          /\ job[c].of = "user" => unishare'.share = unishare.share
          /\ job[c].of = "share" => unishare'.user = unishare.user
      BY <1>1, <2>3, JobIs, ApplyKeeps
    <3>2. unishare'[job[d].of] = unishare[job[d].of]
      BY <2>4, <3>1
    <3> QED BY <2>2, <2>3, <3>2 DEF Placed
  <2>5. CASE job[d].of = job[c].of
    <3>1. job[c].kind = "update" /\ ~job[c].stale
      BY <2>2, <2>5 DEF Moves
    <3>2. Placed(unishare, job[c])
      BY <3>1 DEF SharesInv, AllPlaced
    <3>3. SameNames(unishare[job[d].of], unishare'[job[d].of])
      BY <1>1, <2>5, <3>1, <3>2, UpdateKeepsNames
    <3> QED BY <2>2, <2>3, <3>3, SameNamesPlaced
  <2> QED BY <2>4, <2>5
<1> QED BY <1>2 DEF AllPlaced

\* What a request whose place nobody has moved leaves.
LEMMA UnmovedIsWritten ==
  ASSUME SharesInv, NEW c \in ShareClients, job[c] # NoJob, Unmoved(job[c])
  PROVE  /\ OnlyThat(unishare[job[c].of], Apply(unishare, job[c])[job[c].of], job[c])
         /\ Left(Apply(unishare, job[c]), job[c])
<1>1. unishare \in Files /\ job[c] \in AllJobs /\ ~job[c].twice /\ ~job[c].stale
  BY DEF SharesInv, SharesTyped, Unmoved
<1>2. Placed(unishare, job[c])
  BY <1>1 DEF SharesInv, AllPlaced
<1>3. job[c].of \in {"user", "share"}
  BY <1>1, JobIs
<1>4. CASE job[c].of = "user"
  BY <1>1, <1>2, <1>4, UserWritten
<1>5. CASE job[c].of = "share"
  BY <1>1, <1>2, <1>5, ShareWritten
<1> QED BY <1>3, <1>4, <1>5

LEMMA WriteKeeps ==
  ASSUME SharesInv, ShareWrite
  PROVE  SharesInv'
<1>1. PICK c \in ShareClients :
        /\ job[c] # NoJob
        /\ \/ job' = [job EXCEPT ![c] = NoJob] /\ shareAsked' = NoJob /\ UNCHANGED <<unishare, served>>
           \/ /\ unishare' = Apply(unishare, job[c])
              /\ job' = [Outdate(c) EXCEPT ![c] = NoJob]
              /\ \E reloaded \in BOOLEAN :
                   /\ served' = IF reloaded THEN unishare' ELSE served
                   /\ shareAsked' = IF reloaded THEN job[c] ELSE NoJob
        /\ UNCHANGED samba4
  BY DEF ShareWrite
<1>2. SharesTyped /\ unishare \in Files /\ served \in Files /\ job[c] \in AllJobs
      /\ job \in [ShareClients -> AllJobs \union {NoJob}]
  BY <1>1 DEF SharesInv, SharesTyped
<1>3. ProtocolAsAsked'
  <2>1. shareAsked'.kind \in {"none", "create", "update", "delete"}
    <3>1. shareAsked' = NoJob \/ shareAsked' = job[c]
      BY <1>1
    <3>2. NoJob.kind = "none" /\ job[c].kind \in {"create", "update", "delete"}
      BY <1>2, JobIs DEF NoJob
    <3> QED BY <3>1, <3>2
  <2> QED BY <2>1 DEF ProtocolAsAsked
<1>4. CASE job' = [job EXCEPT ![c] = NoJob] /\ shareAsked' = NoJob /\ UNCHANGED <<unishare, served>>
  <2>1. SharesTyped'
    BY <1>1, <1>2, <1>4 DEF SharesTyped
  <2>2. \A d \in ShareClients : job'[d] # NoJob => job'[d] = job[d]
    BY <1>2, <1>4
  <2>3. AllPlaced'
    BY <1>4, <2>2 DEF SharesInv, AllPlaced
  <2>4. AskedIsLeft'
    BY <1>4 DEF AskedIsLeft
  <2> QED BY <1>3, <2>1, <2>3, <2>4 DEF SharesInv
<1>5. CASE /\ unishare' = Apply(unishare, job[c])
           /\ job' = [Outdate(c) EXCEPT ![c] = NoJob]
           /\ \E reloaded \in BOOLEAN :
                /\ served' = IF reloaded THEN unishare' ELSE served
                /\ shareAsked' = IF reloaded THEN job[c] ELSE NoJob
  <2>1. \/ served' = unishare' /\ shareAsked' = job[c]
        \/ served' = served /\ shareAsked' = NoJob
    BY <1>5
  <2>2. unishare' \in Files
    BY <1>2, <1>5, ApplyKeeps
  <2>3. job' \in [ShareClients -> AllJobs \union {NoJob}]
    BY <1>2, <1>5, OthersOutdated
  <2>4. SharesTyped'
    BY <1>1, <1>2, <2>1, <2>2, <2>3 DEF SharesTyped
  <2>5. AllPlaced'
    BY <1>1, <1>5, WriteKeepsPlaces
  <2>6. AskedIsLeft'
    <3> SUFFICES ASSUME shareAsked' # NoJob, Unmoved(shareAsked') PROVE Left(unishare', shareAsked') /\ Left(served', shareAsked')
      BY DEF AskedIsLeft
    <3>1. served' = unishare' /\ shareAsked' = job[c]
      BY <2>1
    <3>2. Left(unishare', job[c])
      BY <1>1, <1>5, <3>1, UnmovedIsWritten
    <3> QED BY <3>1, <3>2
  <2> QED BY <1>3, <2>4, <2>5, <2>6 DEF SharesInv
<1> QED BY <1>1, <1>4, <1>5

-----------------------------------------------------------------------------
(* Shares: the theorems                                                    *)

LEMMA WebdavKeeps ==
  ASSUME SharesInv, ShareProtocolWebdav
  PROVE  SharesInv'
<1>1. PICK port \in {0, 6086}, reloaded \in BOOLEAN :
        /\ unishare' = IF port = 0 THEN unishare ELSE UpdateWebdav(unishare, port)
        /\ served' = IF port # 0 /\ reloaded THEN unishare' ELSE served
        /\ shareAsked' = IF port # 0 /\ reloaded THEN [kind |-> "webdav", r |-> port] ELSE NoJob
        /\ UNCHANGED <<samba4, job>>
  BY DEF ShareProtocolWebdav
<1>2. unishare \in Files /\ served \in Files /\ SharesTyped
  BY DEF SharesInv, SharesTyped
<1> DEFINE v == UpdateWebdav(unishare, port)
<1>3. v \in Files /\ v.user = unishare.user /\ v.share = unishare.share /\ v.webdav_port = port
  <2>1. Ported(unishare, port, v)
    BY <1>2, PortFile
  <2> QED BY <2>1 DEF Ported
<1>4. unishare' = unishare \/ unishare' = v
  BY <1>1
<1>5. \/ served' = served /\ shareAsked' = NoJob
      \/ port = 6086 /\ unishare' = v /\ served' = v /\ shareAsked' = [kind |-> "webdav", r |-> port]
  BY <1>1
<1> HIDE DEF v
<1>6. unishare' \in Files /\ unishare'.user = unishare.user /\ unishare'.share = unishare.share
  BY <1>2, <1>3, <1>4
<1>7. served' \in Files
  BY <1>2, <1>3, <1>5
<1>8. SharesTyped'
  BY <1>1, <1>2, <1>5, <1>6, <1>7 DEF SharesTyped
<1>9. ASSUME NEW c \in ShareClients, job'[c] # NoJob, ~job'[c].stale PROVE Placed(unishare', job'[c])
  <2>1. job'[c] = job[c] /\ Placed(unishare, job[c]) /\ job[c].of \in {"user", "share"}
    BY <1>1, <1>2, <1>9, JobIs DEF SharesInv, AllPlaced, SharesTyped
  <2>2. unishare'[job[c].of] = unishare[job[c].of]
    BY <1>6, <2>1
  <2> QED BY <2>1, <2>2 DEF Placed
<1>10. AllPlaced'
  BY <1>9 DEF AllPlaced
<1>11. AskedIsLeft'
  <2>1. shareAsked' = NoJob \/ shareAsked'.kind = "webdav"
    BY <1>5
  <2> QED BY <2>1 DEF AskedIsLeft
<1>12. ProtocolAsAsked'
  BY <1>3, <1>5 DEF ProtocolAsAsked, WebdavConfig, NoJob
<1> QED BY <1>8, <1>10, <1>11, <1>12 DEF SharesInv

LEMMA SambaKeeps ==
  ASSUME SharesInv, ShareProtocolSamba
  PROVE  SharesInv'
<1>1. PICK w \in {NoName, "w1"}, d \in {NoName, "d"}, flags \in {{}, {"disable_netbios"}} :
        /\ samba4' = IF NoName \in {w, d} THEN samba4 ELSE UpdateSamba(samba4, [workgroup |-> w, description |-> d, flags |-> flags])
        /\ shareAsked' = IF NoName \in {w, d} THEN NoJob ELSE [kind |-> "samba", r |-> [workgroup |-> w, description |-> d, flags |-> flags]]
        /\ UNCHANGED <<unishare, served, job>>
  BY DEF ShareProtocolSamba
<1> DEFINE r == [workgroup |-> w, description |-> d, flags |-> flags]
<1>2. flags \in SUBSET Flags
  BY DEF Flags
<1>3. NoName \notin {w, d} => r \in SambaForms /\ r.flags \subseteq Flags
  BY <1>2 DEF SambaForms
<1>4. UpdateSamba(samba4, r) = r
  BY DEF UpdateSamba
<1> HIDE DEF r
<1>5. \/ samba4' = samba4 /\ shareAsked' = NoJob
      \/ samba4' = r /\ r \in SambaForms /\ shareAsked' = [kind |-> "samba", r |-> r]
  BY <1>1, <1>3, <1>4 DEF r
<1>6. SharesTyped'
  BY <1>1, <1>5 DEF SharesInv, SharesTyped
<1>7. AllPlaced'
  BY <1>1 DEF SharesInv, AllPlaced
<1>8. AskedIsLeft'
  <2>1. shareAsked' = NoJob \/ shareAsked'.kind = "samba"
    BY <1>5
  <2> QED BY <2>1 DEF AskedIsLeft
<1>9. r \in SambaForms => SambaConfig(r) = r
  BY DEF SambaForms, SambaConfig
<1>10. ProtocolAsAsked'
  BY <1>5, <1>9 DEF ProtocolAsAsked, NoJob
<1> QED BY <1>6, <1>7, <1>8, <1>10 DEF SharesInv

LEMMA SharesStart == SharesInit => SharesInv
<1> SUFFICES ASSUME SharesInit PROVE SharesInv
  OBVIOUS
<1>1. Ann \in UserSections /\ Bob \in UserSections /\ ShareA \in ShareSections /\ ShareB \in ShareSections
  BY DEF Ann, Bob, ShareA, ShareB, UserSections, ShareSections
<1>2. ASSUME NEW us \in Seq(UserSections), NEW ss \in Seq(ShareSections) PROVE NewUnishare(us, ss) \in Files
  BY <1>2 DEF NewUnishare, Files
<1>3. <<>> \in Seq(UserSections) /\ <<Ann, Bob>> \in Seq(UserSections) /\ <<Bob, Ann>> \in Seq(UserSections)
  BY <1>1
<1>4. <<>> \in Seq(ShareSections) /\ <<ShareA>> \in Seq(ShareSections) /\ <<ShareA, ShareB>> \in Seq(ShareSections)
  BY <1>1
<1>5. unishare \in Files /\ served = unishare
  BY <1>2, <1>3, <1>4 DEF SharesInit
<1>6. samba4 \in SambaForms
  BY DEF SharesInit, FirstSamba, SambaForms, Flags
<1>7. SharesTyped
  BY <1>5, <1>6 DEF SharesInit, SharesTyped
<1>8. AllPlaced /\ AskedIsLeft
  BY DEF SharesInit, AllPlaced, AskedIsLeft
<1>9. ProtocolAsAsked
  BY DEF SharesInit, ProtocolAsAsked, NoJob
<1> QED BY <1>7, <1>8, <1>9 DEF SharesInv

LEMMA SharesInductive == SharesInv /\ [SharesNext]_shareVars => SharesInv'
<1> SUFFICES ASSUME SharesInv, [SharesNext]_shareVars PROVE SharesInv'
  OBVIOUS
<1>1. CASE UNCHANGED shareVars
  BY <1>1 DEF shareVars, SharesInv, SharesTyped, AllPlaced, AskedIsLeft, ProtocolAsAsked
<1> QED
  BY <1>1, UserCreateKeeps, UserUpdateKeeps, UserDeleteKeeps, ServiceCreateKeeps, ServiceUpdateKeeps, ServiceDeleteKeeps,
     WriteKeeps, WebdavKeeps, SambaKeeps
  DEF SharesNext

\* The permissions that are shown of a share that was written.
LEMMA ShownAsAsked ==
  ASSUME NEW u \in Files, NEW r \in FolderForms
  PROVE  buildUserPermissions(u, NewShare(r)) =
           {p \in r.users : p[1] \in KnownUsers(u) /\ (p[2] = "ro" => <<p[1], "rw">> \notin r.users)}
<1> DEFINE known == KnownUsers(u)
           ro == {p[1] : p \in {q \in r.users : q[2] = "ro"}}
           rw == {p[1] : p \in {q \in r.users : q[2] = "rw"}}
           shown == {<<name, "rw">> : name \in known \intersect rw} \union {<<name, "ro">> : name \in (known \intersect ro) \ rw}
           asked == {p \in r.users : p[1] \in known /\ (p[2] = "ro" => <<p[1], "rw">> \notin r.users)}
<1>1. buildUserPermissions(u, NewShare(r)) = shown
  BY NewShareIs DEF buildUserPermissions
<1>2. r.users \subseteq {"ann", "bob"} \X {"ro", "rw"}
  BY DEF FolderForms
<1> HIDE DEF known
<1>3. ASSUME NEW name PROVE (name \in rw <=> <<name, "rw">> \in r.users) /\ (name \in ro <=> <<name, "ro">> \in r.users)
  BY <1>2
<1>4. ASSUME NEW p \in asked PROVE p \in shown
  <2>1. p = <<p[1], p[2]>> /\ p[2] \in {"ro", "rw"} /\ p \in r.users /\ p[1] \in known
    BY <1>2
  <2>2. CASE p[2] = "rw"
    BY <2>1, <2>2, <1>3
  <2>3. CASE p[2] = "ro"
    BY <2>1, <2>3, <1>3
  <2> QED BY <2>1, <2>2, <2>3
<1>5. ASSUME NEW p \in shown PROVE p \in asked
  <2>1. CASE \E name \in known \intersect rw : p = <<name, "rw">>
    <3>1. PICK name \in known \intersect rw : p = <<name, "rw">>
      BY <2>1
    <3>2. p \in r.users /\ p[1] \in known /\ p[2] = "rw"
      BY <3>1, <1>3
    <3> QED BY <3>2
  <2>2. CASE \E name \in (known \intersect ro) \ rw : p = <<name, "ro">>
    <3>1. PICK name \in (known \intersect ro) \ rw : p = <<name, "ro">>
      BY <2>2
    <3>2. p \in r.users /\ p[1] = name /\ p[1] \in known /\ p[2] = "ro" /\ <<name, "rw">> \notin r.users
      BY <3>1, <1>3
    <3> QED BY <3>2
  <2> QED BY <2>1, <2>2
<1> HIDE DEF asked, shown
<1>6. shown = asked
  BY <1>4, <1>5
<1> QED BY <1>1, <1>6 DEF asked, known

LEMMA SharesInvShows == SharesInv => SharesCorrect
<1> SUFFICES ASSUME SharesInv PROVE SharesCorrect
  OBVIOUS
<1>1. SharesTyped /\ unishare \in Files /\ served \in Files
  BY DEF SharesInv, SharesTyped
<1>2. SharesTypeOK
  <2>1. ASSUME NEW n \in DOMAIN unishare.user
        PROVE  DOMAIN unishare.user[n] = DOMAIN BlankUser /\ unishare.user[n].name \notin {"root", "everyone", "Ann", "a b"}
    <3>1. unishare.user[n] \in UserSections
      BY <1>1 DEF Files
    <3> QED BY <3>1 DEF UserSections, BlankUser, NoName
  <2>2. ASSUME NEW n \in DOMAIN unishare.share PROVE DOMAIN unishare.share[n] = DOMAIN BlankShare
    <3>1. unishare.share[n] \in ShareSections
      BY <1>1 DEF Files
    <3> QED BY <3>1 DEF ShareSections, BlankShare
  <2>3. samba4.flags \subseteq Flags /\ unishare.webdav_port \in {0, 6086}
    BY <1>1 DEF SharesTyped, Files, SambaForms
  <2>4. \A c \in ShareClients : job[c] # NoJob => job[c].at \in Nat \ {0}
    BY <1>1, JobIs DEF SharesTyped
  <2> DEFINE U == \A n \in DOMAIN unishare.user :
                    DOMAIN unishare.user[n] = DOMAIN BlankUser /\ unishare.user[n].name \notin {"root", "everyone", "Ann", "a b"}
             S == \A n \in DOMAIN unishare.share : DOMAIN unishare.share[n] = DOMAIN BlankShare
             J == \A c \in ShareClients : job[c] # NoJob => job[c].at \in Nat \ {0}
             F == samba4.flags \subseteq Flags /\ unishare.webdav_port \in {0, 6086}
  <2>5. SharesTypeOK <=> U /\ S /\ F /\ J
    BY DEF SharesTypeOK
  <2>6. U
    BY <2>1, Zenon
  <2>7. S
    BY <2>2, Zenon
  <2>8. F
    BY <2>3
  <2>9. J
    BY <2>4, Zenon
  <2> HIDE DEF U, S, F, J
  <2> QED BY <2>5, <2>6, <2>7, <2>8, <2>9
<1>3. ASSUME shareAsked.kind \in {"create", "update", "delete"} PROVE shareAsked \in AllJobs
  BY <1>1, <1>3 DEF SharesTyped, NoJob
<1>4. SharedAsAsked
  <2> SUFFICES ASSUME shareAsked # NoJob, shareAsked.kind \in {"create", "update"}, shareAsked.of = "share", Unmoved(shareAsked),
                      NEW u \in {unishare, served}
               PROVE  LET r == shareAsked.r
                      IN  [name |-> r.name, path |-> r.path, proto |-> r.proto,
                           users |-> {p \in r.users : p[1] \in KnownUsers(u) /\ (p[2] = "ro" => <<p[1], "rw">> \notin r.users)}] \in ListShares(u)
    BY DEF SharedAsAsked
  <2> DEFINE r == shareAsked.r
             s == u.share[shareAsked.at]
  <2>1. shareAsked \in AllJobs /\ r \in FolderForms
    BY <1>3, JobIs
  <2>2. Left(u, shareAsked) /\ u \in Files
    BY <1>1 DEF SharesInv, AskedIsLeft
  <2>3. shareAsked.at \in DOMAIN u.share /\ s = NewShare(r)
    BY <2>2 DEF Left
  <2>4. s \in Range(ReadShares(u))
    BY <2>3 DEF Range, ReadShares
  <2>5. [name |-> s.name, path |-> s.path, users |-> buildUserPermissions(u, s), proto |-> s.proto] \in ListShares(u)
    BY <2>4 DEF ListShares
  <2>6. /\ s.name = r.name /\ s.path = r.path /\ s.proto = r.proto
        /\ buildUserPermissions(u, s) = {p \in r.users : p[1] \in KnownUsers(u) /\ (p[2] = "ro" => <<p[1], "rw">> \notin r.users)}
    BY <2>1, <2>2, <2>3, NewShareIs, ShownAsAsked
  <2> QED BY <2>5, <2>6
<1>5. UsersAsAsked
  <2> SUFFICES ASSUME shareAsked # NoJob, shareAsked.kind \in {"create", "update", "delete"}, shareAsked.of = "user", Unmoved(shareAsked),
                      NEW u \in {unishare, served}
               PROVE  {user \in ListUsers(u) : user.name = shareAsked.r.name} = IF shareAsked.kind = "delete" THEN {} ELSE {shareAsked.r}
    BY DEF UsersAsAsked
  <2> DEFINE name == shareAsked.r.name
  <2>1. shareAsked \in AllJobs /\ name # NoName
    BY <1>3, JobIs DEF NoName
  <2>2. Left(u, shareAsked)
    BY <1>1 DEF SharesInv, AskedIsLeft
  <2>3. {user \in ListUsers(u) : user.name = name} = {u.user[n] : n \in PlacesOf(u.user, name)}
    BY <2>1 DEF ListUsers, ReadUsers, PlacesOf, Range
  <2>4. PlacesOf(u.user, name) = IF shareAsked.kind = "delete" THEN {} ELSE {shareAsked.at}
    BY <2>2 DEF Left
  <2>5. shareAsked.kind # "delete" => u.user[shareAsked.at] = shareAsked.r
    BY <2>2 DEF Left
  <2> QED BY <2>3, <2>4, <2>5
<1> QED BY <1>2, <1>4, <1>5 DEF SharesInv, SharesCorrect

\* Shares, users and protocols, once saved, are shown and served as they were asked for:
\* for any number of clients whose requests are under way at once, and of requests.
THEOREM SharesPageCorrect == SharesSpec => []SharesCorrect
<1>1. SharesSpec => []SharesInv
  BY SharesStart, SharesInductive, PTL DEF SharesSpec
<1> QED BY <1>1, SharesInvShows, PTL

LEMMA NamedStep ==
  ASSUME SharesInv, SharesNext
  PROVE  WritesAreNamed
<1> SUFFICES ASSUME NEW c \in ShareClients, job[c] # NoJob, job'[c] = NoJob, Unmoved(job[c]), unishare' # unishare
             PROVE  WritesOnlyNamed(c)
  BY DEF WritesAreNamed
<1>1. SharesTyped /\ unishare \in Files /\ job[c] \in AllJobs
  BY DEF SharesInv, SharesTyped
<1>2. ShareWrite
  <2>1. (ShareUserCreate \/ ShareUserUpdate \/ ShareUserDelete \/ ShareServiceCreate \/ ShareServiceUpdate
         \/ ShareServiceDelete \/ ShareProtocolSamba) => unishare' = unishare
    BY DEF ShareUserCreate, ShareUserUpdate, ShareUserDelete, ShareServiceCreate, ShareServiceUpdate, ShareServiceDelete,
           ShareProtocolSamba, Read
  <2>2. ShareProtocolWebdav => job' = job
    BY DEF ShareProtocolWebdav
  <2> QED BY <2>1, <2>2 DEF SharesNext
<1>3. PICK d \in ShareClients :
        job[d] # NoJob /\ unishare' = Apply(unishare, job[d]) /\ job' = [Outdate(d) EXCEPT ![d] = NoJob]
  BY <1>2 DEF ShareWrite
<1>4. d = c
  BY <1>1, <1>3, OthersOutdated
<1> DEFINE j == job[c]
           old == unishare[j.of]
           new == unishare'[j.of]
           named == {s \in Range(new) : s.name = j.r.name}
<1>5. OnlyThat(old, new, j) /\ Left(unishare', j)
  BY <1>3, <1>4, UnmovedIsWritten
<1>6. /\ j.kind \in {"create", "update", "delete"} /\ j.of \in {"user", "share"}
      /\ j.of = "user" /\ j.kind # "delete" => j.r \in UserForms
      /\ j.of = "user" => unishare'.share = unishare.share
      /\ j.of = "share" => unishare'.user = unishare.user
  BY <1>1, <1>3, <1>4, JobIs, ApplyKeeps
<1>7. unishare'[IF j.of = "user" THEN "share" ELSE "user"] = unishare[IF j.of = "user" THEN "share" ELSE "user"]
  BY <1>6
<1>8. PlacesOf(new, j.r.name) = IF j.kind = "delete" THEN {} ELSE {j.at}
  BY <1>5 DEF OnlyThat
<1>9. named = {new[n] : n \in PlacesOf(new, j.r.name)}
  BY DEF PlacesOf, Range
<1>10. named = IF j.kind = "delete" THEN {} ELSE {new[j.at]}
  BY <1>8, <1>9
<1>11. j.of = "user" /\ j.kind # "delete" => new[j.at] = [name |-> j.r.name, password |-> j.r.password]
  BY <1>5, <1>6 DEF Left, UserForms
<1> HIDE DEF named
<1>12. (named = {}) = (j.kind = "delete")
  BY <1>10
<1>13. j.of = "user" /\ j.kind # "delete" => named = {[name |-> j.r.name, password |-> j.r.password]}
  BY <1>10, <1>11
<1> QED BY <1>5, <1>7, <1>12, <1>13 DEF WritesOnlyNamed, OnlyThat, named

\* A request whose place nobody has moved writes the section of its name and no other, for
\* any number of clients and requests.
THEOREM SharesWriteOnlyNamed == SharesSpec => OnlyNamed
<1>1. SharesSpec => []SharesInv
  BY SharesStart, SharesInductive, PTL DEF SharesSpec
<1>2. SharesInv /\ [SharesNext]_shareVars => [WritesAreNamed]_shareVars
  BY NamedStep
<1> QED BY <1>1, <1>2, PTL DEF SharesSpec, OnlyNamed

-----------------------------------------------------------------------------
(* The NAS services: the machine after each command                        *)

Ran(s, cmds, n, f) == f = [k \in 0 .. n |-> IF k = 0 THEN s ELSE ExecNas(f[k - 1], cmds[k])]

LEMMA RanExists ==
  ASSUME NEW s, NEW cmds
  PROVE  \A n \in Nat : \E f : Ran(s, cmds, n, f)
<1> DEFINE Good == {n \in Nat : \E f : Ran(s, cmds, n, f)}
<1>1. 0 \in Good
  <2> DEFINE f == [k \in 0 .. 0 |-> s]
  <2>1. f = [k \in 0 .. 0 |-> IF k = 0 THEN s ELSE ExecNas(f[k - 1], cmds[k])]
    OBVIOUS
  <2>2. Ran(s, cmds, 0, f)
    BY <2>1 DEF Ran
  <2> QED BY <2>2
<1>2. ASSUME NEW n \in Nat, n \in Good PROVE n + 1 \in Good
  <2>1. PICK f : Ran(s, cmds, n, f)
    BY <1>2
  <2> DEFINE g == [k \in 0 .. n + 1 |-> IF k = 0 THEN s ELSE ExecNas(f[k - 1], cmds[k])]
  <2>2. \A k \in 0 .. n : g[k] = f[k]
    <3> TAKE k \in 0 .. n
    <3>1. k \in 0 .. n + 1
      OBVIOUS
    <3>2. f[k] = IF k = 0 THEN s ELSE ExecNas(f[k - 1], cmds[k])
      BY <2>1 DEF Ran
    <3> QED BY <3>1, <3>2
  <2>3. \A k \in 0 .. n + 1 : k # 0 => g[k - 1] = f[k - 1]
    <3> TAKE k \in 0 .. n + 1
    <3> HAVE k # 0
    <3>1. k - 1 \in 0 .. n
      OBVIOUS
    <3> HIDE DEF g
    <3> QED BY <3>1, <2>2
  <2>4. \A k \in 0 .. n + 1 : g[k] = IF k = 0 THEN s ELSE ExecNas(g[k - 1], cmds[k])
    <3> TAKE k \in 0 .. n + 1
    <3>1. g[k] = IF k = 0 THEN s ELSE ExecNas(f[k - 1], cmds[k])
      OBVIOUS
    <3> HIDE DEF g
    <3> QED BY <3>1, <2>3
  <2>5. g = [k \in 0 .. n + 1 |-> g[k]]
    OBVIOUS
  <2> HIDE DEF g
  <2>6. Ran(s, cmds, n + 1, g)
    BY <2>4, <2>5 DEF Ran
  <2> QED BY <2>6
<1>3. Nat \subseteq Good
  <2> HIDE DEF Good
  <2> QED BY <1>1, <1>2, NatInSet
<1> QED BY <1>3

\* A request's commands run one after the other.
LEMMA NasRunIs ==
  ASSUME NEW cmds, Len(cmds) \in Nat
  PROVE  /\ NasRun(cmds)[0] = nasMachine
         /\ \A k \in 1 .. Len(cmds) : NasRun(cmds)[k] = ExecNas(NasRun(cmds)[k - 1], cmds[k])
<1> DEFINE f == NasRun(cmds)
<1>1. f = CHOOSE g : Ran(nasMachine, cmds, Len(cmds), g)
  BY DEF NasRun, Ran
<1>2. Ran(nasMachine, cmds, Len(cmds), f)
  BY <1>1, RanExists
<1> HIDE DEF f
<1>3. f = [k \in 0 .. Len(cmds) |-> IF k = 0 THEN nasMachine ELSE ExecNas(f[k - 1], cmds[k])]
  BY <1>2 DEF Ran
<1>4. f[0] = nasMachine
  BY <1>3
<1>5. \A k \in 1 .. Len(cmds) : f[k] = ExecNas(f[k - 1], cmds[k])
  BY <1>3
<1> QED BY <1>4, <1>5 DEF f

-----------------------------------------------------------------------------
(* The NAS services: the inductive invariant                               *)

Shares0 == [name : SmbNames \union {"unset"}, path : SmbPaths \union {"unset"}, users : {"unset", "u", "v"}]
WebForms == [root : SmbPaths \union {"/mnt"}, enable : BOOLEAN, user : {"u", "v"}]
NasSides == [samba4 : Seq(Shares0), gowebdav : WebForms, linkease : BOOLEAN]
Machines == [nas : [file : NasSides, staged : NasSides, live : NasSides], users : SUBSET {"u"}, rootOk : BOOLEAN]

\* Sections are only added: what runs is a beginning of the file, and the file of what
\* is staged.
Begins(a, b) == Len(a) <= Len(b) /\ \A i \in 1 .. Len(a) : b[i] = a[i]
Grown(m) == /\ m \in Machines
            /\ Begins(m.nas.live.samba4, m.nas.file.samba4)
            /\ Begins(m.nas.file.samba4, m.nas.staged.samba4)

\* A share is served, listed, and may be opened.
Held(m, sh) == /\ sh \in Range(m.nas.live.samba4) /\ sh.users \in m.users /\ m.rootOk
               /\ [name |-> sh.name, path |-> sh.path] \in NasServiceSambaStatus(m)

\* What every command leaves: more of the same.
NasLater(m, n) == Grown(n) /\ \A sh : Held(m, sh) => Held(n, sh)

\* Nothing is staged, and every section has its options and a name of its own.
Named(q) == \A i, j \in DOMAIN q : q[i] # BlankSamba /\ (q[i].name = q[j].name => i = j)
Settled(m) == /\ m.nas.staged.samba4 = m.nas.file.samba4 /\ Named(m.nas.staged.samba4)
              /\ m.nas.staged.linkease => m.nas.live.linkease

NasInv ==
  /\ nasCount \in 0 .. MaxNasRequests /\ nasUncut \in BOOLEAN
  /\ Grown(nasMachine)
  /\ \A sh \in nasMade : Held(nasMachine, sh)
  /\ nasUncut => Settled(nasMachine)
  /\ NasAsAsked

-----------------------------------------------------------------------------
(* The NAS services: commands                                              *)

\* A machine with other shares, accounts and template.
Smb(m, live, file, staged, users, ok) ==
  [nas |-> [file |-> [m.nas.file EXCEPT !.samba4 = file],
            staged |-> [m.nas.staged EXCEPT !.samba4 = staged],
            live |-> [m.nas.live EXCEPT !.samba4 = live]],
   users |-> users, rootOk |-> ok]

LEMMA SmbSame ==
  ASSUME NEW m \in Machines
  PROVE  m = Smb(m, m.nas.live.samba4, m.nas.file.samba4, m.nas.staged.samba4, m.users, m.rootOk)
BY DEF Machines, NasSides, Smb

\* The template has no root among its invalid users: the truth value, by name.
Yes == TRUE

RootCmd == [op |-> "EnableRoot"]
UserCmd == [op |-> "smbpasswd", user |-> "u"]
AddCmd == [op |-> "add"]

LEMMA SmbCommits ==
  ASSUME NEW m \in Machines, NEW l, NEW f, NEW s, NEW u, NEW r
  PROVE  ExecNas(Smb(m, l, f, s, u, r), NasCommit("samba4")) = Smb(m, l, s, s, u, r)
BY DEF Machines, NasSides, Smb, ExecNas, NasCommit

LEMMA SmbRestarts ==
  ASSUME NEW m \in Machines, NEW l, NEW f, NEW s, NEW u, NEW r
  PROVE  ExecNas(Smb(m, l, f, s, u, r), NasRestart("samba4")) = Smb(m, f, f, s, u, r)
BY DEF Machines, NasSides, Smb, ExecNas, NasRestart

LEMMA SmbRooted ==
  ASSUME NEW m \in Machines, NEW l, NEW f, NEW s, NEW u, NEW r
  PROVE  ExecNas(Smb(m, l, f, s, u, r), RootCmd) = Smb(m, l, f, s, u, Yes)
BY DEF Machines, NasSides, Smb, ExecNas, RootCmd, Yes

LEMMA SmbUser ==
  ASSUME NEW m \in Machines, NEW l, NEW f, NEW s, NEW u, NEW r
  PROVE  ExecNas(Smb(m, l, f, s, u, r), UserCmd) = Smb(m, l, f, s, u \union {"u"}, r)
BY DEF Machines, NasSides, Smb, ExecNas, UserCmd

LEMMA SmbAdded ==
  ASSUME NEW m \in Machines, NEW l, NEW f, NEW s, NEW u, NEW r
  PROVE  ExecNas(Smb(m, l, f, s, u, r), AddCmd) = Smb(m, l, f, Append(s, BlankSamba), u, r)
BY DEF Machines, NasSides, Smb, ExecNas, AddCmd

LEMMA StagedOf ==
  ASSUME NEW x, NEW y, NEW z, NEW u, NEW r, NEW b
  PROVE  [[nas |-> [file |-> x, staged |-> y, live |-> z], users |-> u, rootOk |-> r] EXCEPT !.nas.staged.samba4 = b]
           = [nas |-> [file |-> x, staged |-> [y EXCEPT !.samba4 = b], live |-> z], users |-> u, rootOk |-> r]
OBVIOUS

LEMMA SmbStaged ==
  ASSUME NEW m \in Machines, NEW l, NEW f, NEW a, NEW b, NEW u, NEW r,
         NEW n, n = Smb(m, l, f, a, u, r)
  PROVE  [n EXCEPT !.nas.staged.samba4 = b] = Smb(m, l, f, b, u, r)
<1>1. [[m.nas.staged EXCEPT !.samba4 = a] EXCEPT !.samba4 = b] = [m.nas.staged EXCEPT !.samba4 = b]
  BY DEF Machines, NasSides
<1> DEFINE x == [m.nas.file EXCEPT !.samba4 = f]
           y == [m.nas.staged EXCEPT !.samba4 = a]
           z == [m.nas.live EXCEPT !.samba4 = l]
<1>2. Smb(m, l, f, a, u, r) = [nas |-> [file |-> x, staged |-> y, live |-> z], users |-> u, rootOk |-> r]
  BY DEF Smb
<1>3. Smb(m, l, f, b, u, r) = [nas |-> [file |-> x, staged |-> [y EXCEPT !.samba4 = b], live |-> z], users |-> u, rootOk |-> r]
  BY <1>1 DEF Smb
<1> HIDE DEF x, y, z
<1> QED BY <1>2, <1>3, StagedOf

LEMMA SmbFilled ==
  ASSUME NEW m \in Machines, NEW l, NEW f \in Seq(Shares0), NEW x \in Shares0, NEW u, NEW r,
         NEW opt, NEW v, [x EXCEPT ![opt] = v] \in Shares0
  PROVE  ExecNas(Smb(m, l, f, Append(f, x), u, r), SmbFill(1, opt, v)) = Smb(m, l, f, Append(f, [x EXCEPT ![opt] = v]), u, r)
<1> DEFINE a == Append(f, x)
           y == [x EXCEPT ![opt] = v]
           n == Smb(m, l, f, a, u, r)
<1>1. n.nas.file.samba4 = f /\ n.nas.staged.samba4 = a
  BY DEF Smb, Machines, NasSides
<1>2. ExecNas(n, SmbFill(1, opt, v)) = [n EXCEPT !.nas.staged.samba4[Len(f) + 1][opt] = v]
  BY <1>1 DEF ExecNas, SmbFill
<1>3. a[Len(f) + 1] = x
  OBVIOUS
<1>4. [n EXCEPT !.nas.staged.samba4[Len(f) + 1][opt] = v] = [n EXCEPT !.nas.staged.samba4 = [a EXCEPT ![Len(f) + 1] = y]]
  BY <1>1, <1>3
<1>0. y \in Shares0
  OBVIOUS
<1> HIDE DEF y
<1>5. [a EXCEPT ![Len(f) + 1] = y] = Append(f, y)
  BY <1>0, LastOfAppend
<1>6. [n EXCEPT !.nas.staged.samba4 = Append(f, y)] = Smb(m, l, f, Append(f, y), u, r)
  <2> DEFINE b == Append(f, y)
  <2>1. n = Smb(m, l, f, a, u, r)
    OBVIOUS
  <2> HIDE DEF n, a, b
  <2>2. [n EXCEPT !.nas.staged.samba4 = b] = Smb(m, l, f, b, u, r)
    BY <2>1, SmbStaged
  <2> QED BY <2>2 DEF b
<1> QED BY <1>2, <1>4, <1>5, <1>6 DEF y

LEMMA BeginsRange ==
  ASSUME NEW a \in Seq(Shares0), NEW b \in Seq(Shares0), Begins(a, b)
  PROVE  Range(a) \subseteq Range(b)
<1> SUFFICES ASSUME NEW x \in Range(a) PROVE x \in Range(b)
  OBVIOUS
<1>1. PICK i \in 1 .. Len(a) : x = a[i]
  BY DEF Range
<1>2. i \in DOMAIN b /\ b[i] = x
  BY <1>1 DEF Begins
<1> QED BY <1>2 DEF Range

LEMMA SmbLater ==
  ASSUME NEW m, Grown(m), NEW l \in Seq(Shares0), NEW f \in Seq(Shares0), NEW s \in Seq(Shares0),
         Begins(l, f), Begins(f, s), Begins(m.nas.live.samba4, l), Begins(m.nas.file.samba4, f),
         NEW u \in SUBSET {"u"}, m.users \subseteq u, NEW r \in BOOLEAN, m.rootOk => r
  PROVE  NasLater(m, Smb(m, l, f, s, u, r))
<1> DEFINE n == Smb(m, l, f, s, u, r)
<1>1. m \in Machines /\ m.nas.live.samba4 \in Seq(Shares0) /\ m.nas.file.samba4 \in Seq(Shares0)
  BY DEF Grown, Machines, NasSides
<1>2. n.nas.live.samba4 = l /\ n.nas.file.samba4 = f /\ n.nas.staged.samba4 = s /\ n.users = u /\ n.rootOk = r
  BY <1>1 DEF Smb, Machines, NasSides
<1>3. n \in Machines
  BY <1>1 DEF Smb, Machines, NasSides
<1> HIDE DEF n
<1>4. Grown(n)
  BY <1>2, <1>3 DEF Grown
<1>5. ASSUME NEW sh, Held(m, sh) PROVE Held(n, sh)
  <2>1. sh \in Range(l)
    BY <1>1, <1>5, BeginsRange DEF Held
  <2>2. Range(m.nas.file.samba4) \subseteq Range(f)
    BY <1>1, BeginsRange
  <2>3. [name |-> sh.name, path |-> sh.path] \in NasServiceSambaStatus(n)
    BY <1>2, <1>5, <2>2 DEF Held, NasServiceSambaStatus
  <2> QED BY <1>2, <1>5, <2>1, <2>3 DEF Held
<1> QED BY <1>4, <1>5 DEF NasLater, n

LEMMA NasLaterIs ==
  /\ \A m : Grown(m) => NasLater(m, m)
  /\ \A m, n, o : NasLater(m, n) /\ NasLater(n, o) => NasLater(m, o)
BY DEF NasLater

LEMMA BeginsIs ==
  ASSUME NEW q \in Seq(Shares0)
  PROVE  /\ Begins(q, q)
         /\ \A x \in Shares0 : Append(q, x) \in Seq(Shares0) /\ Begins(q, Append(q, x))
         /\ \A p, t \in Seq(Shares0) : Begins(p, q) /\ Begins(q, t) => Begins(p, t)
<1>1. Begins(q, q)
  BY DEF Begins
<1>2. ASSUME NEW x \in Shares0 PROVE Append(q, x) \in Seq(Shares0) /\ Begins(q, Append(q, x))
  BY AppendProperties DEF Begins
<1>3. ASSUME NEW p \in Seq(Shares0), NEW t \in Seq(Shares0), Begins(p, q), Begins(q, t) PROVE Begins(p, t)
  BY <1>3 DEF Begins
<1> QED BY <1>1, <1>2, <1>3

LEMMA BeginsOn ==
  ASSUME NEW p \in Seq(Shares0), NEW q \in Seq(Shares0), NEW t \in Seq(Shares0), Begins(p, q), Begins(q, t)
  PROVE  Begins(p, t)
BY DEF Begins

\* What is staged is written and run as it is or with more.
LEMMA StagedLater ==
  ASSUME NEW m, Grown(m), NEW q, q = m.nas.staged.samba4, NEW t \in Seq(Shares0), Begins(q, t),
         NEW u \in SUBSET {"u"}, m.users \subseteq u,
         NEW n, n = Smb(m, q, q, t, u, Yes) \/ n = Smb(m, q, t, t, u, Yes) \/ n = Smb(m, t, t, t, u, Yes)
  PROVE  NasLater(m, n)
<1> DEFINE f == m.nas.file.samba4
           l == m.nas.live.samba4
<1>1. m \in Machines /\ q \in Seq(Shares0) /\ f \in Seq(Shares0) /\ l \in Seq(Shares0)
  BY DEF Grown, Machines, NasSides
<1>2. Begins(l, f) /\ Begins(f, q) /\ Yes \in BOOLEAN /\ (m.rootOk => Yes)
  BY DEF Grown, Yes
<1>3. Begins(l, q) /\ Begins(f, t)
  BY <1>1, <1>2, BeginsOn
<1>4. Begins(l, t)
  BY <1>1, <1>3, BeginsOn
<1>5. Begins(q, q) /\ Begins(t, t)
  BY <1>1 DEF Begins
<1>6. NasLater(m, Smb(m, q, q, t, u, Yes))
  BY <1>1, <1>2, <1>3, <1>5, SmbLater
<1>7. NasLater(m, Smb(m, q, t, t, u, Yes))
  BY <1>1, <1>2, <1>3, <1>5, SmbLater
<1>8. NasLater(m, Smb(m, t, t, t, u, Yes))
  BY <1>1, <1>2, <1>3, <1>4, <1>5, SmbLater
<1> QED BY <1>6, <1>7, <1>8

\* An option of a package of its own: the shares are left alone.
OtherThan(p) == IF p = "linkease" THEN "gowebdav" ELSE "linkease"
ValuesOf(p) == IF p = "linkease" THEN BOOLEAN ELSE WebForms

LEMMA SideSet ==
  ASSUME NEW w \in NasSides, NEW p \in {"gowebdav", "linkease"}, NEW v \in ValuesOf(p)
  PROVE  LET x == [w EXCEPT ![p] = v]
         IN  x \in NasSides /\ x.samba4 = w.samba4 /\ x[OtherThan(p)] = w[OtherThan(p)] /\ x[p] = v
<1> DEFINE x == [w EXCEPT ![p] = v]
<1>1. CASE p = "gowebdav"
  <2>1. x = [w EXCEPT !.gowebdav = v] /\ v \in WebForms /\ OtherThan(p) = "linkease"
    BY <1>1 DEF ValuesOf, OtherThan
  <2> HIDE DEF x
  <2>2. x \in NasSides /\ x.samba4 = w.samba4 /\ x.linkease = w.linkease /\ x.gowebdav = v
    BY <2>1 DEF NasSides
  <2>3. x \in NasSides /\ x.samba4 = w.samba4 /\ x[OtherThan(p)] = w[OtherThan(p)] /\ x[p] = v
    BY <1>1, <2>1, <2>2
  <2> QED BY <2>3 DEF x
<1>2. CASE p = "linkease"
  <2>1. x = [w EXCEPT !.linkease = v] /\ v \in BOOLEAN /\ OtherThan(p) = "gowebdav"
    BY <1>2 DEF ValuesOf, OtherThan
  <2> HIDE DEF x
  <2>2. x \in NasSides /\ x.samba4 = w.samba4 /\ x.gowebdav = w.gowebdav /\ x.linkease = v
    BY <2>1 DEF NasSides
  <2>3. x \in NasSides /\ x.samba4 = w.samba4 /\ x[OtherThan(p)] = w[OtherThan(p)] /\ x[p] = v
    BY <1>2, <2>1, <2>2
  <2> QED BY <2>3 DEF x
<1> QED BY <1>1, <1>2

SetTo(m, d, p, v) == [m EXCEPT !.nas[d][p] = v]

LEMMA MachineSet ==
  ASSUME NEW m \in Machines, NEW d \in {"file", "staged", "live"},
         NEW p \in {"gowebdav", "linkease"}, NEW v \in ValuesOf(p),
         NEW n, n = SetTo(m, d, p, v)
  PROVE  /\ n \in Machines /\ n.users = m.users /\ n.rootOk = m.rootOk
         /\ n.nas[d] = [m.nas[d] EXCEPT ![p] = v]
         /\ \A e \in {"file", "staged", "live"} : e # d => n.nas[e] = m.nas[e]
<1> DEFINE w == [m.nas[d] EXCEPT ![p] = v]
<1>1. m.nas[d] \in NasSides
  BY DEF Machines
<1>2. w \in NasSides
  BY <1>1, SideSet
<1>3. n = [m EXCEPT !.nas[d] = w]
  BY DEF SetTo
<1> HIDE DEF w
<1>4. /\ n \in Machines /\ n.users = m.users /\ n.rootOk = m.rootOk
      /\ n.nas[d] = w
      /\ \A e \in {"file", "staged", "live"} : e # d => n.nas[e] = m.nas[e]
  BY <1>2, <1>3 DEF Machines
<1> QED BY <1>4 DEF w

LEMMA OtherCommand ==
  ASSUME NEW m, Grown(m), NEW p \in {"gowebdav", "linkease"}, NEW d \in {"file", "staged", "live"}, NEW v \in ValuesOf(p),
         NEW n, n = SetTo(m, d, p, v)
  PROVE  /\ NasLater(m, n)
         /\ \A e \in {"file", "staged", "live"} :
              n.nas[e].samba4 = m.nas[e].samba4 /\ n.nas[e][OtherThan(p)] = m.nas[e][OtherThan(p)]
         /\ n.nas[d][p] = v
<1>1. m \in Machines /\ m.nas[d] \in NasSides
  BY DEF Grown, Machines
<1>2. /\ n \in Machines /\ n.users = m.users /\ n.rootOk = m.rootOk
      /\ n.nas[d] = [m.nas[d] EXCEPT ![p] = v]
      /\ \A e \in {"file", "staged", "live"} : e # d => n.nas[e] = m.nas[e]
  BY <1>1, MachineSet
<1>3. n.nas[d].samba4 = m.nas[d].samba4 /\ n.nas[d][OtherThan(p)] = m.nas[d][OtherThan(p)] /\ n.nas[d][p] = v
  BY <1>1, <1>2, SideSet
<1>4. \A e \in {"file", "staged", "live"} :
        n.nas[e].samba4 = m.nas[e].samba4 /\ n.nas[e][OtherThan(p)] = m.nas[e][OtherThan(p)]
  BY <1>2, <1>3
<1>5. NasLater(m, n)
  BY <1>2, <1>4 DEF NasLater, Grown, Held, NasServiceSambaStatus
<1> QED BY <1>3, <1>4, <1>5

-----------------------------------------------------------------------------
(* The NAS services: requests                                              *)

ShareForms0 == [name : SmbNames, path : SmbPaths, users : {"u", "Upper"}]
Before(r) == PrepareSamba \o <<[op |-> "EnableRoot"]>> \o CreateSambaUser(r)

LEMMA BeforeIs ==
  ASSUME NEW r \in ShareForms0
  PROVE  LET cmds == Before(r)
         IN  /\ cmds[1] = NasCommit("samba4") /\ cmds[2] = NasRestart("samba4") /\ cmds[3] = RootCmd
             /\ CreateSambaUser(r) = <<>> => Len(cmds) = 3
             /\ CreateSambaUser(r) # <<>> => r.users = "u" /\ Len(cmds) = 4 /\ cmds[4] = UserCmd
<1>1. CASE r.users = "Upper"
  <2>1. CreateSambaUser(r) = <<>>
    BY <1>1 DEF CreateSambaUser, UserCmd
  <2> QED BY <2>1 DEF Before, PrepareSamba, RootCmd
<1>2. CASE r.users = "u"
  <2>1. CreateSambaUser(r) = <<UserCmd>>
    BY <1>2 DEF CreateSambaUser, UserCmd
  <2>2. <<UserCmd>> # <<>>
    OBVIOUS
  <2> DEFINE cmds == PrepareSamba \o <<RootCmd>> \o <<UserCmd>>
  <2>3. /\ cmds[1] = NasCommit("samba4") /\ cmds[2] = NasRestart("samba4") /\ cmds[3] = RootCmd
        /\ Len(cmds) = 4 /\ cmds[4] = UserCmd
    BY DEF PrepareSamba
  <2>4. Before(r) = cmds
    BY <2>1 DEF Before, RootCmd
  <2> HIDE DEF cmds
  <2> QED BY <1>2, <2>1, <2>2, <2>3, <2>4
<1> QED BY <1>1, <1>2 DEF ShareForms0

\* The commands that add a share, after those that come before.
LEMMA ShareCommandsAre ==
  ASSUME NEW r \in ShareForms0, CreateSambaUser(r) # <<>>,
         NEW cmds, cmds = Before(r) \o BuildSambaShareCommands(r)
  PROVE  /\ cmds[1] = NasCommit("samba4") /\ cmds[2] = NasRestart("samba4") /\ cmds[3] = RootCmd
         /\ cmds[4] = UserCmd /\ cmds[5] = AddCmd
         /\ cmds[6] = SmbFill(1, "name", r.name) /\ cmds[7] = SmbFill(1, "path", r.path)
         /\ cmds[8] = SmbFill(1, "users", r.users) /\ cmds[9] = NasCommit("samba4") /\ cmds[10] = NasRestart("samba4")
         /\ Len(cmds) = 10
<1>1. CreateSambaUser(r) = <<UserCmd>>
  BY DEF CreateSambaUser, ShareForms0, UserCmd
<1>2. cmds = PrepareSamba \o <<RootCmd>> \o <<UserCmd>> \o BuildSambaShareCommands(r)
  BY <1>1 DEF Before, RootCmd
<1>3. cmds = (<<NasCommit("samba4"), NasRestart("samba4")>> \o <<RootCmd>> \o <<UserCmd>>)
             \o <<AddCmd, SmbFill(1, "name", r.name), SmbFill(1, "path", r.path), SmbFill(1, "users", r.users),
                  NasCommit("samba4"), NasRestart("samba4")>>
  BY <1>2 DEF PrepareSamba, BuildSambaShareCommands, AddCmd
<1> DEFINE n1 == SmbFill(1, "name", r.name)
           n2 == SmbFill(1, "path", r.path)
           n3 == SmbFill(1, "users", r.users)
           c1 == NasCommit("samba4")
           c2 == NasRestart("samba4")
<1>4. cmds = (<<c1, c2>> \o <<RootCmd>> \o <<UserCmd>>) \o <<AddCmd, n1, n2, n3, c1, c2>>
  BY <1>3
<1> HIDE DEF n1, n2, n3, c1, c2
<1>5. /\ Len(cmds) = 10 /\ cmds[1] = c1 /\ cmds[2] = c2 /\ cmds[3] = RootCmd
      /\ cmds[4] = UserCmd /\ cmds[5] = AddCmd /\ cmds[6] = n1 /\ cmds[7] = n2 /\ cmds[8] = n3 /\ cmds[9] = c1 /\ cmds[10] = c2
  BY <1>4
<1> QED BY <1>5 DEF n1, n2, n3, c1, c2

\* The machine after each command that comes before a share.
Prepares(g) == g[1] = ExecNas(g[0], NasCommit("samba4")) /\ g[2] = ExecNas(g[1], NasRestart("samba4")) /\ g[3] = ExecNas(g[2], RootCmd)

\* What comes before a share: what was left staged is written, and runs.
LEMMA PrepareRun ==
  ASSUME NEW m, Grown(m), NEW g, g[0] = m, Prepares(g), NEW q, q = m.nas.staged.samba4
  PROVE  /\ NasLater(m, g[0]) /\ NasLater(m, g[1]) /\ NasLater(m, g[2]) /\ NasLater(m, g[3])
         /\ g[3] = Smb(m, q, q, q, m.users, Yes)
<1> DEFINE f == m.nas.file.samba4
           l == m.nas.live.samba4
<1>1. m \in Machines /\ q \in Seq(Shares0) /\ f \in Seq(Shares0) /\ l \in Seq(Shares0)
      /\ m.users \in SUBSET {"u"} /\ m.rootOk \in BOOLEAN
  BY DEF Grown, Machines, NasSides
<1>2. g[0] = Smb(m, l, f, q, m.users, m.rootOk)
  BY <1>1, SmbSame
<1>3. g[1] = Smb(m, l, q, q, m.users, m.rootOk)
  BY <1>1, <1>2, SmbCommits, SMTT(30) DEF Prepares
<1>4. g[2] = Smb(m, q, q, q, m.users, m.rootOk)
  BY <1>1, <1>3, SmbRestarts DEF Prepares
<1>5. g[3] = Smb(m, q, q, q, m.users, Yes)
  BY <1>1, <1>4, SmbRooted DEF Prepares
<1>6. Begins(l, f) /\ Begins(f, q) /\ Begins(l, q) /\ Begins(q, q) /\ Begins(l, l)
      /\ Yes \in BOOLEAN /\ (m.rootOk => Yes)
  BY <1>1, BeginsIs DEF Grown, Yes
<1>7. NasLater(m, g[0])
  BY NasLaterIs
<1>8. NasLater(m, g[1])
  BY <1>1, <1>3, <1>6, SmbLater
<1>9. NasLater(m, g[2])
  BY <1>1, <1>4, <1>6, SmbLater
<1>10. NasLater(m, g[3])
  BY <1>1, <1>5, <1>6, SmbLater
<1> QED BY <1>5, <1>7, <1>8, <1>9, <1>10

\* A share without its path, and without its account.
NameOnly(r) == [name |-> r.name, path |-> "unset", users |-> "unset"]
NoAccount(r) == [name |-> r.name, path |-> r.path, users |-> "unset"]

LEMMA SharePartsAre ==
  ASSUME NEW r \in ShareForms0, r.users = "u"
  PROVE  /\ BlankSamba \in Shares0 /\ NameOnly(r) \in Shares0 /\ NoAccount(r) \in Shares0 /\ r \in Shares0
         /\ [BlankSamba EXCEPT !["name"] = r.name] = NameOnly(r)
         /\ [NameOnly(r) EXCEPT !["path"] = r.path] = NoAccount(r)
         /\ [NoAccount(r) EXCEPT !["users"] = r.users] = r
<1>1. BlankSamba \in Shares0 /\ NameOnly(r) \in Shares0 /\ NoAccount(r) \in Shares0
  BY DEF BlankSamba, Shares0, ShareForms0, NameOnly, NoAccount
<1>2. r \in Shares0
  BY DEF Shares0, ShareForms0
<1>3. [BlankSamba EXCEPT !["name"] = r.name] = NameOnly(r)
  BY DEF BlankSamba, NameOnly
<1>4. [NameOnly(r) EXCEPT !["path"] = r.path] = NoAccount(r)
  BY DEF NameOnly, NoAccount
<1>5. r = [name |-> r.name, path |-> r.path, users |-> r.users]
  BY DEF ShareForms0
<1>6. [NoAccount(r) EXCEPT !["users"] = r.users] = [name |-> r.name, path |-> r.path, users |-> r.users]
  BY DEF NoAccount
<1> QED BY <1>1, <1>2, <1>3, <1>4, <1>5, <1>6

LEMMA FilledName ==
  ASSUME NEW m \in Machines, NEW l, NEW f \in Seq(Shares0), NEW x \in Shares0, NEW u, NEW r,
         NEW v, [x EXCEPT !["name"] = v] \in Shares0
  PROVE  ExecNas(Smb(m, l, f, Append(f, x), u, r), SmbFill(1, "name", v)) = Smb(m, l, f, Append(f, [x EXCEPT !["name"] = v]), u, r)
BY SmbFilled

LEMMA FilledPath ==
  ASSUME NEW m \in Machines, NEW l, NEW f \in Seq(Shares0), NEW x \in Shares0, NEW u, NEW r,
         NEW v, [x EXCEPT !["path"] = v] \in Shares0
  PROVE  ExecNas(Smb(m, l, f, Append(f, x), u, r), SmbFill(1, "path", v)) = Smb(m, l, f, Append(f, [x EXCEPT !["path"] = v]), u, r)
BY SmbFilled

LEMMA FilledUsers ==
  ASSUME NEW m \in Machines, NEW l, NEW f \in Seq(Shares0), NEW x \in Shares0, NEW u, NEW r,
         NEW v, [x EXCEPT !["users"] = v] \in Shares0
  PROVE  ExecNas(Smb(m, l, f, Append(f, x), u, r), SmbFill(1, "users", v)) = Smb(m, l, f, Append(f, [x EXCEPT !["users"] = v]), u, r)
BY SmbFilled

LEMMA ShareFilled ==
  ASSUME NEW m \in Machines, NEW q \in Seq(Shares0), NEW u, NEW r \in ShareForms0, r.users = "u"
  PROVE  /\ ExecNas(Smb(m, q, q, Append(q, BlankSamba), u, Yes), SmbFill(1, "name", r.name)) = Smb(m, q, q, Append(q, NameOnly(r)), u, Yes)
         /\ ExecNas(Smb(m, q, q, Append(q, NameOnly(r)), u, Yes), SmbFill(1, "path", r.path)) = Smb(m, q, q, Append(q, NoAccount(r)), u, Yes)
         /\ ExecNas(Smb(m, q, q, Append(q, NoAccount(r)), u, Yes), SmbFill(1, "users", r.users)) = Smb(m, q, q, Append(q, r), u, Yes)
<1>1. ASSUME NEW x \in Shares0, NEW v, [x EXCEPT !["name"] = v] \in Shares0
      PROVE  ExecNas(Smb(m, q, q, Append(q, x), u, Yes), SmbFill(1, "name", v)) = Smb(m, q, q, Append(q, [x EXCEPT !["name"] = v]), u, Yes)
  BY <1>1, FilledName
<1>2. ASSUME NEW x \in Shares0, NEW v, [x EXCEPT !["path"] = v] \in Shares0
      PROVE  ExecNas(Smb(m, q, q, Append(q, x), u, Yes), SmbFill(1, "path", v)) = Smb(m, q, q, Append(q, [x EXCEPT !["path"] = v]), u, Yes)
  BY <1>2, FilledPath
<1>3. ASSUME NEW x \in Shares0, NEW v, [x EXCEPT !["users"] = v] \in Shares0
      PROVE  ExecNas(Smb(m, q, q, Append(q, x), u, Yes), SmbFill(1, "users", v)) = Smb(m, q, q, Append(q, [x EXCEPT !["users"] = v]), u, Yes)
  BY <1>3, FilledUsers
<1>4. ExecNas(Smb(m, q, q, Append(q, BlankSamba), u, Yes), SmbFill(1, "name", r.name)) = Smb(m, q, q, Append(q, NameOnly(r)), u, Yes)
  BY <1>1, SharePartsAre
<1>5. ExecNas(Smb(m, q, q, Append(q, NameOnly(r)), u, Yes), SmbFill(1, "path", r.path)) = Smb(m, q, q, Append(q, NoAccount(r)), u, Yes)
  BY <1>2, SharePartsAre
<1>6. ExecNas(Smb(m, q, q, Append(q, NoAccount(r)), u, Yes), SmbFill(1, "users", r.users)) = Smb(m, q, q, Append(q, r), u, Yes)
  BY <1>3, SharePartsAre
<1> QED BY <1>4, <1>5, <1>6

\* The machine after each command of a creation.
Creates(g, r) ==
  /\ g[4] = ExecNas(g[3], UserCmd) /\ g[5] = ExecNas(g[4], AddCmd)
  /\ g[6] = ExecNas(g[5], SmbFill(1, "name", r.name)) /\ g[7] = ExecNas(g[6], SmbFill(1, "path", r.path))
  /\ g[8] = ExecNas(g[7], SmbFill(1, "users", r.users))
  /\ g[9] = ExecNas(g[8], NasCommit("samba4")) /\ g[10] = ExecNas(g[9], NasRestart("samba4"))

LEMMA ShareRun ==
  ASSUME NEW m, Grown(m), NEW r \in ShareForms0, r.users = "u", NEW g, g[0] = m, Prepares(g), Creates(g, r),
         NEW q, q = m.nas.staged.samba4
  PROVE  /\ \A k \in 0 .. 10 : NasLater(m, g[k])
         /\ g[10] = Smb(m, Append(q, r), Append(q, r), Append(q, r), m.users \union {"u"}, Yes)
<1> DEFINE U == m.users \union {"u"}
           a0 == Append(q, BlankSamba)
           a1 == Append(q, NameOnly(r))
           a2 == Append(q, NoAccount(r))
           a == Append(q, r)
<1>1. m \in Machines /\ q \in Seq(Shares0) /\ U \in SUBSET {"u"} /\ m.users \subseteq U
  BY DEF Grown, Machines, NasSides
<1>2. /\ NasLater(m, g[0]) /\ NasLater(m, g[1]) /\ NasLater(m, g[2]) /\ NasLater(m, g[3])
      /\ g[3] = Smb(m, q, q, q, m.users, Yes)
  BY PrepareRun
<1>3. g[4] = Smb(m, q, q, q, U, Yes)
  BY <1>1, <1>2, SmbUser DEF Creates
<1>4. g[5] = Smb(m, q, q, a0, U, Yes)
  BY <1>1, <1>3, SmbAdded DEF Creates
<1>5. /\ ExecNas(Smb(m, q, q, a0, U, Yes), SmbFill(1, "name", r.name)) = Smb(m, q, q, a1, U, Yes)
      /\ ExecNas(Smb(m, q, q, a1, U, Yes), SmbFill(1, "path", r.path)) = Smb(m, q, q, a2, U, Yes)
      /\ ExecNas(Smb(m, q, q, a2, U, Yes), SmbFill(1, "users", r.users)) = Smb(m, q, q, a, U, Yes)
  BY <1>1, ShareFilled
<1>6. /\ a0 \in Seq(Shares0) /\ Begins(q, a0)
      /\ a1 \in Seq(Shares0) /\ Begins(q, a1)
      /\ a2 \in Seq(Shares0) /\ Begins(q, a2)
      /\ a \in Seq(Shares0) /\ Begins(q, a)
      /\ Begins(q, q)
  BY <1>1, SharePartsAre, BeginsIs
<1> HIDE DEF U, a0, a1, a2, a
<1>7. g[6] = Smb(m, q, q, a1, U, Yes)
  BY <1>4, <1>5 DEF Creates
<1>8. g[7] = Smb(m, q, q, a2, U, Yes)
  BY <1>5, <1>7 DEF Creates
<1>9. g[8] = Smb(m, q, q, a, U, Yes)
  BY <1>5, <1>8 DEF Creates
<1>10. g[9] = Smb(m, q, a, a, U, Yes)
  BY <1>1, <1>9, SmbCommits DEF Creates
<1>11. g[10] = Smb(m, a, a, a, U, Yes)
  BY <1>1, <1>10, SmbRestarts DEF Creates
<1>12. NasLater(m, g[4])
  <2>1. ASSUME NEW t \in Seq(Shares0), Begins(q, t), g[4] = Smb(m, q, q, t, U, Yes) PROVE NasLater(m, g[4])
    BY <1>1, <2>1, StagedLater, ZenonT(60)
  <2> QED BY <1>1, <1>3, <1>6, <2>1
<1>13. NasLater(m, g[5])
  BY <1>1, <1>4, <1>6, StagedLater, ZenonT(60)
<1>14. NasLater(m, g[6])
  BY <1>1, <1>6, <1>7, StagedLater, ZenonT(60)
<1>15. NasLater(m, g[7])
  BY <1>1, <1>6, <1>8, StagedLater, ZenonT(60)
<1>16. NasLater(m, g[8])
  BY <1>1, <1>6, <1>9, StagedLater, ZenonT(60)
<1>17. NasLater(m, g[9])
  BY <1>1, <1>6, <1>10, StagedLater
<1>18. NasLater(m, g[10])
  BY <1>1, <1>6, <1>11, StagedLater
<1>19. \A k \in 0 .. 10 : NasLater(m, g[k])
  BY <1>2, <1>12, <1>13, <1>14, <1>15, <1>16, <1>17, <1>18
<1> QED BY <1>11, <1>19 DEF U, a

\* What a command of another package leaves.
Beside(m, n, p) ==
  /\ NasLater(m, n)
  /\ \A e \in {"file", "staged", "live"} :
       n.nas[e].samba4 = m.nas[e].samba4 /\ n.nas[e][OtherThan(p)] = m.nas[e][OtherThan(p)]

LEMMA BesideIs ==
  /\ \A m, p : Grown(m) => Beside(m, m, p)
  /\ \A m, n, o, p : Beside(m, n, p) /\ Beside(n, o, p) => Beside(m, o, p)
  /\ \A m, n, p : Beside(m, n, p) => Grown(n) /\ NasLater(m, n)
BY NasLaterIs DEF Beside, NasLater

LEMMA SetRun ==
  ASSUME NEW m, Grown(m), NEW p \in {"gowebdav", "linkease"}, NEW v \in ValuesOf(p), NEW n, n = ExecNas(m, NasSet(p, v))
  PROVE  Beside(m, n, p) /\ n.nas.staged[p] = v
<1>1. n = SetTo(m, "staged", p, v)
  BY DEF ExecNas, NasSet, SetTo
<1>2. "staged" \in {"file", "staged", "live"}
  OBVIOUS
<1> QED BY <1>1, <1>2, OtherCommand DEF Beside

LEMMA ValuesHeld ==
  ASSUME NEW m \in Machines, NEW p \in {"gowebdav", "linkease"}
  PROVE  m.nas.staged[p] \in ValuesOf(p) /\ m.nas.file[p] \in ValuesOf(p)
<1>1. m.nas.staged \in NasSides /\ m.nas.file \in NasSides
  BY DEF Machines
<1>2. CASE p = "gowebdav"
  BY <1>1, <1>2 DEF NasSides, ValuesOf
<1>3. CASE p = "linkease"
  BY <1>1, <1>3 DEF NasSides, ValuesOf
<1> QED BY <1>2, <1>3

LEMMA CommitRun ==
  ASSUME NEW m, Grown(m), NEW p \in {"gowebdav", "linkease"}, NEW n, n = ExecNas(m, NasCommit(p))
  PROVE  Beside(m, n, p) /\ n.nas.file[p] = m.nas.staged[p]
<1>1. n = SetTo(m, "file", p, m.nas.staged[p])
  BY DEF ExecNas, NasCommit, SetTo
<1>2. "file" \in {"file", "staged", "live"} /\ m.nas.staged[p] \in ValuesOf(p)
  BY ValuesHeld DEF Grown
<1> QED BY <1>1, <1>2, OtherCommand, SMTT(30) DEF Beside

LEMMA RestartRun ==
  ASSUME NEW m, Grown(m), NEW p \in {"gowebdav", "linkease"}, NEW n, n = ExecNas(m, NasRestart(p))
  PROVE  Beside(m, n, p) /\ n.nas.live[p] = m.nas.file[p]
<1>1. n = SetTo(m, "live", p, m.nas.file[p])
  BY DEF ExecNas, NasRestart, SetTo
<1>2. "live" \in {"file", "staged", "live"} /\ m.nas.file[p] \in ValuesOf(p)
  BY ValuesHeld DEF Grown
<1> QED BY <1>1, <1>2, OtherCommand, SMTT(30) DEF Beside

\* WebDAV as it was asked for.
WebForms2 == [root : SmbPaths, user : {"u", "v"}]
AsAsked(r) == [root |-> r.root, enable |-> TRUE, user |-> r.user]

LEMMA FiveAre ==
  ASSUME NEW a, NEW b, NEW c, NEW d, NEW e, NEW q, q = <<a, b, c, d>> \o <<e>>
  PROVE  Len(q) = 5 /\ q[1] = a /\ q[2] = b /\ q[3] = c /\ q[4] = d /\ q[5] = e
OBVIOUS

LEMMA WebdavCommandsAre ==
  ASSUME NEW r \in WebForms2, NEW w \in WebForms, NEW cmds, cmds = BuildWebdavConfigCommands(w, r) \o <<NasRestart("gowebdav")>>
  PROVE  /\ Len(cmds) = 5
         /\ \E x, y \in WebForms : cmds[1] = NasSet("gowebdav", x) /\ cmds[2] = NasSet("gowebdav", y)
         /\ cmds[3] = NasSet("gowebdav", AsAsked(r)) /\ AsAsked(r) \in WebForms
         /\ cmds[4] = NasCommit("gowebdav") /\ cmds[5] = NasRestart("gowebdav")
<1> DEFINE x == [w EXCEPT !.root = r.root]
           y == [w EXCEPT !.root = r.root, !.enable = TRUE]
           z == AsAsked(r)
<1>1. x \in WebForms /\ y \in WebForms /\ z \in WebForms
  BY DEF WebForms, WebForms2, AsAsked
<1> DEFINE c1 == NasSet("gowebdav", x)
           c2 == NasSet("gowebdav", y)
           c3 == NasSet("gowebdav", z)
           c4 == NasCommit("gowebdav")
           c5 == NasRestart("gowebdav")
<1>2. cmds = <<c1, c2, c3, c4>> \o <<c5>>
  BY DEF BuildWebdavConfigCommands, AsAsked
<1> HIDE DEF c1, c2, c3, c4, c5, x, y, z
<1>3. Len(cmds) = 5 /\ cmds[1] = c1 /\ cmds[2] = c2 /\ cmds[3] = c3 /\ cmds[4] = c4 /\ cmds[5] = c5
  <2> DEFINE q == <<c1, c2, c3, c4>> \o <<c5>>
  <2>1. Len(q) = 5 /\ q[1] = c1 /\ q[2] = c2 /\ q[3] = c3 /\ q[4] = c4 /\ q[5] = c5
    OBVIOUS
  <2>2. cmds = q
    BY <1>2
  <2> HIDE DEF q
  <2> QED BY <2>1, <2>2
<1>4. cmds[1] = NasSet("gowebdav", x) /\ cmds[2] = NasSet("gowebdav", y)
  BY <1>3 DEF c1, c2
<1>5. cmds[3] = NasSet("gowebdav", AsAsked(r)) /\ cmds[4] = NasCommit("gowebdav") /\ cmds[5] = NasRestart("gowebdav")
  BY <1>3 DEF c3, c4, c5, z
<1> QED BY <1>1, <1>3, <1>4, <1>5 DEF z

LEMMA WebdavRun ==
  ASSUME NEW m, Grown(m), NEW g, g[0] = m, NEW x \in WebForms, NEW y \in WebForms, NEW z \in WebForms,
         g[1] = ExecNas(g[0], NasSet("gowebdav", x)), g[2] = ExecNas(g[1], NasSet("gowebdav", y)),
         g[3] = ExecNas(g[2], NasSet("gowebdav", z)), g[4] = ExecNas(g[3], NasCommit("gowebdav")),
         g[5] = ExecNas(g[4], NasRestart("gowebdav"))
  PROVE  /\ \A k \in 0 .. 5 : NasLater(m, g[k])
         /\ Beside(m, g[5], "gowebdav") /\ g[5].nas.live.gowebdav = z
<1> DEFINE p == "gowebdav"
<1>1. p \in {"gowebdav", "linkease"} /\ x \in ValuesOf(p) /\ y \in ValuesOf(p) /\ z \in ValuesOf(p)
  BY DEF ValuesOf
<1> HIDE DEF p
<1>2. Beside(m, g[0], p)
  BY BesideIs
<1>3. Beside(m, g[1], p)
  <2>1. Beside(m, g[1], p)
    BY <1>1, SetRun DEF p
  <2> QED BY <2>1
<1>4. Beside(m, g[2], p)
  <2>1. Grown(g[1])
    BY <1>3, BesideIs
  <2>2. Beside(g[1], g[2], p)
    BY <1>1, <2>1, SetRun DEF p
  <2> QED BY <1>3, <2>2, BesideIs
<1>5. Beside(m, g[3], p) /\ g[3].nas.staged[p] = z
  <2>1. Grown(g[2])
    BY <1>4, BesideIs
  <2>2. Beside(g[2], g[3], p) /\ g[3].nas.staged[p] = z
    BY <1>1, <2>1, SetRun DEF p
  <2> QED BY <1>4, <2>2, BesideIs
<1>6. Beside(m, g[4], p) /\ g[4].nas.file[p] = z
  <2>1. Grown(g[3])
    BY <1>5, BesideIs
  <2>2. Beside(g[3], g[4], p) /\ g[4].nas.file[p] = g[3].nas.staged[p]
    BY <1>1, <2>1, CommitRun DEF p
  <2> QED BY <1>5, <2>2, BesideIs
<1>7. Beside(m, g[5], p) /\ g[5].nas.live[p] = z
  <2>1. Grown(g[4])
    BY <1>6, BesideIs
  <2>2. Beside(g[4], g[5], p) /\ g[5].nas.live[p] = g[4].nas.file[p]
    BY <1>1, <2>1, RestartRun DEF p
  <2> QED BY <1>6, <2>2, BesideIs
<1>8. \A k \in 0 .. 5 : NasLater(m, g[k])
  BY <1>2, <1>3, <1>4, <1>5, <1>6, <1>7, BesideIs
<1> QED BY <1>7, <1>8 DEF p

LEMMA LinkeaseRun ==
  ASSUME NEW m, Grown(m), NEW g, g[0] = m, NEW v \in BOOLEAN,
         g[1] = ExecNas(g[0], NasSet("linkease", v)), g[2] = ExecNas(g[1], NasCommit("linkease")),
         g[3] = ExecNas(g[2], NasRestart("linkease"))
  PROVE  /\ \A k \in 0 .. 3 : NasLater(m, g[k])
         /\ Beside(m, g[3], "linkease") /\ g[3].nas.live.linkease = v
<1> DEFINE p == "linkease"
<1>1. p \in {"gowebdav", "linkease"} /\ v \in ValuesOf(p)
  BY DEF ValuesOf
<1> HIDE DEF p
<1>2. Beside(m, g[0], p)
  BY BesideIs
<1>3. Beside(m, g[1], p) /\ g[1].nas.staged[p] = v
  BY <1>1, SetRun DEF p
<1>4. Beside(m, g[2], p) /\ g[2].nas.file[p] = v
  <2>1. Grown(g[1])
    BY <1>3, BesideIs
  <2>2. Beside(g[1], g[2], p) /\ g[2].nas.file[p] = g[1].nas.staged[p]
    BY <1>1, <2>1, CommitRun DEF p
  <2> QED BY <1>3, <2>2, BesideIs
<1>5. Beside(m, g[3], p) /\ g[3].nas.live[p] = v
  <2>1. Grown(g[2])
    BY <1>4, BesideIs
  <2>2. Beside(g[2], g[3], p) /\ g[3].nas.live[p] = g[2].nas.file[p]
    BY <1>1, <2>1, RestartRun DEF p
  <2> QED BY <1>4, <2>2, BesideIs
<1>6. \A k \in 0 .. 3 : NasLater(m, g[k])
  BY <1>2, <1>3, <1>4, <1>5, BesideIs
<1> QED BY <1>5, <1>6 DEF p

-----------------------------------------------------------------------------
(* The NAS services: actions                                               *)

\* What an answer of success names is there.
Answers(asked, m) ==
  /\ asked.kind = "webdav" => m.nas.live.gowebdav = AsAsked(asked.r)
  /\ nasUncut /\ asked.kind = "linkease" => m.nas.live.linkease

LEMMA NoNasAnswers == \A m : Answers(NoNas, m)
BY DEF Answers, NoNas

LEMMA ServeKeeps ==
  ASSUME NasInv, NEW cmds, NEW n, n = Len(cmds), n \in Nat, NEW asked, NEW share, NEW mayFail,
         NEW g, g = NasRun(cmds), \A k \in 0 .. n : NasLater(nasMachine, g[k]),
         share # NoShare => Held(g[n], share), nasUncut => Settled(g[n]), Answers(asked, g[n]),
         ServeNas(cmds, asked, share, mayFail)
  PROVE  NasInv'
<1>1. PICK k \in 0 .. n, status \in BOOLEAN :
        /\ nas' = g[k].nas /\ smbUsers' = g[k].users /\ rootOk' = g[k].rootOk
        /\ nasUncut' = (nasUncut /\ k = n)
        /\ nasMade' = IF k = n /\ share # NoShare THEN nasMade \union {share} ELSE nasMade
        /\ nasAsked' = IF k = n /\ status THEN asked ELSE NoNas
  BY DEF ServeNas
<1> DEFINE s == g[k]
<1>2. NasLater(nasMachine, s)
  OBVIOUS
<1> HIDE DEF s
<1>3. s \in Machines
  BY <1>2 DEF NasLater, Grown
<1>4. nasMachine' = s
  <2>1. nasMachine' = [nas |-> s.nas, users |-> s.users, rootOk |-> s.rootOk]
    BY <1>1 DEF nasMachine, s
  <2> QED BY <1>3, <2>1 DEF Machines
<1>5. (nasCount \in 0 .. MaxNasRequests)' /\ (nasUncut \in BOOLEAN)'
  BY <1>1, NasAssumption DEF NasInv, ServeNas
<1>6. Grown(nasMachine')
  BY <1>2, <1>4 DEF NasLater
<1>7. \A sh \in nasMade' : Held(nasMachine', sh)
  <2>1. \A sh \in nasMade : Held(s, sh)
    BY <1>2 DEF NasLater, NasInv
  <2>2. CASE k = n /\ share # NoShare
    <3>1. Held(s, share)
      BY <2>2 DEF s
    <3> QED BY <1>1, <1>4, <2>1, <2>2, <3>1
  <2>3. CASE ~(k = n /\ share # NoShare)
    BY <1>1, <1>4, <2>1, <2>3
  <2> QED BY <2>2, <2>3
<1>8. nasUncut' => Settled(nasMachine')
  BY <1>1, <1>4 DEF s
<1>9. NasAsAsked'
  <2>1. CASE k = n /\ status
    <3>1. nasAsked' = asked /\ Answers(asked, nasMachine') /\ (nasUncut' => nasUncut)
      BY <1>1, <1>4, <2>1 DEF s
    <3>2. nasMachine'.nas = nas'
      BY DEF nasMachine
    <3> QED BY <3>1, <3>2 DEF Answers, AsAsked, NasAsAsked
  <2>2. CASE ~(k = n /\ status)
    BY <1>1, <2>2 DEF NasAsAsked, NoNas
  <2> QED BY <2>1, <2>2
<1> QED BY <1>5, <1>6, <1>7, <1>8, <1>9 DEF NasInv

\* Shares with names of their own, and one with a name that is not among them.
LEMMA NamedAppend ==
  ASSUME NEW q \in Seq(Shares0), Named(q), NEW r \in Shares0, r # BlankSamba, \A sh \in Range(q) : sh.name # r.name
  PROVE  Named(Append(q, r))
<1> DEFINE a == Append(q, r)
<1>1. DOMAIN a = 1 .. Len(q) + 1 /\ DOMAIN q = 1 .. Len(q) /\ Len(q) \in Nat
  OBVIOUS
<1>2. a[Len(q) + 1] = r /\ \A i \in 1 .. Len(q) : a[i] = q[i]
  OBVIOUS
<1>3. \A i \in 1 .. Len(q) : q[i].name # r.name
  BY <1>1 DEF Range
<1> HIDE DEF a
<1>4. ASSUME NEW i \in DOMAIN a, NEW j \in DOMAIN a PROVE a[i] # BlankSamba /\ (a[i].name = a[j].name => i = j)
  <2>1. CASE i \in 1 .. Len(q) /\ j \in 1 .. Len(q)
    BY <1>1, <1>2, <2>1 DEF Named
  <2>2. CASE i = Len(q) + 1 /\ j \in 1 .. Len(q)
    BY <1>1, <1>2, <1>3, <2>2
  <2>3. CASE i \in 1 .. Len(q) /\ j = Len(q) + 1
    BY <1>1, <1>2, <1>3, <2>3 DEF Named
  <2>4. CASE i = Len(q) + 1 /\ j = Len(q) + 1
    BY <1>2, <2>4
  <2> QED BY <1>1, <2>1, <2>2, <2>3, <2>4
<1> QED BY <1>4 DEF Named, a

LEMMA SmbFields ==
  ASSUME NEW m \in Machines, NEW l, NEW f, NEW s, NEW u, NEW r, NEW n, n = Smb(m, l, f, s, u, r)
  PROVE  /\ n.nas.staged.samba4 = s /\ n.nas.file.samba4 = f /\ n.nas.live.samba4 = l
         /\ n.nas.staged.linkease = m.nas.staged.linkease /\ n.nas.live.linkease = m.nas.live.linkease
         /\ n.users = u /\ n.rootOk = r
BY DEF Smb, Machines, NasSides

LEMMA SambaStep ==
  ASSUME NasInv, NasServiceSambaCreate
  PROVE  NasInv'
<1> DEFINE m == nasMachine
           q == m.nas.staged.samba4
<1>1. PICK r \in ShareForms0 :
        /\ ~SambaShareExists(r)
        /\ IF CreateSambaUser(r) = <<>> THEN ServeNas(Before(r), NoNas, NoShare, FALSE)
           ELSE ServeNas(Before(r) \o BuildSambaShareCommands(r), [kind |-> "samba", r |-> r], r, TRUE)
  BY DEF NasServiceSambaCreate, ShareForms0, Before
<1>2. Grown(m) /\ m \in Machines /\ q \in Seq(Shares0)
  BY DEF NasInv, Grown, Machines, NasSides
<1> HIDE DEF m, q
<1>3. CASE CreateSambaUser(r) = <<>>
  <2> DEFINE cmds == Before(r)
             g == NasRun(cmds)
  <2>1. cmds[1] = NasCommit("samba4") /\ cmds[2] = NasRestart("samba4") /\ cmds[3] = RootCmd /\ Len(cmds) = 3
    BY <1>3, BeforeIs
  <2>2. ServeNas(cmds, NoNas, NoShare, FALSE)
    BY <1>1, <1>3
  <2> HIDE DEF cmds
  <2>3. g[0] = m /\ \A k \in 1 .. 3 : g[k] = ExecNas(g[k - 1], cmds[k])
    BY <2>1, NasRunIs DEF m
  <2>4. Prepares(g)
    BY <2>1, <2>3 DEF Prepares
  <2> HIDE DEF g
  <2>5. /\ NasLater(m, g[0]) /\ NasLater(m, g[1]) /\ NasLater(m, g[2]) /\ NasLater(m, g[3])
        /\ g[3] = Smb(m, q, q, q, m.users, Yes)
    BY <1>2, <2>3, <2>4, PrepareRun DEF q
  <2>6. \A k \in 0 .. 3 : NasLater(m, g[k])
    BY <2>5
  <2>7. nasUncut => Settled(g[3])
    <3>1. /\ g[3].nas.staged.samba4 = q /\ g[3].nas.file.samba4 = q
          /\ g[3].nas.staged.linkease = m.nas.staged.linkease /\ g[3].nas.live.linkease = m.nas.live.linkease
      BY <1>2, <2>5 DEF Smb, Machines, NasSides
    <3>2. nasUncut => Settled(m)
      BY DEF NasInv, m
    <3> QED BY <3>1, <3>2 DEF Settled, q
  <2>8. \A k \in 0 .. 3 : NasLater(nasMachine, g[k])
    BY <2>6 DEF m
  <2>9. g = NasRun(cmds)
    BY DEF g
  <2>10. Answers(NoNas, g[3])
    BY NoNasAnswers
  <2> QED BY <2>1, <2>2, <2>7, <2>8, <2>9, <2>10, ServeKeeps
<1>4. CASE CreateSambaUser(r) # <<>>
  <2> DEFINE cmds == Before(r) \o BuildSambaShareCommands(r)
             g == NasRun(cmds)
             a == Append(q, r)
             asked == [kind |-> "samba", r |-> r]
  <2>0. r.users = "u"
    BY <1>4, BeforeIs
  <2>1. /\ cmds[1] = NasCommit("samba4") /\ cmds[2] = NasRestart("samba4") /\ cmds[3] = RootCmd
        /\ cmds[4] = UserCmd /\ cmds[5] = AddCmd
        /\ cmds[6] = SmbFill(1, "name", r.name) /\ cmds[7] = SmbFill(1, "path", r.path)
        /\ cmds[8] = SmbFill(1, "users", r.users) /\ cmds[9] = NasCommit("samba4") /\ cmds[10] = NasRestart("samba4")
        /\ Len(cmds) = 10
    BY <1>4, ShareCommandsAre
  <2>2. ServeNas(cmds, asked, r, TRUE)
    BY <1>1, <1>4
  <2> HIDE DEF cmds
  <2>3. g[0] = m /\ \A k \in 1 .. 10 : g[k] = ExecNas(g[k - 1], cmds[k])
    <3>1. Len(cmds) = 10 /\ Len(cmds) \in Nat
      BY <2>1
    <3> QED BY <3>1, NasRunIs DEF m
  <2>4. Prepares(g)
    BY <2>1, <2>3 DEF Prepares
  <2>5. Creates(g, r)
    BY <2>1, <2>3 DEF Creates
  <2> HIDE DEF g
  <2>6. /\ \A k \in 0 .. 10 : NasLater(m, g[k])
        /\ g[10] = Smb(m, a, a, a, m.users \union {"u"}, Yes)
    BY <1>2, <2>0, <2>3, <2>4, <2>5, ShareRun, ZenonT(60) DEF q
  <2>7. r \in Shares0 /\ a \in Seq(Shares0) /\ Len(a) = Len(q) + 1 /\ a[Len(q) + 1] = r
    BY <1>2, <2>0, SharePartsAre
  <2>8. /\ g[10].nas.staged.samba4 = a /\ g[10].nas.file.samba4 = a /\ g[10].nas.live.samba4 = a
        /\ g[10].nas.staged.linkease = m.nas.staged.linkease /\ g[10].nas.live.linkease = m.nas.live.linkease
        /\ g[10].users = m.users \union {"u"} /\ g[10].rootOk = Yes
    <3> HIDE DEF a
    <3> DEFINE u == m.users \union {"u"}
    <3>1. g[10] = Smb(m, a, a, a, u, Yes)
      BY <2>6
    <3> HIDE DEF u
    <3>2. /\ g[10].nas.staged.samba4 = a /\ g[10].nas.file.samba4 = a /\ g[10].nas.live.samba4 = a
          /\ g[10].nas.staged.linkease = m.nas.staged.linkease /\ g[10].nas.live.linkease = m.nas.live.linkease
          /\ g[10].users = u /\ g[10].rootOk = Yes
      BY <1>2, <3>1, SmbFields
    <3> QED BY <3>2 DEF u
  <2>9. Held(g[10], r)
    <3>1. r \in Range(a)
      BY <1>2, <2>7 DEF Range
    <3> QED BY <2>0, <2>8, <3>1 DEF Held, Yes, NasServiceSambaStatus
  <2>10. nasUncut => Settled(g[10])
    <3> HAVE nasUncut
    <3>1. Settled(m)
      BY DEF NasInv, m
    <3>2. r # BlankSamba
      BY DEF ShareForms0, SmbNames, BlankSamba
    <3>3. \A sh \in Range(q) : sh.name # r.name
      <4> TAKE sh \in Range(q)
      <4>1. sh \in Range(m.nas.file.samba4)
        BY <3>1 DEF Settled, q
      <4>2. [name |-> sh.name, path |-> sh.path] \in NasServiceSambaStatus(nasMachine)
        BY <4>1 DEF NasServiceSambaStatus, m
      <4> QED BY <1>1, <4>2 DEF SambaShareExists
    <3>4. Named(a)
      BY <1>2, <2>7, <3>1, <3>2, <3>3, NamedAppend DEF Settled, q
    <3> QED BY <2>8, <3>1, <3>4 DEF Settled
  <2>11. \A k \in 0 .. 10 : NasLater(nasMachine, g[k])
    BY <2>6 DEF m
  <2>12. g = NasRun(cmds)
    BY DEF g
  <2>13. Answers(asked, g[10])
    BY DEF Answers
  <2> HIDE DEF asked
  <2> QED BY <2>1, <2>2, <2>9, <2>10, <2>11, <2>12, <2>13, ServeKeeps
<1> QED BY <1>3, <1>4

LEMMA BesideSettled ==
  ASSUME NEW m, NEW n, Settled(m)
  PROVE  /\ Beside(m, n, "gowebdav") => Settled(n)
         /\ Beside(m, n, "linkease") /\ n.nas.live.linkease => Settled(n)
<1>1. ASSUME Beside(m, n, "gowebdav") PROVE Settled(n)
  BY <1>1 DEF Beside, Settled, OtherThan
<1>2. ASSUME Beside(m, n, "linkease"), n.nas.live.linkease PROVE Settled(n)
  BY <1>2 DEF Beside, Settled
<1> QED BY <1>1, <1>2

LEMMA WebdavStep ==
  ASSUME NasInv, NasServiceWebdavCreate
  PROVE  NasInv'
<1> DEFINE m == nasMachine
           w == nas.staged.gowebdav
<1>1. PICK r \in WebForms2 :
        ServeNas(BuildWebdavConfigCommands(w, r) \o <<NasRestart("gowebdav")>>, [kind |-> "webdav", r |-> r], NoShare, TRUE)
  BY DEF NasServiceWebdavCreate, WebForms2
<1>2. Grown(m) /\ w \in WebForms
  BY DEF NasInv, Grown, Machines, NasSides, nasMachine
<1> DEFINE cmds == BuildWebdavConfigCommands(w, r) \o <<NasRestart("gowebdav")>>
           g == NasRun(cmds)
           asked == [kind |-> "webdav", r |-> r]
           z == AsAsked(r)
<1> HIDE DEF m, w
<1>3. /\ Len(cmds) = 5
      /\ \E x, y \in WebForms : cmds[1] = NasSet("gowebdav", x) /\ cmds[2] = NasSet("gowebdav", y)
      /\ cmds[3] = NasSet("gowebdav", z) /\ z \in WebForms
      /\ cmds[4] = NasCommit("gowebdav") /\ cmds[5] = NasRestart("gowebdav")
  BY <1>2, WebdavCommandsAre
<1>4. ServeNas(cmds, asked, NoShare, TRUE)
  BY <1>1
<1> HIDE DEF cmds
<1>5. PICK x \in WebForms, y \in WebForms : cmds[1] = NasSet("gowebdav", x) /\ cmds[2] = NasSet("gowebdav", y)
  BY <1>3
<1>6. g[0] = m /\ \A k \in 1 .. 5 : g[k] = ExecNas(g[k - 1], cmds[k])
  <2>1. Len(cmds) = 5 /\ Len(cmds) \in Nat
    BY <1>3
  <2> QED BY <2>1, NasRunIs DEF m
<1> HIDE DEF z
<1>7. /\ g[1] = ExecNas(g[0], NasSet("gowebdav", x)) /\ g[2] = ExecNas(g[1], NasSet("gowebdav", y))
      /\ g[3] = ExecNas(g[2], NasSet("gowebdav", z)) /\ g[4] = ExecNas(g[3], NasCommit("gowebdav"))
      /\ g[5] = ExecNas(g[4], NasRestart("gowebdav"))
  BY <1>3, <1>5, <1>6
<1>8. g = NasRun(cmds) /\ z \in WebForms /\ Len(cmds) = 5
  BY <1>3
<1> HIDE DEF g
<1>9. /\ \A k \in 0 .. 5 : NasLater(m, g[k])
      /\ Beside(m, g[5], "gowebdav") /\ g[5].nas.live.gowebdav = z
  BY <1>2, <1>6, <1>7, <1>8, WebdavRun
<1>10. nasUncut => Settled(g[5])
  BY <1>9, BesideSettled DEF NasInv, m
<1>11. Answers(asked, g[5])
  BY <1>9 DEF Answers, z
<1>12. \A k \in 0 .. 5 : NasLater(nasMachine, g[k])
  BY <1>9 DEF m
<1> HIDE DEF asked
<1> QED BY <1>4, <1>8, <1>10, <1>11, <1>12, ServeKeeps

LEMMA LinkeaseStep ==
  ASSUME NasInv, NasServiceLinkeaseEnable
  PROVE  NasInv'
<1> DEFINE m == nasMachine
           asked == [kind |-> "linkease"]
<1>1. Grown(m) /\ nas.staged.linkease = m.nas.staged.linkease
  BY DEF NasInv, nasMachine
<1> HIDE DEF m
<1>2. CASE nas.staged.linkease
  <2> DEFINE cmds == <<>>
             g == NasRun(cmds)
  <2>1. ServeNas(cmds, asked, NoShare, FALSE)
    BY <1>2 DEF NasServiceLinkeaseEnable
  <2>2. Len(cmds) = 0 /\ Len(cmds) \in Nat
    OBVIOUS
  <2> HIDE DEF cmds
  <2>3. g[0] = m
    BY <2>2, NasRunIs DEF m
  <2>4. g = NasRun(cmds)
    OBVIOUS
  <2> HIDE DEF g
  <2>5. \A k \in 0 .. 0 : NasLater(nasMachine, g[k])
    BY <1>1, <2>3, NasLaterIs DEF m
  <2>6. nasUncut => Settled(g[0])
    BY <2>3 DEF NasInv, m
  <2>7. Answers(asked, g[0])
    BY <1>1, <1>2, <2>3, <2>6 DEF Answers, Settled
  <2> HIDE DEF asked
  <2> QED BY <2>1, <2>2, <2>4, <2>5, <2>6, <2>7, ServeKeeps
<1>3. CASE ~nas.staged.linkease
  <2> DEFINE cmds == EnableLinkease
             g == NasRun(cmds)
  <2>1. ServeNas(cmds, asked, NoShare, FALSE)
    BY <1>3 DEF NasServiceLinkeaseEnable
  <2>2. Len(cmds) = 3 /\ Len(cmds) \in Nat
    BY DEF EnableLinkease
  <2>3. cmds[1] = NasSet("linkease", TRUE) /\ cmds[2] = NasCommit("linkease") /\ cmds[3] = NasRestart("linkease")
    BY DEF EnableLinkease
  <2> HIDE DEF cmds
  <2>4. g[0] = m /\ \A k \in 1 .. 3 : g[k] = ExecNas(g[k - 1], cmds[k])
    BY <2>2, NasRunIs DEF m
  <2>5. g = NasRun(cmds)
    OBVIOUS
  <2> DEFINE v == TRUE
  <2>11. v \in BOOLEAN /\ cmds[1] = NasSet("linkease", v)
    BY <2>3
  <2> HIDE DEF g, v
  <2>6. /\ g[1] = ExecNas(g[0], NasSet("linkease", v)) /\ g[2] = ExecNas(g[1], NasCommit("linkease"))
        /\ g[3] = ExecNas(g[2], NasRestart("linkease"))
    BY <2>3, <2>4, <2>11
  <2>7. /\ \A k \in 0 .. 3 : NasLater(m, g[k])
        /\ Beside(m, g[3], "linkease") /\ g[3].nas.live.linkease = v
    BY <1>1, <2>4, <2>6, <2>11, LinkeaseRun
  <2>8. nasUncut => Settled(g[3])
    BY <2>7, BesideSettled DEF NasInv, m, v
  <2>9. Answers(asked, g[3])
    BY <2>7 DEF Answers, v
  <2>10. \A k \in 0 .. 3 : NasLater(nasMachine, g[k])
    BY <2>7 DEF m
  <2> HIDE DEF asked
  <2> QED BY <2>1, <2>2, <2>5, <2>8, <2>9, <2>10, ServeKeeps
<1> QED BY <1>2, <1>3

LEMMA NasStart == NasInit => NasInv
<1> SUFFICES ASSUME NasInit PROVE NasInv
  OBVIOUS
<1>1. PICK shares \in {<<>>, <<[name |-> "photos", path |-> "/mnt/b", users |-> "v"]>>} :
        nas = [file |-> NasSide(shares), staged |-> NasSide(shares), live |-> NasSide(shares)]
  BY DEF NasInit
<1>2. smbUsers = {} /\ rootOk = FALSE /\ nasUncut = TRUE /\ nasMade = {} /\ nasAsked = NoNas /\ nasCount = 0
  BY DEF NasInit, NasRest
<1>3. shares \in Seq(Shares0) /\ Named(shares)
  <2>1. CASE shares = <<>>
    BY <2>1 DEF Named
  <2>2. CASE shares = <<[name |-> "photos", path |-> "/mnt/b", users |-> "v"]>>
    <3> DEFINE x == [name |-> "photos", path |-> "/mnt/b", users |-> "v"]
    <3>1. x \in Shares0 /\ x # BlankSamba
      BY DEF Shares0, SmbNames, SmbPaths, BlankSamba
    <3> HIDE DEF x
    <3>2. shares = <<x>>
      BY <2>2 DEF x
    <3> QED BY <3>1, <3>2 DEF Named
  <2> QED BY <2>1, <2>2
<1>4. NasSide(shares) \in NasSides /\ NasSide(shares).samba4 = shares /\ NasSide(shares).linkease = FALSE
  BY <1>3 DEF NasSide, NasSides, WebForms
<1>5. Begins(shares, shares)
  BY <1>3, BeginsIs
<1>6. /\ nasMachine.nas.file = NasSide(shares) /\ nasMachine.nas.staged = NasSide(shares) /\ nasMachine.nas.live = NasSide(shares)
      /\ nasMachine \in Machines
  BY <1>1, <1>2, <1>4 DEF nasMachine, Machines
<1>7. Grown(nasMachine)
  BY <1>4, <1>5, <1>6 DEF Grown
<1>8. Settled(nasMachine)
  BY <1>3, <1>4, <1>6 DEF Settled
<1>9. NasAsAsked
  BY <1>2 DEF NasAsAsked, NoNas
<1> QED BY <1>2, <1>7, <1>8, <1>9, NasAssumption DEF NasInv

LEMMA NasInductive == NasInv /\ [NasNext]_nasVars => NasInv'
<1> SUFFICES ASSUME NasInv, [NasNext]_nasVars PROVE NasInv'
  OBVIOUS
<1>1. CASE NasServiceSambaCreate
  BY <1>1, SambaStep
<1>2. CASE NasServiceWebdavCreate
  BY <1>2, WebdavStep
<1>3. CASE NasServiceLinkeaseEnable
  BY <1>3, LinkeaseStep
<1>4. CASE UNCHANGED nasVars
  <2>1. nasMachine' = nasMachine
    BY <1>4 DEF nasVars, nasMachine
  <2> QED BY <1>4, <2>1 DEF nasVars, NasInv, NasAsAsked
<1> QED BY <1>1, <1>2, <1>3, <1>4 DEF NasNext

LEMMA NasInvCorrect == NasInv => NasCorrect
<1> SUFFICES ASSUME NasInv PROVE NasCorrect
  OBVIOUS
<1>1. /\ nasMachine \in Machines /\ nasMachine.nas = nas /\ nasMachine.users = smbUsers /\ nasMachine.rootOk = rootOk
  BY DEF NasInv, Grown, nasMachine
<1>2. nas \in [file : NasSides, staged : NasSides, live : NasSides] /\ smbUsers \subseteq {"u"} /\ rootOk \in BOOLEAN
  BY <1>1 DEF Machines
<1>3. ASSUME NEW side \in DOMAIN nas
      PROVE /\ \A sh \in Range(nas[side].samba4) :
                 sh.name \in SmbNames \union {"unset"} /\ sh.path \in SmbPaths \union {"unset"} /\ sh.users \in {"unset", "u", "v"}
            /\ nas[side].gowebdav \in [root : SmbPaths \union {"/mnt"}, enable : BOOLEAN, user : {"u", "v"}]
            /\ nas[side].linkease \in BOOLEAN
  <2>1. nas[side] \in NasSides
    BY <1>2
  <2>2. nas[side].samba4 \in Seq(Shares0) /\ nas[side].gowebdav \in WebForms /\ nas[side].linkease \in BOOLEAN
    BY <2>1 DEF NasSides
  <2>3. \A sh \in Range(nas[side].samba4) : sh \in Shares0
    BY <2>2 DEF Range
  <2> QED BY <2>2, <2>3 DEF Shares0, WebForms
<1>4. NasTypeOK
  BY <1>2, <1>3 DEF NasTypeOK, NasInv
<1>5. SambaKept
  BY <1>1 DEF SambaKept, NasInv, Held
<1>6. SmbNamesUnique
  BY <1>1 DEF SmbNamesUnique, NasInv, Settled, Named
<1> QED BY <1>4, <1>5, <1>6 DEF NasCorrect, NasInv

\* A share whose creation ran to its end stays as it was made, served, listed and open to
\* its account, whatever requests come after it and wherever they are cut off
\* (serviceconfig/service.go runs one "uci batch" and a restart after another); while none
\* has been cut off the names of the shares differ and none is left half written; WebDAV
\* and LinkEase run as the last request set them up.
THEOREM NasServicesCorrect == NasServicesSpec => []NasCorrect
<1>1. NasInit => NasInv
  BY NasStart
<1>2. NasInv /\ [NasNext]_nasVars => NasInv'
  BY NasInductive
<1>3. NasInv => NasCorrect
  BY NasInvCorrect
<1> QED BY <1>1, <1>2, <1>3, PTL DEF NasServicesSpec
=============================================================================
