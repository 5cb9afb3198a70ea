----------------------------- MODULE MCStorageLan -----------------------------
(***************************************************************************)
(* The disks and the addresses of the LAN: the system disk and two others, *)
(* and two devices whose automatic tags are written out.  The two parts    *)
(* share nothing, so a behaviour is one of one part, and the other stands  *)
(* still.  A behaviour of the LAN has tags of the user or a float gateway, *)
(* not both: the user's tags are never cleaned up with the automatic ones. *)
(***************************************************************************)
EXTENDS Storage, MCLanDhcp

MCMds == 0 .. 2
MCFreeRegions == {<<34, 300>>, <<2050, 9000>>}

VARIABLE part  \* the part that is used

StorageIdle == StorageInit /\ sys.fstab.file = {} /\ offer = "disks"

StorageLanInit ==
  /\ part \in {"storage", "tags", "float"}
  /\ IF part = "storage" THEN StorageInit ELSE StorageIdle
  /\ Init

StorageStep == part = "storage" /\ StorageNext /\ UNCHANGED <<part, vars>>
LanStep ==
  /\ \E r \in Reqs : \/ part \in {"tags", "float"} /\ Common(r)
                     \/ part = "tags" /\ SetDhcpTags(r)
                     \/ part = "float" /\ SetFloatGateway(r)
  /\ UNCHANGED <<part, storageVars>>

StorageLanNext == StorageStep \/ LanStep

StorageLanSpec == StorageLanInit /\ [][StorageLanNext]_<<part, storageVars, vars>>
==============================================================================
