------------------------------- MODULE DiskData -------------------------------
(***************************************************************************)
(* What the storage requests promise about data: a file system that is in  *)
(* use is never made anew or wiped, and the overlay of the root file       *)
(* system is taken out of use by a reboot only.                            *)
(***************************************************************************)
CONSTANT Devices

VARIABLES data,   \* the file system on a device
          inUse,  \* the devices that are mounted
          overlay \* the device that is the overlay

Init == data \in [Devices -> {"none", "ext4"}] /\ overlay \in inUse /\ inUse \subseteq Devices

\* Mounting and unmounting.
Use == /\ inUse' \subseteq Devices
       /\ overlay \in inUse'
       /\ UNCHANGED <<data, overlay>>

\* Making file systems and wiping them.
Write == /\ data' \in [Devices -> {"none", "ext4"}]
         /\ \A d \in inUse : data'[d] = data[d]
         /\ UNCHANGED <<inUse, overlay>>

Reboot == /\ inUse' \subseteq Devices
          /\ overlay' \in inUse'
          /\ UNCHANGED data

Next == Use \/ Write \/ Reboot

Spec == Init /\ [][Next]_<<data, inUse, overlay>>
=============================================================================
