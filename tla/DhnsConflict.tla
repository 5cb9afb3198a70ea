----------------------------- MODULE DhnsConflict -----------------------------
(***************************************************************************)
(* WAN/LAN address conflicts: whenever the WAN is up and the LAN is plain  *)
(* static, a recovery pass compares the two networks and, when they        *)
(* overlap, moves the LAN to a spare address and reloads the network,      *)
(* which in turn produces an event and another pass                        *)
(* (dhnsConflictWanAndLan, backend/service/dhns.go).  The pass is one step *)
(* here; DhnsRecovery has its interleavings.                               *)
(***************************************************************************)
EXTENDS DhnsPlan

VARIABLES wan,    \* the WAN network, up with any address and mask
          lan,    \* the lan section of /etc/config/network
          fresh   \* history: a pass ran since wan or lan was last changed by others

conflictVars == <<wan, lan, fresh>>

\* A LAN that needs no helper: static, no gateway behind it.
StaticLan == [proto : {"static"}, gateway : {FALSE},
              ip : Addr, len : Prefix, cidr : BOOLEAN]

ConflictTypeOK ==
  /\ wan \in IPNet
  /\ lan \in [proto : {"static"}, gateway : {FALSE},
              ip : Addr, len : Prefix \union {NoMask}, cidr : BOOLEAN]
  /\ fresh \in BOOLEAN

ConflictInit ==
  /\ wan \in IPNet
  /\ lan \in StaticLan
  /\ fresh = FALSE

\* The WAN gets another address.
WanLease ==
  /\ \E net \in IPNet : wan' = net
  /\ fresh' = FALSE
  /\ UNCHANGED lan

\* The user gives the LAN another static address, in either notation.
LanEdit ==
  /\ \E conf \in StaticLan : lan' = conf
  /\ fresh' = FALSE
  /\ UNCHANGED wan

\* dhnsConflictWanAndLan on the sections just collected.  The answer to
\* "is the LAN's DHCP server off" plays no part in the edit.
dhnsConflictWanAndLan ==
  /\ CollectLan(lan) # NoSec
  /\ \E lanDHCPDisabled \in BOOLEAN :
       LET plan == PlanWANLANConflict(wan, CollectLan(lan), lanDHCPDisabled)
       IN  lan' = IF plan.newIP = NoIP THEN lan ELSE SetIpaddr(lan, plan.newIP)
  /\ fresh' = TRUE
  /\ UNCHANGED wan

ConflictNext == WanLease \/ LanEdit \/ dhnsConflictWanAndLan

ConflictSpec == ConflictInit /\ [][ConflictNext]_conflictVars

-----------------------------------------------------------------------------
LanNet == [ip |-> lan.ip, len |-> lan.len]

\* After a pass the WAN and the LAN overlap only when neither spare address
\* is free of both networks: moving the LAN never lands it in another
\* overlap, whatever the two masks are (NoConflictIP tests the spare address
\* only, not the network the LAN will have around it).
ConflictResolved ==
  (fresh /\ CollectLan(lan) # NoSec /\ Overlaps(wan, LanNet))
    => NoConflictIP(wan, LanNet) = NoIP

\* Every edit reloads the network and so causes another pass: a pass that
\* follows a pass with nothing in between edits nothing, or the two would
\* feed each other for ever.
NoEditLoop == [][fresh /\ fresh' => lan' = lan]_conflictVars

\* The section the worker edits is one it collects again: a LAN it moved is
\* still there for the next pass.
LanStaysVisible == CollectLan(lan) # NoSec

=============================================================================
