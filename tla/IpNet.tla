------------------------------- MODULE IpNet -------------------------------
(***************************************************************************)
(* IPv4 networks as the Go code uses them: a net.IPNet is an address and a *)
(* prefix length, and the only question ever asked of it is Contains.      *)
(*                                                                         *)
(* Block(a, p) is the set of addresses that agree with a on the first p    *)
(* bits.  It stays a parameter: what the planners rely on is only that the *)
(* blocks of one length partition the address space and that a longer      *)
(* prefix refines a shorter one, which BlockAssumption states.  MC modules *)
(* give it the arithmetic definition on a few bits.                        *)
(***************************************************************************)
EXTENDS Naturals

CONSTANTS Addr,        \* the IPv4 addresses
          Prefix,      \* the prefix lengths (contiguous netmasks)
          Block(_, _)  \* Block(a, p): the addresses in a/p

ASSUME BlockAssumption ==
  /\ Prefix \subseteq Nat
  /\ \A a \in Addr, p \in Prefix :
        /\ a \in Block(a, p)
        /\ Block(a, p) \subseteq Addr
        /\ \A b \in Block(a, p) : Block(b, p) = Block(a, p)
        /\ \A q \in Prefix : p <= q => Block(a, q) \subseteq Block(a, p)

\* net.IPNet as configured: the host's own address and its netmask.
IPNet == [ip : Addr, len : Prefix]

\* func (n *net.IPNet) Contains(ip)
NetContains(net, ip) == ip \in Block(net.ip, net.len)

\* The test both planners use: either network contains the other's address.
Overlaps(net1, net2) == NetContains(net1, net2.ip) \/ NetContains(net2, net1.ip)

=============================================================================
