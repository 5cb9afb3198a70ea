---------------------------- MODULE MCDhnsRecovery ----------------------------
(* DhnsRecovery on 3-bit addresses, with the networks that matter. *)
EXTENDS DhnsRecovery, TLC

MCAddr == 0 .. 7
MCPrefix == 1 .. 2
MCBlock(a, p) == LET size == 2^(3 - p)
                 IN  {b \in MCAddr : b \div size = a \div size}
MCIp1 == 2
MCIp2 == 5

Net(ip, len) == [ip |-> ip, len |-> len]
Lan(proto, gateway, ip, len, cidr) ==
  [proto |-> proto, gateway |-> gateway, ip |-> ip, len |-> len, cidr |-> cidr]

\* A WAN that contains the LAN and the first spare address: the LAN moves to
\* the second.
NearWan == {Net(3, 1)}

PlainLan == Lan("static", FALSE, 0, 2, FALSE)
LanBehindGateway == Lan("static", TRUE, 0, 2, FALSE)

OneLan == {PlainLan}
TwoLans == {PlainLan, LanBehindGateway}

GoodLease == [valid |-> TRUE, net |-> Net(6, 2)]
ClashingLease == [valid |-> TRUE, net |-> Net(0, 2)]

OneLease == {GoodLease}
TwoLeases == {GoodLease, ClashingLease}

Symmetry == Permutations(Workers) \union Permutations(Waiters)
=============================================================================
