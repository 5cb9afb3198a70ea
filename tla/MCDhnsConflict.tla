---------------------------- MODULE MCDhnsConflict ----------------------------
(* DhnsConflict on addresses of Bits bits. *)
EXTENDS DhnsConflict

CONSTANT Bits

MCAddr == 0 .. 2^Bits - 1
MCPrefix == 0 .. Bits
MCBlock(a, p) == LET size == 2^(Bits - p)
                 IN  {b \in MCAddr : b \div size = a \div size}
MCIp1 == 2
MCIp2 == 5
=============================================================================
