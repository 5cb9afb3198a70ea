--------------------------- MODULE DhnsHelperProofs ---------------------------
(***************************************************************************)
(* The DHNS helper's two parts that stand by themselves: the address plan  *)
(* that keeps WAN, LAN and helper apart, and the reverse tunnel to it.     *)
(*                                                                         *)
(* The addresses: what DhnsConflict's runs check on 3-bit addresses is     *)
(* proved for every address space, every set of prefix lengths and every   *)
(* pair of spare addresses.  The argument uses only BlockAssumption:       *)
(* blocks of one length partition the addresses, and a longer prefix       *)
(* refines a shorter one.                                                  *)
(*                                                                         *)
(* The tunnel: its control connection and its connection bus, for any      *)
(* number of connections, dials and failures.                              *)
(***************************************************************************)
EXTENDS DhnsConflict, DhnsTunnel, DataLemmas

-----------------------------------------------------------------------------
(* The addresses                                                           *)

\* If the WAN and the LAN overlap and ip lies outside both, then the LAN's
\* mask put around ip does not overlap the WAN.
LEMMA MovedNetIsDisjoint ==
  ASSUME NEW w \in IPNet, NEW n \in IPNet, NEW ip \in Addr,
         Overlaps(w, n), ~NetContains(w, ip), ~NetContains(n, ip)
  PROVE  ~Overlaps(w, [ip |-> ip, len |-> n.len])
<1> DEFINE W == Block(w.ip, w.len)
           L == Block(n.ip, n.len)
           M == Block(ip, n.len)
<1>0. /\ w.ip \in Addr /\ w.len \in Prefix /\ w.len \in Nat
      /\ n.ip \in Addr /\ n.len \in Prefix /\ n.len \in Nat
  BY BlockAssumption DEF IPNet
<1>1. ip \notin W /\ ip \notin L
  BY DEF NetContains
<1>2. n.ip \in W \/ w.ip \in L
  BY DEF Overlaps, NetContains
<1>3. SUFFICES ASSUME w.ip \in M PROVE FALSE
  BY <1>1 DEF Overlaps, NetContains
<1>4. Block(w.ip, n.len) = M
  BY <1>0, <1>3, BlockAssumption
<1>5. ip \in M
  BY <1>0, BlockAssumption
<1>6. CASE w.ip \in L
  <2>1. Block(w.ip, n.len) = L
    BY <1>0, <1>6, BlockAssumption
  <2> QED BY <2>1, <1>4, <1>5, <1>1
<1>7. CASE n.ip \in W /\ w.len <= n.len
  <2>1. Block(w.ip, n.len) \subseteq W
    BY <1>0, <1>7, BlockAssumption
  <2> QED BY <2>1, <1>4, <1>5, <1>1
<1>8. CASE n.ip \in W /\ n.len <= w.len
  <2>1. W \subseteq Block(w.ip, n.len)
    BY <1>0, <1>8, BlockAssumption
  <2>2. n.ip \in M
    BY <2>1, <1>8, <1>4
  <2>3. L = M
    BY <2>2, <1>0, BlockAssumption
  <2> QED BY <2>3, <1>5, <1>1
<1>9. w.len <= n.len \/ n.len <= w.len
  BY <1>0
<1> QED BY <1>2, <1>6, <1>7, <1>8, <1>9

\* NoConflictIP answers with an address outside both networks or with none.
LEMMA NoConflictIPSound ==
  ASSUME NEW w, NEW n, NoConflictIP(w, n) # NoIP
  PROVE  /\ NoConflictIP(w, n) \in Addr
         /\ ~NetContains(w, NoConflictIP(w, n))
         /\ ~NetContains(n, NoConflictIP(w, n))
BY SpareAssumption DEF NoConflictIP

\* What a pass does to a plain static LAN: nothing when the networks are
\* apart or no spare address is free, and otherwise the move.
LEMMA PassEffect ==
  ASSUME ConflictTypeOK, dhnsConflictWanAndLan
  PROVE  /\ CollectLan(lan) # NoSec
         /\ LanNet \in IPNet
         /\ wan' = wan /\ wan \in IPNet
         /\ \/ /\ ~Overlaps(wan, LanNet) \/ NoConflictIP(wan, LanNet) = NoIP
               /\ lan' = lan
            \/ /\ Overlaps(wan, LanNet)
               /\ NoConflictIP(wan, LanNet) # NoIP
               /\ lan' = SetIpaddr(lan, NoConflictIP(wan, LanNet))
<1>1. CollectLan(lan) # NoSec /\ wan' = wan /\ wan \in IPNet
  BY DEF dhnsConflictWanAndLan, ConflictTypeOK
<1>2. LanNet \in IPNet
  BY <1>1 DEF ConflictTypeOK, CollectLan, LanNet, IPNet
<1>3. /\ CollectLan(lan).net = LanNet
      /\ ~lanNeedsDHNS(CollectLan(lan))
  BY <1>1 DEF ConflictTypeOK, CollectLan, LanNet, lanNeedsDHNS
<1>4. ASSUME NEW d \in BOOLEAN
      PROVE  PlanWANLANConflict(wan, CollectLan(lan), d).newIP
               = IF Overlaps(wan, LanNet) THEN NoConflictIP(wan, LanNet) ELSE NoIP
  BY <1>3 DEF PlanWANLANConflict
<1> QED BY <1>1, <1>2, <1>4 DEF dhnsConflictWanAndLan

\* The state variables keep the types the code gives them.
THEOREM TypeCorrect == ConflictSpec => []ConflictTypeOK
<1>1. ConflictInit => ConflictTypeOK
  BY DEF ConflictInit, ConflictTypeOK, StaticLan
<1>2. ConflictTypeOK /\ [ConflictNext]_conflictVars => ConflictTypeOK'
  <2> SUFFICES ASSUME ConflictTypeOK, [ConflictNext]_conflictVars PROVE ConflictTypeOK'
    OBVIOUS
  <2>1. CASE WanLease
    BY <2>1 DEF WanLease, ConflictTypeOK
  <2>2. CASE LanEdit
    BY <2>2 DEF LanEdit, StaticLan, ConflictTypeOK
  <2>3. CASE dhnsConflictWanAndLan
    <3>1. fresh' \in BOOLEAN /\ wan' \in IPNet
      BY <2>3, PassEffect DEF dhnsConflictWanAndLan
    <3>2. CASE lan' = lan
      BY <3>1, <3>2 DEF ConflictTypeOK
    <3>3. CASE /\ NoConflictIP(wan, LanNet) # NoIP
               /\ lan' = SetIpaddr(lan, NoConflictIP(wan, LanNet))
      BY <3>1, <3>3, NoConflictIPSound DEF SetIpaddr, ConflictTypeOK
    <3> QED BY <2>3, <3>2, <3>3, PassEffect
  <2>4. CASE UNCHANGED conflictVars
    BY <2>4 DEF conflictVars, ConflictTypeOK
  <2> QED BY <2>1, <2>2, <2>3, <2>4 DEF ConflictNext
<1> QED BY <1>1, <1>2, PTL DEF ConflictSpec

\* A pass (dhnsConflictWanAndLan) never leaves an overlap it had a spare
\* address for.
LEMMA PassResolves ==
  ASSUME ConflictTypeOK, dhnsConflictWanAndLan
  PROVE  ConflictResolved'
<1>1. CASE lan' = lan /\ (~Overlaps(wan, LanNet) \/ NoConflictIP(wan, LanNet) = NoIP)
  BY <1>1, PassEffect DEF ConflictResolved, LanNet
<1>2. CASE /\ Overlaps(wan, LanNet)
           /\ NoConflictIP(wan, LanNet) # NoIP
           /\ lan' = SetIpaddr(lan, NoConflictIP(wan, LanNet))
  <2> DEFINE ip == NoConflictIP(wan, LanNet)
  <2>1. ip \in Addr /\ ~NetContains(wan, ip) /\ ~NetContains(LanNet, ip)
    BY <1>2, NoConflictIPSound
  <2> HIDE DEF ip
  <2>2. ~Overlaps(wan, [ip |-> ip, len |-> LanNet.len])
    BY <1>2, <2>1, PassEffect, MovedNetIsDisjoint
  <2>3. SUFFICES ASSUME CollectLan(lan') # NoSec PROVE ~Overlaps(wan', LanNet')
    BY DEF ConflictResolved
  <2>4. LanNet' = [ip |-> ip, len |-> LanNet.len]
    BY <1>2, <2>3 DEF SetIpaddr, CollectLan, LanNet, ip
  <2> QED BY <2>2, <2>4, PassEffect
<1> QED BY <1>1, <1>2, PassEffect

\* Moving the LAN away from the WAN (dhnsConflictWanAndLan) always settles
\* the conflict when it can be settled, for every pair of masks.
THEOREM ConflictsResolved == ConflictSpec => []ConflictResolved
<1>1. ConflictInit => ConflictResolved
  BY DEF ConflictInit, ConflictResolved
<1>2. ConflictTypeOK /\ ConflictResolved /\ [ConflictNext]_conflictVars => ConflictResolved'
  <2> SUFFICES ASSUME ConflictTypeOK, ConflictResolved, [ConflictNext]_conflictVars PROVE ConflictResolved'
    OBVIOUS
  <2>1. CASE WanLease \/ LanEdit
    BY <2>1 DEF WanLease, LanEdit, ConflictResolved
  <2>2. CASE dhnsConflictWanAndLan
    BY <2>2, PassResolves
  <2>3. CASE UNCHANGED conflictVars
    BY <2>3 DEF conflictVars, ConflictResolved, LanNet
  <2> QED BY <2>1, <2>2, <2>3 DEF ConflictNext
<1> QED BY <1>1, <1>2, TypeCorrect, PTL DEF ConflictSpec

\* The reload an edit causes is the last: two passes in a row
\* (dhnsConflictWanAndLan) never both edit the LAN.
THEOREM EditsDoNotLoop == ConflictSpec => NoEditLoop
<1>1. ConflictTypeOK /\ ConflictResolved /\ [ConflictNext]_conflictVars => [fresh /\ fresh' => lan' = lan]_conflictVars
  <2> SUFFICES ASSUME ConflictTypeOK, ConflictResolved, ConflictNext, fresh, fresh'
               PROVE  lan' = lan
    BY DEF conflictVars
  <2>1. dhnsConflictWanAndLan
    BY DEF ConflictNext, WanLease, LanEdit
  <2>2. ~Overlaps(wan, LanNet) \/ NoConflictIP(wan, LanNet) = NoIP
    BY <2>1, PassEffect DEF ConflictResolved
  <2> QED BY <2>1, <2>2, PassEffect
<1> QED BY <1>1, TypeCorrect, ConflictsResolved, PTL DEF ConflictSpec, NoEditLoop

-----------------------------------------------------------------------------
(* The tunnel: the control connection                                      *)

Attached ==
  /\ lastConn \in Conns \union {NoConn} /\ cli \in Conns \union {NoConn}
  /\ sock \in [Conns -> {"free", "open", "gone", "closed"}]
  /\ reader \in [Conns -> {"none", "reading", "ponging"}]
  /\ breaks \in Nat
  /\ AttachedIsServed

\* The steps that leave the control connections alone.
LEMMA OtherSteps ==
  ASSUME [Next]_vars
  PROVE  \/ UNCHANGED <<lastConn, cli, sock, reader, breaks>>
         \/ \E c \in Conns : \/ ReadFail(c) \/ PutPong(c) \/ WritePong(c)
                             \/ WriteNewConn(c) \/ ReadPing(c) \/ Connect(c) \/ Reuse(c)
         \/ ClientEOF \/ ClientBreak \/ ServerBreak
<1>1. ASSUME NEW d \in Dials, Dial(d) \/ DialStep(d) \/ PutDhnsConn(d) \/ ProxyFails(d)
      PROVE  UNCHANGED <<lastConn, cli, sock, reader, breaks>>
  BY <1>1 DEF Dial, DialStep, connItemRegist, SendNewConn, DialReturn, PutDhnsConn,
              ProxyFails, connVars
<1>2. BusTick \/ BusRegist \/ BusNotify \/ UNCHANGED vars
        => UNCHANGED <<lastConn, cli, sock, reader, breaks>>
  BY DEF BusTick, BusRegist, BusNotify, vars, connVars
<1> QED BY <1>1, <1>2 DEF Next, Server

\* closeConn only ever detaches the connection it is called for, and closes
\* it when it does.
LEMMA CloseConnEffect ==
  ASSUME NEW c \in Conns, closeConn(c), Attached
  PROVE  \/ /\ lastConn = c /\ lastConn' = NoConn
            /\ sock' = [sock EXCEPT ![c] = "closed"]
         \/ lastConn # c /\ lastConn' = lastConn /\ sock' = sock
BY DEF closeConn

\* Every step keeps the attached connection served.
LEMMA AttachedInductive ==
  ASSUME Attached, [Next]_vars
  PROVE  Attached'
<1> USE TunnelAssumption DEF Attached, AttachedIsServed
<1>1. CASE UNCHANGED <<lastConn, cli, sock, reader, breaks>>
  BY <1>1
<1>2. ASSUME NEW c \in Conns, ReadFail(c) PROVE Attached'
  <2>1. closeConn(c) /\ UNCHANGED <<cli, breaks>>
        /\ reader' = [reader EXCEPT ![c] = "none"]
    BY <1>2 DEF ReadFail
  <2> QED BY <2>1, CloseConnEffect
<1>3. ASSUME NEW c \in Conns, PutPong(c) \/ ReadPing(c) PROVE Attached'
  BY <1>3 DEF PutPong, ReadPing
<1>4. ASSUME NEW c \in Conns, WritePong(c) \/ WriteNewConn(c) PROVE Attached'
  <2>1. Written(c) /\ UNCHANGED <<reader, cli, breaks>>
    BY <1>4 DEF WritePong, WriteNewConn
  <2>2. UNCHANGED <<lastConn, sock>> \/ closeConn(c)
    BY <2>1 DEF Written
  <2> QED BY <2>1, <2>2, CloseConnEffect
<1>5. ASSUME NEW c \in Conns, Connect(c) PROVE Attached'
  BY <1>5 DEF Connect
<1>6. ASSUME NEW c \in Conns, Reuse(c) PROVE Attached'
  BY <1>6 DEF Reuse
<1>7. CASE ClientEOF
  BY <1>7 DEF ClientEOF
<1>8. CASE ClientBreak
  <2>1. /\ cli \in Conns /\ cli' = NoConn /\ UNCHANGED <<lastConn, reader>>
        /\ sock' = [sock EXCEPT ![cli] = IF sock[cli] = "open" THEN "gone" ELSE sock[cli]]
        /\ breaks' \in Nat
    BY <1>8 DEF ClientBreak
  <2> QED BY <2>1
<1>9. CASE ServerBreak
  <2>1. PICK c \in Conns : closeConn(c) /\ reader' = [reader EXCEPT ![c] = "none"]
    BY <1>9 DEF ServerBreak
  <2>2. cli' = cli /\ breaks' \in Nat
    BY <1>9 DEF ServerBreak
  <2> QED BY <2>1, <2>2, CloseConnEffect
<1> QED BY <1>1, <1>2, <1>3, <1>4, <1>5, <1>6, <1>7, <1>8, <1>9, OtherSteps

\* HandleConn never has a dead connection attached, so a helper that comes
\* back is not turned away for longer than the reader needs to notice.
THEOREM AttachedConnIsServed == Spec => []AttachedIsServed
<1>1. Init => Attached
  BY DEF Init, Attached, AttachedIsServed
<1>2. Attached /\ [Next]_vars => Attached'
  BY AttachedInductive
<1>3. Attached => AttachedIsServed
  BY DEF Attached
<1> QED BY <1>1, <1>2, <1>3, PTL DEF Spec

\* closeConn, run by leftovers of earlier connections at any time, never
\* takes a healthy connection down.
THEOREM HealthyConnStays == Spec => HealthyStaysAttached
<1> DEFINE Keep == lastConn # NoConn /\ sock[lastConn] = "open" /\ lastConn' # lastConn
                     => breaks' > breaks
<1>1. Attached /\ [Next]_vars => [Keep]_vars
  <2> SUFFICES ASSUME Attached, [Next]_vars,
                      lastConn # NoConn, sock[lastConn] = "open", lastConn' # lastConn
               PROVE  breaks' > breaks
    OBVIOUS
  <2>1. ASSUME NEW c \in Conns, ReadFail(c) PROVE FALSE
    <3>1. closeConn(c) /\ sock[c] # "open"
      BY <2>1 DEF ReadFail
    <3> QED BY <3>1, CloseConnEffect
  <2>2. ASSUME NEW c \in Conns, WritePong(c) \/ WriteNewConn(c) PROVE FALSE
    <3>1. Written(c)
      BY <2>2 DEF WritePong, WriteNewConn
    <3>2. lastConn' = lastConn \/ (closeConn(c) /\ sock[c] # "open")
      BY <3>1 DEF Written
    <3> QED BY <3>2, CloseConnEffect
  <2>3. ASSUME NEW c \in Conns, PutPong(c) \/ ReadPing(c) \/ Connect(c) \/ Reuse(c)
        PROVE  FALSE
    BY <2>3 DEF PutPong, ReadPing, Connect, Reuse
  <2>4. ~ClientEOF
    BY DEF ClientEOF
  <2>5. ClientBreak \/ ServerBreak => breaks' > breaks
    BY DEF ClientBreak, ServerBreak, Attached
  <2> QED BY <2>1, <2>2, <2>3, <2>4, <2>5, OtherSteps
<1>2. Init => Attached
  BY DEF Init, Attached, AttachedIsServed
<1>3. Attached /\ [Next]_vars => Attached'
  BY AttachedInductive
<1> QED BY <1>1, <1>2, <1>3, PTL DEF Spec, HealthyStaysAttached, Keep

-----------------------------------------------------------------------------
(* The bus.  An id is in each queue at most once, so that a queue is known *)
(* by the set of its ids, and where an id is says how far its dial is.     *)

Once(s) == \A i, j \in 1 .. Len(s) : s[i] = s[j] => i = j

\* Where an id is: it is registered before it is listed and listed before it
\* is closed, its answer is in at most one place, and one that is not listed
\* has no age.
Whereabouts ==
  \A d \in Dials :
    /\ pc[d] \in {"idle", "regist"}
         => d \notin Elems(regist) /\ d \notin busMap /\ closes[d] = 0
    /\ pc[d] \in {"idle", "regist", "write"} => d \notin Elems(writeMsg) /\ proxy[d] = "none"
    /\ d \in Elems(regist) => d \notin busMap
    /\ d \notin busMap => age[d] = 0
    /\ d \in Elems(notify) <=> proxy[d] = "notify"
    /\ d \in Elems(writeMsg) => proxy[d] = "none"
    /\ pc[d] = "eof" => closes[d] > 0

BusInv ==
  /\ TypeOK /\ ItemClosedOnce /\ ListByAge /\ NoParkedOrphan /\ Whereabouts
  /\ Once(regist) /\ Once(notify) /\ Once(busList) /\ Once(writeMsg)

\* The end of a queue.
LEMMA OnceAppend ==
  ASSUME NEW S, NEW s \in Seq(S), NEW e \in S, Once(s), e \notin Elems(s)
  PROVE  /\ Append(s, e) \in Seq(S) /\ Len(Append(s, e)) = Len(s) + 1
         /\ Once(Append(s, e)) /\ Elems(Append(s, e)) = Elems(s) \union {e}
<1> DEFINE t == Append(s, e)
<1>1. /\ t \in Seq(S) /\ Len(t) = Len(s) + 1 /\ t[Len(s) + 1] = e
      /\ \A i \in 1 .. Len(s) : t[i] = s[i]
  BY AppendProperties
<1> HIDE DEF t
<1>2. Once(t)
  BY <1>1 DEF Once, Elems
<1>3. Elems(t) = Elems(s) \union {e}
  BY <1>1 DEF Elems
<1> QED BY <1>1, <1>2, <1>3 DEF t

\* Its first k.
Firsts(s, k) == {s[i] : i \in 1 .. k}

\* Its rest, past the first k.
LEMMA OnceDrop ==
  ASSUME NEW S, NEW s \in Seq(S), Once(s), NEW k \in 0 .. Len(s),
         NEW t, t = SubSeq(s, k + 1, Len(s))
  PROVE  /\ t \in Seq(S) /\ Len(t) = Len(s) - k /\ Once(t)
         /\ \A i \in 1 .. Len(t) : t[i] = s[i + k]
<1>1. /\ t \in Seq(S) /\ Len(t) = Len(s) - k
      /\ \A i \in 1 .. Len(t) : t[i] = s[i + k]
  <2>1. \A i \in k + 1 .. Len(s) : s[i] \in S
    OBVIOUS
  <2>2. k + 1 \in Int /\ Len(s) \in Int
    OBVIOUS
  <2> QED BY <2>1, <2>2, SubSeqProperties
<1>2. Once(t)
  <2> SUFFICES ASSUME NEW i \in 1 .. Len(t), NEW j \in 1 .. Len(t), t[i] = t[j]
               PROVE  i = j
    BY DEF Once
  <2>1. i + k \in 1 .. Len(s) /\ j + k \in 1 .. Len(s) /\ s[i + k] = s[j + k]
    BY <1>1
  <2>2. i + k = j + k
    BY <2>1 DEF Once
  <2> QED BY <2>2
<1> QED BY <1>1, <1>2

\* What it holds.
LEMMA OnceDropElems ==
  ASSUME NEW S, NEW s \in Seq(S), Once(s), NEW k \in 0 .. Len(s),
         NEW t, t = SubSeq(s, k + 1, Len(s))
  PROVE  Elems(t) = Elems(s) \ Firsts(s, k)
<1>1. Len(t) = Len(s) - k /\ \A i \in 1 .. Len(t) : t[i] = s[i + k]
  BY OnceDrop
<1>2. ASSUME NEW i \in 1 .. Len(t) PROVE t[i] \in Elems(s) \ Firsts(s, k)
  <2>1. /\ i + k \in 1 .. Len(s) /\ t[i] = s[i + k]
        /\ \A j \in 1 .. k : j # i + k /\ j \in 1 .. Len(s)
    BY <1>1, <1>2
  <2> QED BY <2>1 DEF Elems, Once, Firsts
<1>3. ASSUME NEW i \in 1 .. Len(s), i \notin 1 .. k PROVE s[i] \in Elems(t)
  <2>1. i - k \in 1 .. Len(t) /\ t[i - k] = s[i]
    BY <1>1, <1>3
  <2> QED BY <2>1 DEF Elems
<1> QED BY <1>2, <1>3, ZenonT(60) DEF Elems, Firsts

\* What is left when its head is taken.
LEMMA OnceTail ==
  ASSUME NEW S, NEW s \in Seq(S), Once(s), s # <<>>, NEW t, t = Tail(s)
  PROVE  /\ t \in Seq(S) /\ Len(t) = Len(s) - 1 /\ Once(t)
         /\ Head(s) \in S /\ Head(s) \in Elems(s)
         /\ Elems(t) = Elems(s) \ {Head(s)}
<1>1. /\ t \in Seq(S) /\ Len(s) \in Nat \ {0} /\ Len(t) = Len(s) - 1
      /\ \A i \in 1 .. Len(t) : t[i] = s[i + 1]
      /\ Head(s) = s[1] /\ Head(s) \in S
  BY HeadTailProperties
<1>2. Once(t)
  <2> SUFFICES ASSUME NEW i \in 1 .. Len(t), NEW j \in 1 .. Len(t), t[i] = t[j]
               PROVE  i = j
    BY DEF Once
  <2>1. i + 1 \in 1 .. Len(s) /\ j + 1 \in 1 .. Len(s) /\ s[i + 1] = s[j + 1]
    BY <1>1
  <2>2. i + 1 = j + 1
    BY <2>1 DEF Once
  <2> QED BY <2>2
<1>3. ASSUME NEW i \in 1 .. Len(t) PROVE t[i] \in Elems(s) /\ t[i] # s[1]
  <2>1. i + 1 \in 1 .. Len(s) /\ 1 \in 1 .. Len(s) /\ t[i] = s[i + 1]
    BY <1>1
  <2>2. i + 1 # 1
    OBVIOUS
  <2> QED BY <2>1, <2>2 DEF Elems, Once
<1>4. ASSUME NEW i \in 1 .. Len(s), s[i] # s[1] PROVE s[i] \in Elems(t)
  <2>1. i - 1 \in 1 .. Len(t) /\ t[i - 1] = s[i]
    BY <1>1, <1>4
  <2> QED BY <2>1 DEF Elems
<1>5. Head(s) \in Elems(s)
  BY <1>1 DEF Elems
<1>6. Elems(t) = Elems(s) \ {s[1]}
  <2>1. ASSUME NEW x \in Elems(t) PROVE x \in Elems(s) \ {s[1]}
    <3>1. PICK i \in 1 .. Len(t) : x = t[i]
      BY <2>1 DEF Elems
    <3> QED BY <3>1, <1>3
  <2>2. ASSUME NEW x \in Elems(s) \ {s[1]} PROVE x \in Elems(t)
    <3>1. PICK i \in 1 .. Len(s) : x = s[i]
      BY <2>2 DEF Elems
    <3> QED BY <3>1, <2>2, <1>4
  <2> QED BY <2>1, <2>2
<1> QED BY <1>1, <1>2, <1>5, <1>6

\* An item is taken out of the list; the others keep their order.
LEMMA OnceRemove ==
  ASSUME NEW S, NEW s \in Seq(S), Once(s), NEW e \in Elems(s),
         NEW r, r = ListRemove(s, e)
  PROVE  /\ r \in Seq(S) /\ Once(r) /\ Elems(r) = Elems(s) \ {e}
         /\ \A i \in 1 .. Len(r) : \A j \in 1 .. i :
              \E k \in 1 .. Len(s) : \E l \in 1 .. k : r[i] = s[k] /\ r[j] = s[l]
<1> DEFINE el == CHOOSE i \in 1 .. Len(s) : s[i] = e
           a == SubSeq(s, 1, el - 1)
           b == SubSeq(s, el + 1, Len(s))
           At(i) == IF i < el THEN i ELSE i + 1
<1>1. el \in 1 .. Len(s) /\ s[el] = e
  BY DEF Elems
<1>8. r = a \o b
  BY DEF ListRemove
<1> HIDE DEF el
<1>2. a \in Seq(S) /\ Len(a) = el - 1 /\ \A i \in 1 .. el - 1 : a[i] = s[i]
  BY <1>1, SubSeqProperties
<1>3. /\ b \in Seq(S) /\ Len(b) = Len(s) - el
      /\ \A i \in 1 .. Len(s) - el : b[i] = s[i + el]
  BY <1>1, OnceDrop
<1> HIDE DEF a, b
<1>4. /\ r \in Seq(S) /\ Len(r) = Len(s) - 1
      /\ \A i \in 1 .. Len(r) : At(i) \in 1 .. Len(s) /\ At(i) # el /\ r[i] = s[At(i)]
  <2>1. r \in Seq(S) /\ Len(r) = Len(s) - 1
    <3>1. r \in Seq(S) /\ Len(r) = Len(a) + Len(b)
      BY <1>2, <1>3, <1>8, ConcatProperties, ZenonT(60)
    <3> QED BY <3>1, <1>1, <1>2, <1>3
  <2>2. ASSUME NEW i \in 1 .. Len(r)
        PROVE  At(i) \in 1 .. Len(s) /\ At(i) # el /\ r[i] = s[At(i)]
    <3>1. CASE i < el
      <4>1. i \in 1 .. Len(a) /\ r[i] = a[i]
        BY <3>1, <2>1, <1>1, <1>2, <1>3, <1>8
      <4> QED BY <4>1, <3>1, <1>1, <1>2
    <3>2. CASE i >= el
      <4>1. i - Len(a) \in 1 .. Len(b) /\ r[i] = b[i - Len(a)]
        BY <3>2, <2>1, <1>1, <1>2, <1>3, <1>8
      <4>2. PICK m \in 1 .. Len(s) - el : m = i - Len(a) /\ m + el = i + 1
        BY <4>1, <1>1, <1>2, <1>3
      <4>3. r[i] = s[i + 1]
        BY <4>1, <4>2, <1>3
      <4> QED BY <4>3, <3>2, <2>1, <1>1
    <3> QED BY <3>1, <3>2, <2>1, <1>1
  <2> QED BY <2>1, <2>2
<1>5. Once(r)
  <2> SUFFICES ASSUME NEW i \in 1 .. Len(r), NEW j \in 1 .. Len(r), r[i] = r[j]
               PROVE  i = j
    BY DEF Once
  <2>1. At(i) = At(j)
    <3>1. s[At(i)] = s[At(j)] /\ At(i) \in 1 .. Len(s) /\ At(j) \in 1 .. Len(s)
      BY <1>4
    <3> HIDE DEF At
    <3> QED BY <3>1 DEF Once
  <2> QED BY <2>1, <1>1, <1>4
<1>6. Elems(r) = Elems(s) \ {e}
  <2>1. ASSUME NEW i \in 1 .. Len(r) PROVE r[i] \in Elems(s) \ {e}
    BY <1>1, <1>4 DEF Elems, Once
  <2>2. ASSUME NEW i \in 1 .. Len(s), s[i] # e PROVE s[i] \in Elems(r)
    <3>1. CASE i < el
      <4>1. i \in 1 .. Len(r) /\ r[i] = s[i]
        BY <3>1, <1>1, <1>4
      <4> QED BY <4>1 DEF Elems
    <3>2. CASE i > el
      <4>1. i - 1 \in 1 .. Len(r) /\ r[i - 1] = s[i]
        BY <3>2, <1>1, <1>4
      <4> QED BY <4>1 DEF Elems
    <3> QED BY <3>1, <3>2, <2>2, <1>1
  <2> QED BY <2>1, <2>2, SMTT(30) DEF Elems
<1>7. ASSUME NEW i \in 1 .. Len(r), NEW j \in 1 .. i
      PROVE  \E k \in 1 .. Len(s) : \E l \in 1 .. k : r[i] = s[k] /\ r[j] = s[l]
  <2>1. At(i) \in 1 .. Len(s) /\ At(j) \in 1 .. At(i) /\ j \in 1 .. Len(r)
    BY <1>1, <1>4
  <2> QED BY <2>1, <1>4
<1> QED BY <1>4, <1>5, <1>6, <1>7

\* The parts of the state that the bus and the dials share with no connection.
BusPart == <<pc, closes, regist, notify, busMap, busList, age, proxy, writeMsg>>

\* The steps of the control connection, but for the one that takes a message,
\* leave the bus alone and have their types.
LEMMA ConnSteps ==
  ASSUME BusInv, NEW c \in Conns,
         ReadFail(c) \/ PutPong(c) \/ WritePong(c) \/ ReadPing(c) \/ Connect(c) \/ Reuse(c)
  PROVE  TypeOK' /\ UNCHANGED BusPart
<1> USE DEF BusInv, TypeOK, BusPart, busVars
<1>1. CASE ReadFail(c)
  BY <1>1 DEF ReadFail, closeConn
<1>2. CASE PutPong(c)
  BY <1>2 DEF PutPong
<1>3. CASE WritePong(c)
  <2>1. pong' \in 0 .. 1 /\ UNCHANGED <<BusPart, reader, cli, breaks>>
    BY <1>3 DEF WritePong
  <2>2. Written(c)
    BY <1>3 DEF WritePong
  <2> QED BY <2>1, <2>2 DEF Written, closeConn
<1>4. CASE ReadPing(c)
  BY <1>4 DEF ReadPing
<1>5. CASE Connect(c)
  BY <1>5 DEF Connect
<1>6. CASE Reuse(c)
  BY <1>6 DEF Reuse
<1> QED BY <1>1, <1>2, <1>3, <1>4, <1>5, <1>6

LEMMA HelperSteps ==
  ASSUME BusInv, ClientEOF \/ ClientBreak \/ ServerBreak
  PROVE  TypeOK' /\ UNCHANGED BusPart
<1> USE TunnelAssumption DEF BusInv, TypeOK, BusPart, busVars
<1>1. CASE ClientEOF
  BY <1>1 DEF ClientEOF
<1>2. CASE ClientBreak
  <2>1. cli \in Conns /\ breaks' \in 0 .. MaxBreaks
    BY <1>2 DEF ClientBreak
  <2> QED BY <2>1, <1>2 DEF ClientBreak
<1>3. CASE ServerBreak
  <2>1. breaks' \in 0 .. MaxBreaks
    BY <1>3 DEF ServerBreak
  <2> QED BY <2>1, <1>3, ZenonT(60) DEF ServerBreak, closeConn
<1> QED BY <1>1, <1>2, <1>3

\* With the bus left alone, everything that is said of it still holds.
LEMMA BusUntouched ==
  ASSUME BusInv, TypeOK', UNCHANGED BusPart
  PROVE  BusInv'
<1>1. UNCHANGED <<ItemClosedOnce, ListByAge, NoParkedOrphan, Whereabouts>>
  BY DEF BusPart, ItemClosedOnce, ListByAge, NoParkedOrphan, Whereabouts, Elems
<1>2. UNCHANGED <<Once(regist), Once(notify), Once(busList), Once(writeMsg)>>
  BY DEF BusPart, Once
<1> QED BY <1>1, <1>2 DEF BusInv

\* A dial's steps.
LEMMA DialSteps ==
  ASSUME BusInv, NEW d \in Dials, Dial(d) \/ DialStep(d)
  PROVE  BusInv'
<1> USE DEF BusInv
<1>1. CASE Dial(d)
  <2> USE <1>1 DEF Dial, busVars
  <2>1. TypeOK'
    BY DEF TypeOK, connVars
  <2>2. ItemClosedOnce' /\ ListByAge'
    BY DEF ItemClosedOnce, ListByAge, Elems
  <2>3. NoParkedOrphan' /\ Whereabouts'
    BY DEF TypeOK, NoParkedOrphan, Whereabouts, Elems
  <2>4. UNCHANGED <<regist, notify, busList, writeMsg>>
    OBVIOUS
  <2> QED BY <2>1, <2>2, <2>3, <2>4 DEF Once
<1>2. CASE connItemRegist(d)
  <2> USE <1>2 DEF connItemRegist
  <2>1. d \notin Elems(regist) /\ d \notin busMap /\ closes[d] = 0
    BY DEF Whereabouts
  <2>2. /\ regist' \in Seq(Dials) /\ Len(regist') = Len(regist) + 1
        /\ Once(regist') /\ Elems(regist') = Elems(regist) \union {d}
    BY <2>1, OnceAppend DEF TypeOK
  <2>3. TypeOK'
    BY <2>2, TunnelAssumption DEF TypeOK, connVars
  <2>4. Elems(notify') = Elems(notify) /\ Elems(busList') = Elems(busList) /\ Elems(writeMsg') = Elems(writeMsg)
    BY DEF Elems
  <2>5. ItemClosedOnce' /\ ListByAge'
    BY <2>1, <2>2, <2>4 DEF ItemClosedOnce, ListByAge
  <2>6. NoParkedOrphan' /\ Whereabouts'
    BY <2>1, <2>2, <2>4 DEF TypeOK, NoParkedOrphan, Whereabouts
  <2> QED BY <2>2, <2>3, <2>5, <2>6 DEF Once
<1>3. CASE SendNewConn(d)
  <2> USE <1>3 DEF SendNewConn, busVars
  <2>1. d \notin Elems(writeMsg) /\ proxy[d] = "none"
    BY DEF Whereabouts
  <2>2. /\ writeMsg' \in Seq(Dials) /\ Len(writeMsg') = Len(writeMsg) + 1
        /\ Once(writeMsg') /\ Elems(writeMsg') = Elems(writeMsg) \union {d}
    BY <2>1, OnceAppend DEF TypeOK
  <2>3. TypeOK'
    BY <2>2, TunnelAssumption DEF TypeOK, connVars
  <2>4. Elems(notify') = Elems(notify) /\ Elems(busList') = Elems(busList) /\ Elems(regist') = Elems(regist)
    BY DEF Elems
  <2>5. ItemClosedOnce' /\ ListByAge'
    BY <2>4 DEF ItemClosedOnce, ListByAge
  <2>6. NoParkedOrphan' /\ Whereabouts'
    BY <2>1, <2>2, <2>4 DEF TypeOK, NoParkedOrphan, Whereabouts
  <2> QED BY <2>2, <2>3, <2>5, <2>6 DEF Once
<1>4. CASE DialReturn(d)
  <2> USE <1>4 DEF DialReturn, busVars
  <2>1. TypeOK'
    BY DEF TypeOK, connVars
  <2>2. ItemClosedOnce' /\ ListByAge'
    BY DEF ItemClosedOnce, ListByAge, Elems
  <2>3. UNCHANGED <<closes, regist, notify, busMap, busList, age, writeMsg>>
    OBVIOUS
  <2>4. UNCHANGED <<Elems(regist), Elems(notify), Elems(writeMsg)>>
    BY <2>3 DEF Elems
  <2>5. CASE proxy[d] = "parked"
    BY <2>1, <2>2, <2>3, <2>4, <2>5 DEF TypeOK, NoParkedOrphan, Whereabouts, Once
  <2>6. CASE proxy[d] # "parked"
    <3>1. proxy[d] # "taken" /\ closes[d] > 0
      BY <2>6 DEF NoParkedOrphan
    <3> QED BY <2>1, <2>2, <2>3, <2>4, <2>6, <3>1 DEF TypeOK, NoParkedOrphan, Whereabouts, Once
  <2> QED BY <2>5, <2>6
<1> QED BY <1>1, <1>2, <1>3, <1>4 DEF DialStep

\* The id is sent to the helper, which connects back with it or fails to.
LEMMA AnswerSteps ==
  ASSUME BusInv,
         \/ \E c \in Conns : WriteNewConn(c)
         \/ \E d \in Dials : PutDhnsConn(d) \/ ProxyFails(d)
  PROVE  BusInv'
<1> USE DEF BusInv
<1>1. ASSUME NEW c \in Conns, WriteNewConn(c) PROVE BusInv'
  <2> DEFINE d == Head(writeMsg)
  <2>1. /\ writeMsg # <<>> /\ writeMsg' = Tail(writeMsg) /\ Written(c)
        /\ proxy' = proxy \/ proxy' = [proxy EXCEPT ![d] = "sent"]
        /\ UNCHANGED <<pc, busVars, pong, reader, cli, breaks>>
    BY <1>1 DEF WriteNewConn
  <2>2. /\ writeMsg' \in Seq(Dials) /\ Len(writeMsg') = Len(writeMsg) - 1 /\ Once(writeMsg')
        /\ d \in Dials /\ d \in Elems(writeMsg) /\ Elems(writeMsg') = Elems(writeMsg) \ {d}
    BY <2>1, OnceTail DEF TypeOK
  <2> HIDE DEF d
  <2>3. TypeOK'
    <3>1. lastConn' \in Conns \union {NoConn} /\ writer' \in [Conns -> BOOLEAN]
          /\ sock' \in [Conns -> {"free", "open", "gone", "closed"}]
      BY <2>1, ZenonT(60) DEF Written, closeConn, TypeOK
    <3>2. proxy' \in [Dials -> {"none", "sent", "notify", "parked", "taken", "closed"}]
      BY <2>1, <2>2 DEF TypeOK
    <3>3. Len(writeMsg') <= WriteCap
      BY <2>2, TunnelAssumption DEF TypeOK
    <3> QED BY <2>1, <2>2, <3>1, <3>2, <3>3 DEF TypeOK, busVars
  <2>4. UNCHANGED <<Elems(regist), Elems(notify), Elems(busList)>>
    BY <2>1 DEF Elems, busVars
  <2>5. ItemClosedOnce' /\ ListByAge'
    BY <2>1, <2>4 DEF ItemClosedOnce, ListByAge, busVars
  <2>6. proxy[d] = "none" /\ pc[d] \notin {"idle", "regist", "write"}
    BY <2>2 DEF Whereabouts
  <2>7. NoParkedOrphan' /\ Whereabouts'
    BY <2>1, <2>2, <2>4, <2>6 DEF TypeOK, NoParkedOrphan, Whereabouts, busVars
  <2> QED BY <2>1, <2>2, <2>3, <2>5, <2>7 DEF Once, busVars
<1>2. ASSUME NEW d \in Dials, PutDhnsConn(d) PROVE BusInv'
  <2> USE <1>2 DEF PutDhnsConn
  <2>1. d \notin Elems(notify) /\ pc[d] \notin {"idle", "regist", "write"} /\ d \notin Elems(writeMsg)
    BY DEF Whereabouts
  <2>2. /\ notify' \in Seq(Dials) /\ Len(notify') = Len(notify) + 1
        /\ Once(notify') /\ Elems(notify') = Elems(notify) \union {d}
    BY <2>1, OnceAppend DEF TypeOK
  <2>3. TypeOK'
    BY <2>2, TunnelAssumption DEF TypeOK, connVars
  <2>4. UNCHANGED <<Elems(regist), Elems(busList), Elems(writeMsg)>>
    BY DEF Elems
  <2>5. ItemClosedOnce' /\ ListByAge'
    BY <2>4 DEF ItemClosedOnce, ListByAge
  <2>6. NoParkedOrphan' /\ Whereabouts'
    BY <2>1, <2>2, <2>4 DEF TypeOK, NoParkedOrphan, Whereabouts
  <2> QED BY <2>2, <2>3, <2>5, <2>6 DEF Once
<1>3. ASSUME NEW d \in Dials, ProxyFails(d) PROVE BusInv'
  <2> USE <1>3 DEF ProxyFails, busVars
  <2>1. TypeOK'
    BY DEF TypeOK, connVars
  <2>2. ItemClosedOnce' /\ ListByAge'
    BY DEF ItemClosedOnce, ListByAge, Elems
  <2>3. UNCHANGED <<Elems(regist), Elems(notify), Elems(writeMsg)>>
    BY DEF Elems
  <2>4. NoParkedOrphan' /\ Whereabouts'
    BY <2>3 DEF TypeOK, NoParkedOrphan, Whereabouts
  <2> QED BY <2>1, <2>2, <2>4 DEF Once
<1> QED BY <1>1, <1>2, <1>3

\* An item is registered: it is younger than every other.
LEMMA RegistStep ==
  ASSUME BusInv, BusRegist
  PROVE  BusInv'
<1> USE DEF BusInv
<1> DEFINE d == Head(regist)
<1>1. /\ regist # <<>> /\ regist' = Tail(regist)
      /\ UNCHANGED <<pc, notify, age, proxy, writeMsg, pong, connVars, breaks>>
  BY DEF BusRegist
<1>2. /\ regist' \in Seq(Dials) /\ Len(regist') = Len(regist) - 1 /\ Once(regist')
      /\ d \in Dials /\ d \in Elems(regist) /\ Elems(regist') = Elems(regist) \ {d}
  BY <1>1, OnceTail DEF TypeOK
<1>3. d \notin busMap /\ d \notin Elems(busList) /\ closes[d] = 0 /\ age[d] = 0
      /\ pc[d] \notin {"idle", "regist"}
  BY <1>2 DEF Whereabouts, ItemClosedOnce
<1>4. busMap' = busMap \union {d} /\ busList' = Append(busList, d) /\ closes' = closes
  BY <1>3 DEF BusRegist
<1> HIDE DEF d
<1>5. /\ busList' \in Seq(Dials) /\ Len(busList') = Len(busList) + 1
      /\ Once(busList') /\ Elems(busList') = Elems(busList) \union {d}
  BY <1>2, <1>3, <1>4, OnceAppend DEF TypeOK
<1>6. TypeOK'
  <2>1. Len(regist') <= RegistCap
    BY <1>2, TunnelAssumption DEF TypeOK
  <2> QED BY <1>1, <1>2, <1>4, <1>5, <2>1 DEF TypeOK, connVars
<1>7. UNCHANGED <<Elems(notify), Elems(writeMsg)>>
  BY <1>1 DEF Elems
<1>8. ItemClosedOnce'
  BY <1>1, <1>2, <1>3, <1>4, <1>5 DEF ItemClosedOnce
<1>9. ListByAge'
  <2> SUFFICES ASSUME NEW i \in 1 .. Len(busList'), NEW j \in 1 .. i
               PROVE  age[busList'[i]] <= age[busList'[j]]
    BY <1>1 DEF ListByAge
  <2>1. /\ \A k \in 1 .. Len(busList) : busList'[k] = busList[k]
        /\ busList'[Len(busList) + 1] = d
    BY <1>4, <1>2, AppendProperties DEF TypeOK
  <2>2. CASE i \in 1 .. Len(busList)
    <3>1. j \in 1 .. Len(busList) /\ busList'[i] = busList[i] /\ busList'[j] = busList[j]
      BY <2>1, <2>2, SMTT(30) DEF TypeOK
    <3> QED BY <3>1, <2>2 DEF ListByAge
  <2>3. CASE i = Len(busList) + 1
    <3>1. age[busList'[i]] = 0
      BY <2>1, <2>3, <1>3
    <3>2. busList'[j] \in Dials
      BY <1>5
    <3>3. age[busList'[j]] >= 0
      BY <3>2, TunnelAssumption DEF TypeOK
    <3> QED BY <3>1, <3>3
  <2> QED BY <2>2, <2>3, <1>5 DEF TypeOK
<1>10. NoParkedOrphan' /\ Whereabouts'
  BY <1>1, <1>2, <1>3, <1>4, <1>7 DEF TypeOK, NoParkedOrphan, Whereabouts
<1> QED BY <1>1, <1>2, <1>5, <1>6, <1>8, <1>9, <1>10 DEF Once

\* An answer arrives: its item leaves the list and is closed, once.
LEMMA NotifyStep ==
  ASSUME BusInv, BusNotify
  PROVE  BusInv'
<1> USE DEF BusInv
<1> DEFINE d == Head(notify)
<1>1. /\ notify # <<>> /\ notify' = Tail(notify)
      /\ UNCHANGED <<pc, regist, writeMsg, pong, connVars, breaks>>
  BY DEF BusNotify
<1>2. /\ notify' \in Seq(Dials) /\ Len(notify') = Len(notify) - 1 /\ Once(notify')
      /\ d \in Dials /\ d \in Elems(notify) /\ Elems(notify') = Elems(notify) \ {d}
  BY <1>1, OnceTail DEF TypeOK
<1>3. proxy[d] = "notify" /\ pc[d] \notin {"idle", "regist", "write"} /\ d \notin Elems(writeMsg)
  BY <1>2 DEF Whereabouts
<1>4. UNCHANGED <<Elems(regist), Elems(writeMsg)>> /\ Len(notify') <= NotifyCap
  BY <1>1, <1>2, TunnelAssumption DEF Elems, TypeOK
<1>5. CASE d \in busMap
  <2>1. /\ busMap' = busMap \ {d} /\ busList' = ListRemove(busList, d)
        /\ age' = [age EXCEPT ![d] = 0] /\ proxy' = [proxy EXCEPT ![d] = "parked"]
        /\ closes' = [closes EXCEPT ![d] = closes[d] + 1]
    BY <1>5 DEF BusNotify
  <2> HIDE DEF d
  <2>2. d \in Elems(busList) /\ closes[d] = 0 /\ d \notin Elems(regist) /\ pc[d] # "eof"
    BY <1>2, <1>5 DEF ItemClosedOnce, Whereabouts
  <2>3. /\ busList' \in Seq(Dials) /\ Once(busList') /\ Elems(busList') = Elems(busList) \ {d}
        /\ \A i \in 1 .. Len(busList') : \A j \in 1 .. i :
             \E k \in 1 .. Len(busList) : \E l \in 1 .. k :
               busList'[i] = busList[k] /\ busList'[j] = busList[l]
    <3> DEFINE r == busList'
    <3>1. r = ListRemove(busList, d) /\ busList \in Seq(Dials) /\ Once(busList)
      BY <2>1 DEF TypeOK
    <3> HIDE DEF r
    <3>2. /\ r \in Seq(Dials) /\ Once(r) /\ Elems(r) = Elems(busList) \ {d}
          /\ \A i \in 1 .. Len(r) : \A j \in 1 .. i :
               \E k \in 1 .. Len(busList) : \E l \in 1 .. k : r[i] = busList[k] /\ r[j] = busList[l]
      <4> DEFINE Kept(q, l) == /\ q \in Seq(Dials) /\ Once(q) /\ Elems(q) = Elems(l) \ {d}
                               /\ \A i \in 1 .. Len(q) : \A j \in 1 .. i :
                                    \E k \in 1 .. Len(l) : \E m \in 1 .. k : q[i] = l[k] /\ q[j] = l[m]
      <4>1. \A l \in Seq(Dials) : Once(l) /\ d \in Elems(l) => Kept(ListRemove(l, d), l)
        BY OnceRemove
      <4> HIDE DEF Kept
      <4>2. Kept(r, busList)
        BY <3>1, <2>2, <4>1
      <4> QED BY <4>2 DEF Kept
    <3> QED BY <3>2 DEF r
  <2>4. closes' = [closes EXCEPT ![d] = 1] /\ closes' \in [Dials -> 0 .. 2]
        /\ age' \in [Dials -> 0 .. Expiry]
    BY <2>1, <2>2, <1>2, TunnelAssumption DEF TypeOK
  <2>5. TypeOK'
    BY <1>1, <1>2, <1>4, <2>1, <2>3, <2>4 DEF TypeOK, connVars
  <2>6. ItemClosedOnce'
    BY <1>2, <1>4, <2>1, <2>2, <2>3, <2>4 DEF ItemClosedOnce, TypeOK
  <2>7. ListByAge'
    <3> SUFFICES ASSUME NEW i \in 1 .. Len(busList'), NEW j \in 1 .. i
                 PROVE  age'[busList'[i]] <= age'[busList'[j]]
      BY DEF ListByAge
    <3>1. PICK k \in 1 .. Len(busList) : \E l \in 1 .. k :
                 busList'[i] = busList[k] /\ busList'[j] = busList[l]
      BY <2>3
    <3>2. PICK l \in 1 .. k : busList'[i] = busList[k] /\ busList'[j] = busList[l]
      BY <3>1
    <3>3. age[busList[k]] <= age[busList[l]]
      BY DEF ListByAge
    <3>4. j \in 1 .. Len(busList')
      BY <2>3
    <3>5. busList'[i] \in Elems(busList') /\ busList'[j] \in Elems(busList')
      BY <3>4 DEF Elems
    <3>6. busList'[i] \in Dials \ {d} /\ busList'[j] \in Dials \ {d}
      BY <3>4, <3>5, <2>3, SMTT(30)
    <3> QED BY <3>2, <3>3, <3>6, <2>1 DEF TypeOK
  <2>8. NoParkedOrphan' /\ Whereabouts'
    BY <1>1, <1>2, <1>3, <1>4, <1>5, <2>1, <2>2, <2>4 DEF TypeOK, NoParkedOrphan, Whereabouts
  <2> QED BY <1>1, <1>2, <2>3, <2>5, <2>6, <2>7, <2>8 DEF Once
<1>6. CASE d \notin busMap
  <2>1. proxy' = [proxy EXCEPT ![d] = "closed"] /\ UNCHANGED <<busMap, busList, age, closes>>
    BY <1>6 DEF BusNotify
  <2> HIDE DEF d
  <2>2. TypeOK'
    BY <1>1, <1>2, <1>4, <2>1 DEF TypeOK, connVars
  <2>3. ItemClosedOnce' /\ ListByAge'
    BY <1>4, <2>1 DEF ItemClosedOnce, ListByAge, Elems
  <2>4. NoParkedOrphan' /\ Whereabouts'
    BY <1>1, <1>2, <1>3, <1>4, <2>1 DEF TypeOK, NoParkedOrphan, Whereabouts
  <2> QED BY <1>1, <1>2, <2>1, <2>2, <2>3, <2>4 DEF Once
<1> QED BY <1>5, <1>6

\* The ticker: what has expired is a front of the list.
LEMMA TickStep ==
  ASSUME BusInv, BusTick
  PROVE  BusInv'
<1> USE DEF BusInv
<1> DEFINE older == [d \in Dials |-> IF d \in busMap /\ age[d] < Expiry THEN age[d] + 1 ELSE age[d]]
           expired == {i \in 1 .. Len(busList) : \A j \in 1 .. i : older[busList[j]] >= Expiry}
           ids == {busList[i] : i \in expired}
<1>1. /\ age' = [d \in Dials |-> IF d \in ids THEN 0 ELSE older[d]]
      /\ busMap' = busMap \ ids
      /\ busList' = SubSeq(busList, Cardinality(expired) + 1, Len(busList))
      /\ closes' = [d \in Dials |-> IF d \in ids THEN closes[d] + 1 ELSE closes[d]]
      /\ UNCHANGED <<pc, regist, notify, proxy, writeMsg, pong, connVars, breaks>>
  BY DEF BusTick
<1>2. PICK k \in 0 .. Len(busList) : expired = 1 .. k /\ Cardinality(expired) = k
  <2>1. Len(busList) \in Nat /\ expired \subseteq 1 .. Len(busList)
    BY DEF TypeOK
  <2>2. \A i \in expired : \A j \in 1 .. i : j \in expired
    <3> SUFFICES ASSUME NEW i \in expired, NEW j \in 1 .. i PROVE j \in expired
      OBVIOUS
    <3>1. i \in 1 .. Len(busList) /\ \A m \in 1 .. i : older[busList[m]] >= Expiry
      OBVIOUS
    <3>2. j \in 1 .. Len(busList) /\ \A m \in 1 .. j : m \in 1 .. i
      BY <3>1, <2>1
    <3> HIDE DEF older
    <3> QED BY <3>1, <3>2
  <2> HIDE DEF expired
  <2> QED BY <2>1, <2>2, FirstPlaces
<1>3. /\ older \in [Dials -> 0 .. Expiry]
      /\ \A d, e \in busMap : age[d] <= age[e] => older[d] <= older[e]
      /\ \A d \in Dials \ busMap : older[d] = 0
  <2>1. age \in [Dials -> 0 .. Expiry] /\ busMap \subseteq Dials /\ Expiry \in Nat
    BY TunnelAssumption DEF TypeOK
  <2>2. \A d \in Dials \ busMap : age[d] = 0
    BY DEF Whereabouts
  <2>3. ASSUME NEW d \in Dials PROVE older[d] \in 0 .. Expiry
    BY <2>1
  <2>4. ASSUME NEW d \in busMap, NEW e \in busMap, age[d] <= age[e] PROVE older[d] <= older[e]
    <3>1. age[d] \in 0 .. Expiry /\ age[e] \in 0 .. Expiry
      BY <2>1
    <3>2. /\ older[d] = IF age[d] < Expiry THEN age[d] + 1 ELSE age[d]
          /\ older[e] = IF age[e] < Expiry THEN age[e] + 1 ELSE age[e]
      BY <2>1
    <3> QED BY <3>1, <3>2, <2>1, <2>4
  <2> QED BY <2>2, <2>3, <2>4
<1> HIDE DEF older
<1>4. ids = Firsts(busList, k) /\ busList' = SubSeq(busList, k + 1, Len(busList))
  BY <1>1, <1>2 DEF Firsts
<1> HIDE DEF expired, ids
<1>5. /\ busList' \in Seq(Dials) /\ Len(busList') = Len(busList) - k /\ Once(busList')
      /\ Elems(busList') = Elems(busList) \ ids
      /\ \A i \in 1 .. Len(busList') : busList'[i] = busList[i + k]
  <2> DEFINE t == busList'
  <2>1. t = SubSeq(busList, k + 1, Len(busList)) /\ busList \in Seq(Dials)
    BY <1>4 DEF TypeOK
  <2> HIDE DEF t
  <2>2. /\ t \in Seq(Dials) /\ Len(t) = Len(busList) - k /\ Once(t)
        /\ \A i \in 1 .. Len(t) : t[i] = busList[i + k]
    <3>1. t \in Seq(Dials) /\ Len(t) = Len(busList) - k
      BY <2>1, OnceDrop
    <3>2. Once(t)
      BY <2>1, OnceDrop
    <3>3. \A i \in 1 .. Len(t) : t[i] = busList[i + k]
      BY <2>1, OnceDrop
    <3> QED BY <3>1, <3>2, <3>3
  <2>4. Elems(t) = Elems(busList) \ ids
    BY <2>1, <1>4, OnceDropElems
  <2> QED BY <2>2, <2>4 DEF t
<1>6. ids \subseteq busMap
  <2> SUFFICES ASSUME NEW i \in 1 .. k PROVE busList[i] \in busMap
    BY <1>4 DEF Firsts
  <2>1. busList[i] \in Dials /\ busList[i] \in Elems(busList)
    BY <1>2 DEF Elems, TypeOK
  <2> QED BY <2>1 DEF ItemClosedOnce
<1>7. UNCHANGED <<Elems(regist), Elems(notify), Elems(writeMsg)>>
  BY <1>1 DEF Elems
<1>8. closes' = [d \in Dials |-> IF d \in ids THEN 1 ELSE closes[d]]
  BY <1>1, <1>6 DEF ItemClosedOnce, TypeOK
<1>9. TypeOK'
  <2>1. age' \in [Dials -> 0 .. Expiry] /\ closes' \in [Dials -> 0 .. 2]
    BY <1>1, <1>3, <1>8, TunnelAssumption DEF TypeOK
  <2> QED BY <1>1, <1>5, <2>1 DEF TypeOK, connVars
<1>10. ItemClosedOnce'
  <2> SUFFICES ASSUME NEW d \in Dials
               PROVE  /\ closes'[d] <= 1
                      /\ d \in Elems(busList') <=> d \in busMap'
                      /\ d \in busMap' \union Elems(regist') => closes'[d] = 0
    BY DEF ItemClosedOnce
  <2>1. /\ closes[d] <= 1 /\ (d \in Elems(busList) <=> d \in busMap)
        /\ d \in busMap \union Elems(regist) => closes[d] = 0
    BY DEF ItemClosedOnce
  <2>2. d \in Elems(regist) => d \notin busMap
    BY DEF Whereabouts
  <2> QED BY <2>1, <2>2, <1>1, <1>5, <1>6, <1>7, <1>8
<1>11. ListByAge'
  <2> SUFFICES ASSUME NEW i \in 1 .. Len(busList'), NEW j \in 1 .. i
               PROVE  age'[busList'[i]] <= age'[busList'[j]]
    BY DEF ListByAge
  <2>1. j \in 1 .. Len(busList')
    BY <1>5
  <2>2. i + k \in 1 .. Len(busList) /\ j + k \in 1 .. i + k
    BY <1>2, <1>5
  <2>3. age[busList'[i]] <= age[busList'[j]]
    BY <2>1, <2>2, <1>5 DEF ListByAge
  <2>4. busList'[i] \in Elems(busList') /\ busList'[j] \in Elems(busList')
    BY <2>1 DEF Elems
  <2>5. busList'[i] \in busMap \ ids /\ busList'[j] \in busMap \ ids
    BY <2>1, <2>4, <1>5 DEF ItemClosedOnce
  <2>6. busMap \subseteq Dials
    BY DEF TypeOK
  <2> QED BY <2>3, <2>5, <2>6, <1>1, <1>3
<1>12. NoParkedOrphan' /\ Whereabouts'
  BY <1>1, <1>3, <1>6, <1>7, <1>8 DEF TypeOK, NoParkedOrphan, Whereabouts
<1> QED BY <1>1, <1>5, <1>9, <1>10, <1>11, <1>12 DEF Once

\* The bus with dials, answers, expiry, lost messages and late connections in
\* any order and number: no item is closed twice or sent to after its close,
\* the list stays in the order of age, and no connection is left behind.
THEOREM BusIsSound == Spec => []BusSound
<1>1. Init => BusInv
  BY TunnelAssumption DEF Init, BusInv, TypeOK, ItemClosedOnce, ListByAge, NoParkedOrphan,
                          Whereabouts, Once, Elems
<1>2. BusInv /\ [Next]_vars => BusInv'
  <2> SUFFICES ASSUME BusInv, [Next]_vars PROVE BusInv'
    OBVIOUS
  <2>1. CASE UNCHANGED vars
    <3>1. TypeOK' /\ UNCHANGED BusPart
      BY <2>1 DEF BusInv, TypeOK, BusPart, vars, busVars, connVars
    <3> QED BY <3>1, BusUntouched
  <2>2. ASSUME NEW d \in Dials, Dial(d) \/ DialStep(d) PROVE BusInv'
    BY <2>2, DialSteps
  <2>3. ASSUME NEW d \in Dials, PutDhnsConn(d) \/ ProxyFails(d) PROVE BusInv'
    BY <2>3, AnswerSteps
  <2>4. CASE BusTick \/ BusRegist \/ BusNotify
    BY <2>4, TickStep, RegistStep, NotifyStep
  <2>5. ASSUME NEW c \in Conns, Server(c) \/ ReadPing(c) \/ Connect(c) \/ Reuse(c) PROVE BusInv'
    BY <2>5, ConnSteps, BusUntouched, AnswerSteps DEF Server
  <2>6. CASE ClientEOF \/ ClientBreak \/ ServerBreak
    BY <2>6, HelperSteps, BusUntouched
  <2> QED BY <2>1, <2>2, <2>3, <2>4, <2>5, <2>6 DEF Next
<1>3. BusInv => BusSound
  BY DEF BusInv, BusSound
<1> QED BY <1>1, <1>2, <1>3, PTL DEF Spec
===============================================================================
