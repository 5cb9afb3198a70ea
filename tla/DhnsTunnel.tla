------------------------------ MODULE DhnsTunnel ------------------------------
(***************************************************************************)
(* The reverse tunnel to the DHNS helper, which lives in its own network   *)
(* namespace and can only connect out: the helper keeps one control        *)
(* connection to the server; to call the helper, the server registers an   *)
(* id with its connection bus and sends the id over the control            *)
(* connection, and the helper connects back with it.                       *)
(*                                                                         *)
(*   backend/dhns/server.go  DhnsServer: HandleConn, dhnsWrite, connBus,   *)
(*                           DialDhns, PutDhnsConn                         *)
(*   backend/dhns/client.go  runConnect, connRead, connWrite               *)
(*                                                                         *)
(* DhnsServer.Close has no caller, so dieCh is never closed and the        *)
(* branches that wait for it are left out.                                 *)
(***************************************************************************)
EXTENDS Naturals, Sequences, FiniteSets

CONSTANTS Dials,      \* calls of DialDhns, each with its own id
          Conns,      \* control connections
          RegistCap,  \* capacity of connBusRegist (8)
          NotifyCap,  \* capacity of connBusNotify (8)
          WriteCap,   \* capacity of writeMsgCh (8)
          Expiry,     \* ticks after which an item has timed out (3)
          MaxBreaks,  \* bound on failures of the network or the helper
          NoConn

ASSUME TunnelAssumption ==
  /\ RegistCap \in Nat \ {0} /\ NotifyCap \in Nat \ {0} /\ WriteCap \in Nat \ {0}
  /\ Expiry \in Nat \ {0} /\ MaxBreaks \in Nat
  /\ NoConn \notin Conns

VARIABLES
  pc,           \* DialDhns: idle, regist, write, wait, got, eof
  closes,       \* how often close(item.conn) ran
  regist,       \* connBusRegist
  notify,       \* connBusNotify
  busMap,       \* connBusMap
  busList,      \* the list of items, oldest first
  age,          \* ticks since an item was listed
  proxy,        \* the connection the helper makes for an id: none, sent (the
                \* helper has the id), notify, parked (in item.conn), taken, closed
  writeMsg,     \* writeMsgCh
  pong,         \* tokens in pongCh, capacity 1
  lastConn,     \* DhnsServer.lastConn
  sock,         \* a control connection: free, open, gone (the helper left), closed
  reader,       \* HandleConn: none, reading, ponging
  writer,       \* dhnsWrite is running
  cli,          \* the connection runConnect is reading from
  breaks

busVars  == <<closes, regist, notify, busMap, busList, age>>
connVars == <<lastConn, sock, reader, writer, cli>>
vars == <<pc, busVars, proxy, writeMsg, pong, connVars, breaks>>

TypeOK ==
  /\ pc \in [Dials -> {"idle", "regist", "write", "wait", "got", "eof"}]
  /\ closes \in [Dials -> 0 .. 2]
  /\ regist \in Seq(Dials) /\ Len(regist) <= RegistCap
  /\ notify \in Seq(Dials) /\ Len(notify) <= NotifyCap
  /\ busMap \subseteq Dials /\ busList \in Seq(Dials)
  /\ age \in [Dials -> 0 .. Expiry]
  /\ proxy \in [Dials -> {"none", "sent", "notify", "parked", "taken", "closed"}]
  /\ writeMsg \in Seq(Dials) /\ Len(writeMsg) <= WriteCap
  /\ pong \in 0 .. 1
  /\ lastConn \in Conns \union {NoConn} /\ cli \in Conns \union {NoConn}
  /\ sock \in [Conns -> {"free", "open", "gone", "closed"}]
  /\ reader \in [Conns -> {"none", "reading", "ponging"}]
  /\ writer \in [Conns -> BOOLEAN]
  /\ breaks \in 0 .. MaxBreaks

Init ==
  /\ pc = [d \in Dials |-> "idle"]
  /\ closes = [d \in Dials |-> 0]
  /\ regist = <<>> /\ notify = <<>> /\ busMap = {} /\ busList = <<>>
  /\ age = [d \in Dials |-> 0]
  /\ proxy = [d \in Dials |-> "none"]
  /\ writeMsg = <<>> /\ pong = 0
  /\ lastConn = NoConn /\ cli = NoConn
  /\ sock = [c \in Conns |-> "free"]
  /\ reader = [c \in Conns |-> "none"]
  /\ writer = [c \in Conns |-> FALSE]
  /\ breaks = 0

-----------------------------------------------------------------------------
(* DialDhns *)

Dial(d) ==
  /\ pc[d] = "idle" /\ pc' = [pc EXCEPT ![d] = "regist"]
  /\ UNCHANGED <<busVars, proxy, writeMsg, pong, connVars, breaks>>

connItemRegist(d) ==
  /\ pc[d] = "regist" /\ Len(regist) < RegistCap
  /\ regist' = Append(regist, d)
  /\ pc' = [pc EXCEPT ![d] = "write"]
  /\ UNCHANGED <<closes, notify, busMap, busList, age, proxy, writeMsg, pong,
                 connVars, breaks>>

\* The send on writeMsgCh; no timeout ends it.
SendNewConn(d) ==
  /\ pc[d] = "write" /\ Len(writeMsg) < WriteCap
  /\ writeMsg' = Append(writeMsg, d)
  /\ pc' = [pc EXCEPT ![d] = "wait"]
  /\ UNCHANGED <<busVars, proxy, pong, connVars, breaks>>

\* The receive from item.conn: a connection, or closed and empty.
DialReturn(d) ==
  /\ pc[d] = "wait"
  /\ \/ /\ proxy[d] = "parked"
        /\ proxy' = [proxy EXCEPT ![d] = "taken"]
        /\ pc' = [pc EXCEPT ![d] = "got"]
     \/ /\ proxy[d] # "parked" /\ closes[d] > 0
        /\ pc' = [pc EXCEPT ![d] = "eof"]
        /\ UNCHANGED proxy
  /\ UNCHANGED <<busVars, writeMsg, pong, connVars, breaks>>

-----------------------------------------------------------------------------
(* connBusOnce, one action per case of its select *)

\* Mutant: expired items are forgotten without closing their channel.
MutBusTick ==
  LET older == [d \in Dials |-> IF d \in busMap /\ age[d] < Expiry THEN age[d] + 1 ELSE age[d]]
      expired == {i \in 1 .. Len(busList) :
                    \A j \in 1 .. i : older[busList[j]] >= Expiry}
      ids == {busList[i] : i \in expired}
  IN  /\ busList # <<>>
      /\ age' = [d \in Dials |-> IF d \in ids THEN 0 ELSE older[d]]
      /\ busMap' = busMap \ ids
      /\ busList' = SubSeq(busList, Cardinality(expired) + 1, Len(busList))
      /\ UNCHANGED <<closes, pc, regist, notify, proxy, writeMsg, pong, connVars, breaks>>

\* ticker.C: the expired items at the front of the list, up to the first
\* that is not.
BusTick ==
  LET older == [d \in Dials |-> IF d \in busMap /\ age[d] < Expiry THEN age[d] + 1 ELSE age[d]]
      expired == {i \in 1 .. Len(busList) :
                    \A j \in 1 .. i : older[busList[j]] >= Expiry}
      ids == {busList[i] : i \in expired}
  IN  /\ busList # <<>>
      /\ age' = [d \in Dials |-> IF d \in ids THEN 0 ELSE older[d]]
      /\ busMap' = busMap \ ids
      /\ busList' = SubSeq(busList, Cardinality(expired) + 1, Len(busList))
      /\ closes' = [d \in Dials |-> IF d \in ids THEN closes[d] + 1 ELSE closes[d]]
      /\ UNCHANGED <<pc, regist, notify, proxy, writeMsg, pong, connVars, breaks>>

BusRegist ==
  /\ regist # <<>> /\ regist' = Tail(regist)
  /\ LET d == Head(regist)
     IN  IF d \notin busMap
           THEN /\ busMap' = busMap \union {d}
                /\ busList' = Append(busList, d)
                /\ UNCHANGED closes
           ELSE /\ closes' = [closes EXCEPT ![d] = @ + 1]
                /\ UNCHANGED <<busMap, busList>>
  /\ UNCHANGED <<pc, notify, age, proxy, writeMsg, pong, connVars, breaks>>

\* Mutant: the item stays in the list.
MutBusNotify ==
  /\ notify # <<>> /\ notify' = Tail(notify)
  /\ LET d == Head(notify)
     IN  IF d \in busMap
           THEN /\ busMap' = busMap \ {d}
                /\ proxy' = [proxy EXCEPT ![d] = "parked"]
                /\ closes' = [closes EXCEPT ![d] = @ + 1]
           ELSE /\ proxy' = [proxy EXCEPT ![d] = "closed"]
                /\ UNCHANGED <<busMap, closes>>
  /\ UNCHANGED <<pc, regist, busList, age, writeMsg, pong, connVars, breaks>>

\* l.Remove(item.el): el is the item's place in the list.
ListRemove(l, d) ==
  LET el == CHOOSE i \in 1 .. Len(l) : l[i] = d
  IN  SubSeq(l, 1, el - 1) \o SubSeq(l, el + 1, Len(l))

\* The item leaves map and list, gets the connection and is closed; without
\* an item the connection is closed.
BusNotify ==
  /\ notify # <<>> /\ notify' = Tail(notify)
  /\ LET d == Head(notify)
     IN  IF d \in busMap
           THEN /\ busMap' = busMap \ {d}
                /\ busList' = ListRemove(busList, d)
                /\ age' = [age EXCEPT ![d] = 0]
                /\ proxy' = [proxy EXCEPT ![d] = "parked"]
                /\ closes' = [closes EXCEPT ![d] = @ + 1]
           ELSE /\ proxy' = [proxy EXCEPT ![d] = "closed"]
                /\ UNCHANGED <<busMap, busList, age, closes>>
  /\ UNCHANGED <<pc, regist, writeMsg, pong, connVars, breaks>>

-----------------------------------------------------------------------------
(* HandleConn and dhnsWrite *)

\* Mutant: whatever is connected is detached.
MutCloseConn(c) ==
  /\ lastConn' = NoConn
  /\ sock' = IF lastConn # NoConn THEN [sock EXCEPT ![lastConn] = "closed"] ELSE sock

\* closeConn: detaches and closes c if c is the one that is attached.
closeConn(c) ==
  IF lastConn = c
    THEN lastConn' = NoConn /\ sock' = [sock EXCEPT ![c] = "closed"]
    ELSE UNCHANGED <<lastConn, sock>>

\* Mutant: the reader returns without the deferred closeConn.
MutReadFail(c) ==
  /\ reader[c] = "reading" /\ sock[c] \in {"gone", "closed"}
  /\ reader' = [reader EXCEPT ![c] = "none"]
  /\ UNCHANGED <<pc, busVars, proxy, writeMsg, pong, lastConn, sock, writer, cli, breaks>>

\* ReadMessage fails once the other side or this one has closed; the 60s
\* deadline of a silent peer is a break.
ReadFail(c) ==
  /\ reader[c] = "reading" /\ sock[c] \in {"gone", "closed"}
  /\ reader' = [reader EXCEPT ![c] = "none"]
  /\ closeConn(c)
  /\ UNCHANGED <<pc, busVars, proxy, writeMsg, pong, writer, cli, breaks>>

\* A ping arrives; the reader now has to send on pongCh.
ReadPing(c) ==
  /\ reader[c] = "reading" /\ sock[c] = "open"
  /\ reader' = [reader EXCEPT ![c] = "ponging"]
  /\ UNCHANGED <<pc, busVars, proxy, writeMsg, pong, lastConn, sock, writer, cli, breaks>>

PutPong(c) ==
  /\ reader[c] = "ponging" /\ pong < 1
  /\ pong' = pong + 1
  /\ reader' = [reader EXCEPT ![c] = "reading"]
  /\ UNCHANGED <<pc, busVars, proxy, writeMsg, lastConn, sock, writer, cli, breaks>>

\* A write fails on a closed connection, and may fail or vanish in a buffer
\* when the peer has gone; the writer ends with closeConn.
Written(c) ==
  \/ sock[c] \in {"open", "gone"} /\ UNCHANGED <<lastConn, sock, writer>>
  \/ /\ sock[c] \in {"gone", "closed"}
     /\ writer' = [writer EXCEPT ![c] = FALSE]
     /\ closeConn(c)

WritePong(c) ==
  /\ writer[c] /\ pong > 0 /\ pong' = pong - 1
  /\ Written(c)
  /\ UNCHANGED <<pc, busVars, proxy, writeMsg, reader, cli, breaks>>

WriteNewConn(c) ==
  /\ writer[c] /\ writeMsg # <<>> /\ writeMsg' = Tail(writeMsg)
  /\ Written(c)
  /\ proxy' = IF sock[c] = "open" THEN [proxy EXCEPT ![Head(writeMsg)] = "sent"] ELSE proxy
  /\ UNCHANGED <<pc, busVars, pong, reader, cli, breaks>>

-----------------------------------------------------------------------------
(* The helper *)

\* runConnect connects and HandleConn takes the connection or, having one
\* already, closes it.
Connect(c) ==
  /\ cli = NoConn /\ cli' = c
  /\ sock[c] = "free" /\ reader[c] = "none" /\ ~writer[c]
  /\ IF lastConn = NoConn
       THEN /\ lastConn' = c
            /\ sock' = [sock EXCEPT ![c] = "open"]
            /\ reader' = [reader EXCEPT ![c] = "reading"]
            /\ writer' = [writer EXCEPT ![c] = TRUE]
       ELSE /\ sock' = [sock EXCEPT ![c] = "closed"]
            /\ UNCHANGED <<lastConn, reader, writer>>
  /\ UNCHANGED <<pc, busVars, proxy, writeMsg, pong, breaks>>

\* connRead fails when the server has closed: close, sleep, connect again.
ClientEOF ==
  /\ cli # NoConn /\ sock[cli] = "closed"
  /\ cli' = NoConn
  /\ UNCHANGED <<pc, busVars, proxy, writeMsg, pong, lastConn, sock, reader, writer, breaks>>

\* The helper is killed or restarted, or times out: it leaves its connection.
ClientBreak ==
  /\ breaks < MaxBreaks /\ breaks' = breaks + 1
  /\ cli # NoConn
  /\ sock' = [sock EXCEPT ![cli] = IF @ = "open" THEN "gone" ELSE @]
  /\ cli' = NoConn
  /\ UNCHANGED <<pc, busVars, proxy, writeMsg, pong, lastConn, reader, writer>>

\* The server's deadline passes, or a write to a stuck peer times out.
ServerBreak ==
  /\ breaks < MaxBreaks /\ breaks' = breaks + 1
  /\ \E c \in Conns :
       /\ reader[c] = "reading"
       /\ reader' = [reader EXCEPT ![c] = "none"]
       /\ closeConn(c)
  /\ UNCHANGED <<pc, busVars, proxy, writeMsg, pong, writer, cli>>

\* Both ends are done with a connection: a model value for a new one.  A
\* writer still blocked in its select keeps it.
Reuse(c) ==
  /\ sock[c] \in {"closed", "gone"} /\ reader[c] = "none" /\ ~writer[c] /\ cli # c
  /\ sock' = [sock EXCEPT ![c] = "free"]
  /\ UNCHANGED <<pc, busVars, proxy, writeMsg, pong, lastConn, reader, writer, cli, breaks>>

\* The helper connects back with the id and DhnsProxy hands the connection to
\* connItemNotify.
PutDhnsConn(d) ==
  /\ proxy[d] = "sent" /\ Len(notify) < NotifyCap
  /\ proxy' = [proxy EXCEPT ![d] = "notify"]
  /\ notify' = Append(notify, d)
  /\ UNCHANGED <<pc, closes, regist, busMap, busList, age, writeMsg, pong, connVars, breaks>>

\* It fails to connect back.
ProxyFails(d) ==
  /\ proxy[d] = "sent"
  /\ proxy' = [proxy EXCEPT ![d] = "none"]
  /\ UNCHANGED <<pc, busVars, writeMsg, pong, connVars, breaks>>

-----------------------------------------------------------------------------
DialStep(d) == connItemRegist(d) \/ SendNewConn(d) \/ DialReturn(d)

Server(c) == ReadFail(c) \/ PutPong(c) \/ WritePong(c) \/ WriteNewConn(c)

Next ==
  \/ \E d \in Dials : Dial(d) \/ DialStep(d) \/ PutDhnsConn(d) \/ ProxyFails(d)
  \/ BusTick \/ BusRegist \/ BusNotify
  \/ \E c \in Conns : Server(c) \/ ReadPing(c) \/ Connect(c) \/ Reuse(c)
  \/ ClientEOF \/ ClientBreak \/ ServerBreak

Spec == Init /\ [][Next]_vars

\* Goroutines run, the ticker ticks, and runConnect always tries again.  The
\* select of dhnsWrite picks at random among the cases that are ready, so one
\* that is ready again and again is taken: strong fairness.  Nothing is
\* assumed of pings, of breaks or of new dials.
Fairness ==
  /\ \A d \in Dials : WF_vars(DialStep(d)) /\ WF_vars(PutDhnsConn(d) \/ ProxyFails(d))
  /\ WF_vars(BusTick) /\ WF_vars(BusRegist) /\ WF_vars(BusNotify)
  /\ \A c \in Conns : /\ WF_vars(ReadFail(c)) /\ WF_vars(PutPong(c))
                      /\ SF_vars(WritePong(c)) /\ SF_vars(WriteNewConn(c))
                      /\ WF_vars(Reuse(c))
  /\ WF_vars(\E c \in Conns : Connect(c)) /\ WF_vars(ClientEOF)

FairSpec == Spec /\ Fairness

-----------------------------------------------------------------------------
Elems(s) == {s[i] : i \in 1 .. Len(s)}

\* Every item has one owner until its channel is closed, and it is closed
\* once: a second close, or a send after it, would panic in connBus and with
\* it end the whole service.
ItemClosedOnce ==
  \A d \in Dials :
    /\ closes[d] <= 1
    /\ d \in Elems(busList) <=> d \in busMap
    /\ d \in busMap \union Elems(regist) => closes[d] = 0

\* The list is in order of age, which lets the sweep stop at the first item
\* that has not expired.
ListByAge == \A i \in 1 .. Len(busList) : \A j \in 1 .. i :
               age[busList[i]] <= age[busList[j]]

\* The attached connection has a reader, which will notice its end and
\* detach it: with a dead one attached HandleConn would turn every helper
\* away for ever.
AttachedIsServed ==
  lastConn # NoConn => reader[lastConn] # "none" /\ sock[lastConn] \in {"open", "gone"}

\* A healthy attached connection is only detached by a failure of its own:
\* the reader and the writer of an earlier one, which may end at any time
\* and run closeConn, leave it alone.
HealthyStaysAttached ==
  [][lastConn # NoConn /\ sock[lastConn] = "open" /\ lastConn' # lastConn
       => breaks' > breaks]_vars

\* A dial that has given up leaves no connection behind in its channel, and
\* a connection is only ever given to the dial that asked for it.
NoParkedOrphan ==
  \A d \in Dials : /\ pc[d] = "eof" => proxy[d] \notin {"parked", "taken"}
                   /\ proxy[d] = "taken" => pc[d] = "got"

\* Every DialDhns returns, with stale writers, lost messages, late answers
\* and a full writeMsgCh.
DialEnds == \A d \in Dials : pc[d] = "regist" ~> pc[d] \in {"got", "eof"}

\* When failures end, the helper and the server agree on one connection for
\* good, whatever stale readers and writers are left over.
Reconnects == <>[](lastConn # NoConn /\ lastConn = cli)

\* The bus: items have one owner and are closed once, in the order of their age, and no
\* answer that comes late leaves a connection behind.
BusSound == TypeOK /\ ItemClosedOnce /\ ListByAge /\ NoParkedOrphan
=============================================================================
