---------------------------- MODULE NetworkProofs ----------------------------
(***************************************************************************)
(* What the network's pages promise, for any bounds: the cached online     *)
(* status (OnlineChecker), for any number of requests, configurations and  *)
(* goroutines and any expiry times, the setup guide's services             *)
(* (GuideServices) and the Wi-Fi page (Wireless), for plans that are cut   *)
(* off at any command.                                                     *)
(***************************************************************************)
EXTENDS OnlineChecker, GuideServices, Wireless, DataLemmas

ReqType == {NoReq} \union [pc : {"lock"}, key : Keys, lag : 0 .. MaxLag]
CheckType == {NoCheck} \union
             [pc : {"dns", "tcp", "feed", "publish"}, key : Keys,
              status : Failed \union {"netSuccess"}]

-----------------------------------------------------------------------------
(* The online status: types                                                *)

\* A new checker.
LEMMA InitType == Init => TypeOK
<1> SUFFICES ASSUME Init PROVE TypeOK
  OBVIOUS
<1>1. age \in 0 .. MaxAge /\ stale \in Nat
  BY CheckerAssumption DEF Init, MaxAge
<1>2. status \in Status /\ answer \in Status
  BY DEF Init, Status
<1>3. req \in [Requests -> ReqType] /\ check \in [Checks -> CheckType]
  BY DEF Init, ReqType, CheckType
<1>4. checking \in BOOLEAN /\ cacheKey = NoKey /\ net \in Net /\ last = NoKey
  BY DEF Init
<1> QED BY <1>1, <1>2, <1>3, <1>4 DEF TypeOK, ReqType, CheckType

\* The end of GetStatus, whatever it answers.
LEMMA ReturnType ==
  ASSUME TypeOK, NEW r \in Requests, NEW s \in Status, Return(r, s)
  PROVE  /\ answer' \in Status /\ req' \in [Requests -> ReqType]
         /\ stale' \in Nat /\ UNCHANGED <<age, cacheKey, net, last>>
  BY DEF TypeOK, Return, ReqType

\* A doCheck starts in a slot of its own.
LEMMA StartCheckType ==
  ASSUME TypeOK, NEW k \in Keys, StartCheck(k)
  PROVE  check' \in [Checks -> CheckType]
  BY DEF TypeOK, StartCheck, CheckType, Failed

\* Only a pending request is answered, so its key is one of Keys.
LEMMA PendingKey ==
  ASSUME TypeOK, NEW r \in Requests, req[r].pc = "lock"
  PROVE  req[r].key \in Keys /\ req[r].lag \in 0 .. MaxLag
  BY DEF TypeOK, NoReq

\* The locked part of GetStatus keeps the types.
LEMMA GetStatusType ==
  ASSUME TypeOK, NEW r \in Requests, GetStatus(r)
  PROVE  TypeOK'
<1>1. CASE UNCHANGED <<checking, status, check>>
  <2>1. PICK s \in Status : Return(r, s)
    BY <1>1 DEF GetStatus, TypeOK, Status
  <2> QED BY <1>1, <2>1, ReturnType DEF TypeOK, ReqType
<1>2. CASE /\ checking' = TRUE
           /\ status' = (IF status = "netSuccess" THEN status ELSE "netDetecting")
           /\ Return(r, status')
           /\ StartCheck(req[r].key)
  <2>1. status' \in Status
    BY <1>2 DEF TypeOK, Status
  <2>2. req[r].key \in Keys
    BY PendingKey DEF GetStatus
  <2>3. check' \in [Checks -> CheckType]
    BY <1>2, <2>2, StartCheckType
  <2>4. checking' \in BOOLEAN
    BY <1>2
  <2> QED BY <1>2, <2>1, <2>3, <2>4, ReturnType DEF TypeOK, ReqType, CheckType
<1> QED BY <1>1, <1>2 DEF GetStatus

\* One step of a check keeps the types.
LEMMA DoCheckType ==
  ASSUME TypeOK, NEW c \in Checks, DoCheck(c)
  PROVE  TypeOK'
<1>1. check[c] \in CheckType /\ check[c].pc # "idle"
  BY DEF TypeOK, CheckType, DoCheck, ProbeDns, ProbeTcp, ProbeFeed, CheckGoto, Publish
<1>2. check[c].key \in Keys /\ check[c].status \in Failed \union {"netSuccess"}
  BY <1>1 DEF CheckType, NoCheck
<1>3. CASE ProbeDns(c)
  <2>1. check' \in [Checks -> CheckType]
    BY <1>1, <1>2, <1>3 DEF TypeOK, ProbeDns, CheckGoto, CheckType
  <2> QED BY <1>3, <2>1 DEF TypeOK, ProbeDns, CheckGoto, CheckType
<1>4. CASE ProbeTcp(c)
  <2>1. check' \in [Checks -> CheckType]
    BY <1>1, <1>2, <1>4 DEF TypeOK, ProbeTcp, CheckGoto, CheckType, Failed
  <2> QED BY <1>4, <2>1 DEF TypeOK, ProbeTcp, CheckGoto, CheckType
<1>5. CASE ProbeFeed(c)
  <2>1. check' \in [Checks -> CheckType]
    BY <1>1, <1>2, <1>5 DEF TypeOK, ProbeFeed, CheckGoto, CheckType, Failed
  <2> QED BY <1>5, <2>1 DEF TypeOK, ProbeFeed, CheckGoto, CheckType
<1>6. CASE Publish(c)
  <2>1. check' \in [Checks -> CheckType]
    BY <1>6 DEF TypeOK, Publish, CheckType
  <2>2. age' \in 0 .. MaxAge /\ stale' \in Nat
    BY <1>6, CheckerAssumption DEF Publish, MaxAge
  <2>3. checking' \in BOOLEAN
    BY <1>6 DEF Publish
  <2>4. status' \in Status /\ cacheKey' \in Keys /\ last' \in Keys
    BY <1>2, <1>6 DEF Publish, Status
  <2> QED BY <1>6, <2>1, <2>2, <2>3, <2>4 DEF TypeOK, Publish, CheckType
<1> QED BY <1>3, <1>4, <1>5, <1>6 DEF DoCheck

\* Every step keeps the types.
LEMMA NextType == TypeOK /\ [Next]_vars => TypeOK'
<1> SUFFICES ASSUME TypeOK, [Next]_vars PROVE TypeOK'
  OBVIOUS
<1>1. CASE UNCHANGED vars
  BY <1>1 DEF TypeOK, vars
<1>2. ASSUME NEW r \in Requests, Request(r) PROVE TypeOK'
  BY <1>2, CheckerAssumption DEF TypeOK, Request
<1>3. CASE Tick
  <2>1. req' \in [Requests -> ReqType]
    <3>1. ASSUME NEW r \in Requests PROVE req'[r] \in ReqType
      <4>1. CASE req[r].pc = "lock"
        <5>1. req[r] \in [pc : {"lock"}, key : Keys, lag : 0 .. MaxLag] /\ req[r].lag < MaxLag
          BY <1>3, <4>1 DEF TypeOK, Tick, NoReq
        <5> QED BY <1>3, <4>1, <5>1, CheckerAssumption DEF Tick, ReqType
      <4>2. CASE req[r].pc # "lock"
        BY <1>3, <4>2 DEF TypeOK, Tick, ReqType
      <4> QED BY <4>1, <4>2
    <3> QED BY <1>3, <3>1 DEF Tick
  <2> QED BY <1>3, <2>1, CheckerAssumption DEF TypeOK, Tick, ReqType, MaxAge
<1>4. CASE NetChange
  BY <1>4 DEF TypeOK, NetChange
<1> QED BY <1>1, <1>2, <1>3, <1>4, GetStatusType, DoCheckType DEF Next

\* The fields of the checker, its goroutines and the answers keep their
\* types; in particular no check publishes "netDetecting".
THEOREM TypeCorrect == Spec => []TypeOK
<1>1. TypeOK /\ [Next]_vars => TypeOK'
  BY NextType
<1> QED BY <1>1, InitType, PTL DEF Spec

-----------------------------------------------------------------------------
(* The online status: one check at a time                                  *)

\* Only a request that finds checking unset starts a check, and sets it.
LEMMA SingleCheckStep ==
  ASSUME TypeOK, SingleCheck, [Next]_vars
  PROVE  SingleCheck'
<1>1. CASE UNCHANGED <<checking, check>>
  BY <1>1 DEF SingleCheck
<1>2. ASSUME NEW r \in Requests, GetStatus(r), ~(UNCHANGED <<checking, check>>)
      PROVE  SingleCheck'
  <2>1. ~checking /\ checking' = TRUE /\ StartCheck(req[r].key)
    BY <1>2 DEF GetStatus
  <2>2. PICK c \in Checks : /\ check[c].pc = "idle"
                            /\ check' = [check EXCEPT ![c] =
                                 [pc |-> "dns", key |-> req[r].key,
                                  status |-> "softSourceFailed"]]
    BY <2>1 DEF StartCheck
  <2>3. \A d \in Checks : check[d].pc = "idle"
    BY <2>1 DEF SingleCheck
  <2>4. \A d \in Checks : check'[d].pc # "idle" <=> d = c
    BY <2>2, <2>3 DEF TypeOK
  <2> QED BY <2>1, <2>4 DEF SingleCheck
<1>3. ASSUME NEW c \in Checks, DoCheck(c) PROVE SingleCheck'
  <2>1. check[c].pc # "idle" /\ \A d \in Checks : d # c => check[d].pc = "idle"
    BY <1>3 DEF SingleCheck, DoCheck, ProbeDns, ProbeTcp, ProbeFeed, CheckGoto, Publish
  <2>2. CASE Publish(c)
    <3>1. \A d \in Checks : check'[d].pc = "idle"
      BY <2>1, <2>2 DEF Publish, NoCheck, TypeOK
    <3> QED BY <2>2, <3>1 DEF SingleCheck, Publish
  <2>3. CASE ProbeDns(c) \/ ProbeTcp(c) \/ ProbeFeed(c)
    <3>1. \A d \in Checks : check'[d].pc # "idle" <=> d = c
      BY <2>1, <2>3 DEF ProbeDns, ProbeTcp, ProbeFeed, CheckGoto, TypeOK
    <3>2. checking /\ checking' = checking
      BY <2>1, <2>3 DEF SingleCheck, ProbeDns, ProbeTcp, ProbeFeed, CheckGoto
    <3> QED BY <3>1, <3>2 DEF SingleCheck
  <2> QED BY <1>3, <2>2, <2>3 DEF DoCheck
<1>4. ASSUME NEW r \in Requests, Request(r) PROVE UNCHANGED <<checking, check>>
  BY <1>4 DEF Request
<1>5. Tick \/ NetChange => UNCHANGED <<checking, check>>
  BY DEF Tick, NetChange
<1> QED BY <1>1, <1>2, <1>3, <1>4, <1>5 DEF Next, vars

\* At most one doCheck goroutine runs, and checking says whether one does,
\* however many requests arrive while it probes.
THEOREM OneCheck == Spec => []SingleCheck
<1>1. Init => SingleCheck
  BY DEF Init, SingleCheck, NoCheck
<1>2. TypeOK /\ SingleCheck /\ [Next]_vars => SingleCheck'
  BY SingleCheckStep
<1> QED BY <1>1, <1>2, TypeCorrect, PTL DEF Spec

-----------------------------------------------------------------------------
(* The online status: old answers                                          *)

\* The key in the cache is that of the last published check, and an outdated
\* OK is only answered by the request that sets checking.
CacheInv ==
  /\ cacheKey = last
  /\ stale \in {0, 1}
  /\ ~checking => stale = 0

\* An OK answered from the cache is for its key and in time; the other one
\* sets checking, and only a publication unsets it.
LEMMA CacheStep ==
  ASSUME TypeOK, CacheInv, [Next]_vars
  PROVE  CacheInv'
<1>1. CASE UNCHANGED <<cacheKey, last, stale, checking>>
  BY <1>1 DEF CacheInv
<1>2. ASSUME NEW r \in Requests, GetStatus(r) PROVE CacheInv'
  <2>1. req[r].lag \in Nat /\ age \in Nat
    BY <1>2, PendingKey, CheckerAssumption DEF GetStatus, TypeOK, MaxAge
  <2>2. CASE checking /\ Return(r, "netDetecting") /\ UNCHANGED checking
    BY <2>2 DEF CacheInv, Return
  <2>3. CASE /\ ~checking /\ cacheKey = req[r].key /\ Recent(r)
             /\ Return(r, status) /\ UNCHANGED checking
    <3>1. status = "netSuccess" => ~(req[r].key # last \/ age >= CheckOKSec + req[r].lag)
      BY <2>1, <2>3, CheckerAssumption DEF CacheInv, Recent, CheckSec
    <3>2. stale' = stale
      BY <2>3, <3>1 DEF Return
    <3> QED BY <2>3, <3>2 DEF CacheInv, Return
  <2>4. CASE ~checking /\ checking' = TRUE /\ Return(r, status')
    <3>1. stale' \in {0, 1}
      BY <2>4 DEF CacheInv, Return
    <3> QED BY <2>4, <3>1 DEF CacheInv, Return
  <2> QED BY <1>2, <2>2, <2>3, <2>4 DEF GetStatus
<1>3. ASSUME NEW c \in Checks, DoCheck(c) PROVE CacheInv'
  <2>1. CASE Publish(c)
    BY <2>1 DEF Publish, CacheInv
  <2>2. CASE ProbeDns(c) \/ ProbeTcp(c) \/ ProbeFeed(c)
    BY <1>1, <2>2 DEF ProbeDns, ProbeTcp, ProbeFeed, CheckGoto
  <2> QED BY <1>3, <2>1, <2>2 DEF DoCheck
<1>4. ASSUME NEW r \in Requests, Request(r) PROVE CacheInv'
  BY <1>1, <1>4 DEF Request
<1>5. Tick \/ NetChange => CacheInv'
  BY <1>1 DEF Tick, NetChange
<1> QED BY <1>1, <1>2, <1>3, <1>4, <1>5 DEF Next, vars

\* CacheInv holds always.
LEMMA CacheInvariant == Spec => []CacheInv
<1>1. Init => CacheInv
  BY DEF Init, CacheInv
<1>2. TypeOK /\ CacheInv /\ [Next]_vars => CacheInv'
  BY CacheStep
<1> QED BY <1>1, <1>2, TypeCorrect, PTL DEF Spec

\* GetStatus answers at most one outdated OK between two published checks.
THEOREM OutdatedOKServedOnce == Spec => []OutdatedOKOnce
<1>1. CacheInv => OutdatedOKOnce
  BY DEF CacheInv, OutdatedOKOnce
<1> QED BY <1>1, CacheInvariant, PTL

\* GetStatus never answers a failure measured for another configuration, or
\* one older than checkFailedSec by the request's clock.
THEOREM FailuresAreCurrent == Spec => FailureIsCurrent
<1> DEFINE Ok(r) == req[r].pc = "lock" /\ req'[r].pc = "idle" /\ answer' \in Failed
                      => req[r].key = last /\ age < CheckFailedSec + req[r].lag
<1>1. ASSUME TypeOK, CacheInv, [Next]_vars, NEW r \in Requests PROVE Ok(r)
  <2> SUFFICES ASSUME req[r].pc = "lock", req'[r].pc = "idle", answer' \in Failed
               PROVE  req[r].key = last /\ age < CheckFailedSec + req[r].lag
    OBVIOUS
  <2>1. GetStatus(r)
    <3>1. req'[r] # req[r]
      OBVIOUS
    <3>2. ASSUME NEW q \in Requests, Request(q) PROVE FALSE
      BY <1>1, <3>2 DEF Request, TypeOK
    <3>3. ASSUME NEW q \in Requests, GetStatus(q), q # r PROVE FALSE
      <4>1. req' = [req EXCEPT ![q] = NoReq]
        BY <3>3 DEF GetStatus, Return
      <4> QED BY <1>1, <3>1, <3>3, <4>1 DEF TypeOK
    <3>4. ASSUME Tick PROVE FALSE
      BY <3>4 DEF Tick
    <3>5. ASSUME NEW c \in Checks, DoCheck(c) PROVE FALSE
      BY <3>1, <3>5 DEF DoCheck, ProbeDns, ProbeTcp, ProbeFeed, CheckGoto, Publish
    <3>6. ASSUME NetChange PROVE FALSE
      BY <3>1, <3>6 DEF NetChange
    <3>7. vars' # vars
      BY <3>1 DEF vars
    <3> QED BY <1>1, <3>2, <3>3, <3>4, <3>5, <3>6, <3>7 DEF Next
  <2>2. ASSUME NEW s, Return(r, s) PROVE answer' = s
    BY <1>1, <2>2 DEF Return, TypeOK
  <2>3. "netDetecting" \notin Failed /\ "netSuccess" \notin Failed
    BY DEF Failed
  <2>4. /\ cacheKey = req[r].key /\ Recent(r)
        /\ Return(r, status)
    BY <2>1, <2>2, <2>3 DEF GetStatus
  <2>5. status # "netSuccess"
    BY <2>2, <2>3, <2>4
  <2> QED BY <1>1, <2>4, <2>5 DEF Recent, CheckSec, CacheInv
<1>2. TypeOK /\ CacheInv /\ [Next]_vars => [\A r \in Requests : Ok(r)]_vars
  BY <1>1
<1> QED BY <1>2, TypeCorrect, CacheInvariant, PTL DEF Spec, FailureIsCurrent

-----------------------------------------------------------------------------
(* The guide's services: the packages after each command                   *)

IsRun(s, cmds, n, f) == f = [k \in 0 .. n |-> IF k = 0 THEN s ELSE Exec(f[k - 1], cmds[k])]

LEMMA RunExists ==
  ASSUME NEW s, NEW cmds
  PROVE  \A n \in Nat : \E f : IsRun(s, cmds, n, f)
<1> DEFINE Good == {n \in Nat : \E f : IsRun(s, cmds, n, f)}
<1>1. 0 \in Good
  <2> DEFINE f == [k \in 0 .. 0 |-> s]
  <2>1. f = [k \in 0 .. 0 |-> IF k = 0 THEN s ELSE Exec(f[k - 1], cmds[k])]
    OBVIOUS
  <2>2. IsRun(s, cmds, 0, f)
    BY <2>1 DEF IsRun
  <2> QED BY <2>2
<1>2. ASSUME NEW n \in Nat, n \in Good PROVE n + 1 \in Good
  <2>1. PICK f : IsRun(s, cmds, n, f)
    BY <1>2
  <2> DEFINE g == [k \in 0 .. n + 1 |-> IF k = 0 THEN s ELSE Exec(f[k - 1], cmds[k])]
  <2>2. \A k \in 0 .. n : g[k] = f[k]
    <3> TAKE k \in 0 .. n
    <3>1. k \in 0 .. n + 1
      OBVIOUS
    <3>2. f[k] = IF k = 0 THEN s ELSE Exec(f[k - 1], cmds[k])
      BY <2>1 DEF IsRun
    <3> QED BY <3>1, <3>2
  <2>3. \A k \in 0 .. n + 1 : k # 0 => g[k - 1] = f[k - 1]
    <3> TAKE k \in 0 .. n + 1
    <3> HAVE k # 0
    <3>1. k - 1 \in 0 .. n
      OBVIOUS
    <3> HIDE DEF g
    <3> QED BY <3>1, <2>2
  <2>4. \A k \in 0 .. n + 1 : g[k] = IF k = 0 THEN s ELSE Exec(g[k - 1], cmds[k])
    <3> TAKE k \in 0 .. n + 1
    <3>1. g[k] = IF k = 0 THEN s ELSE Exec(f[k - 1], cmds[k])
      OBVIOUS
    <3> HIDE DEF g
    <3> QED BY <3>1, <2>3
  <2>5. g = [k \in 0 .. n + 1 |-> g[k]]
    OBVIOUS
  <2> HIDE DEF g
  <2>6. IsRun(s, cmds, n + 1, g)
    BY <2>4, <2>5 DEF IsRun
  <2> QED BY <2>6
<1>3. Nat \subseteq Good
  <2> HIDE DEF Good
  <2> QED BY <1>1, <1>2, NatInSet
<1> QED BY <1>3

\* The commands of a shell run one after the other.
LEMMA RunIs ==
  ASSUME NEW s, NEW cmds, Len(cmds) \in Nat
  PROVE  /\ BatchRun(s, cmds)[0] = s
         /\ \A k \in 1 .. Len(cmds) : BatchRun(s, cmds)[k] = Exec(BatchRun(s, cmds)[k - 1], cmds[k])
<1> DEFINE f == BatchRun(s, cmds)
<1>1. f = CHOOSE g : IsRun(s, cmds, Len(cmds), g)
  BY DEF BatchRun, IsRun
<1>2. IsRun(s, cmds, Len(cmds), f)
  BY <1>1, RunExists
<1> HIDE DEF f
<1>3. f = [k \in 0 .. Len(cmds) |-> IF k = 0 THEN s ELSE Exec(f[k - 1], cmds[k])]
  BY <1>2 DEF IsRun
<1>4. f[0] = s
  BY <1>3
<1>5. \A k \in 1 .. Len(cmds) : f[k] = Exec(f[k - 1], cmds[k])
  BY <1>3
<1> QED BY <1>4, <1>5 DEF f

-----------------------------------------------------------------------------
(* The guide's services: one command                                       *)

Tracker == Dl("aria2", "bt_tracker")
Sides(f, t, l) == [file |-> f, staged |-> t, live |-> l]
\* A value of an option that is no list.
Single(v) == v = Unset \/ \E x : v = <<x>>
SideOK(v) == /\ v = [o \in SvcOptions |-> v[o]]
             /\ \A o \in SvcOptions : o # Tracker => Single(v[o])
Put(t, o, v) == [t EXCEPT ![o] = v]

LEMMA SidesAre ==
  \A f, t, l : /\ Sides(f, t, l).file = f /\ Sides(f, t, l).staged = t /\ Sides(f, t, l).live = l
               /\ DOMAIN Sides(f, t, l) = {"file", "staged", "live"}
BY DEF Sides

LEMMA CommandIs ==
  ASSUME NEW f, NEW t, NEW l
  PROVE  /\ \A o, v : Exec(Sides(f, t, l), Set(o, v)) = Sides(f, Put(t, o, <<v>>), l)
         /\ \A o : Exec(Sides(f, t, l), Del(o)) = Sides(f, Put(t, o, Unset), l)
         /\ \A o, v : Exec(Sides(f, t, l), AddList(o, v)) = Sides(f, Put(t, o, t[o] \o <<v>>), l)
         /\ \A p : Exec(Sides(f, t, l), Commit(p)) = Sides(OfPackage(f, t, p), t, l)
         /\ \A p : Exec(Sides(f, t, l), Event(p)) = Sides(f, t, OfPackage(l, f, p))
<1>1. \A o, v : Exec(Sides(f, t, l), Set(o, v)) = Sides(f, Put(t, o, <<v>>), l)
  BY DEF Exec, ExecOne, Set, Sides, Put
<1>2. \A o : Exec(Sides(f, t, l), Del(o)) = Sides(f, Put(t, o, Unset), l)
  BY DEF Exec, ExecOne, Del, Sides, Put
<1>3. \A o, v : Exec(Sides(f, t, l), AddList(o, v)) = Sides(f, Put(t, o, t[o] \o <<v>>), l)
  BY DEF Exec, ExecOne, AddList, Sides, Put
<1>4. \A p : Exec(Sides(f, t, l), Commit(p)) = Sides(OfPackage(f, t, p), t, l)
  BY DEF Exec, ExecOne, Commit, Sides
<1>5. \A p : Exec(Sides(f, t, l), Event(p)) = Sides(f, t, OfPackage(l, f, p))
  BY DEF Exec, ExecOne, Event, Sides
<1> QED BY <1>1, <1>2, <1>3, <1>4, <1>5

LEMMA PutIs ==
  ASSUME NEW t, SideOK(t), NEW o \in SvcOptions, NEW v
  PROVE  /\ Put(t, o, v)[o] = v
         /\ \A x \in SvcOptions : x # o => Put(t, o, v)[x] = t[x]
         /\ (o = Tracker \/ Single(v)) => SideOK(Put(t, o, v))
<1>1. DOMAIN t = SvcOptions
  BY DEF SideOK
<1>2. Put(t, o, v)[o] = v /\ \A x \in SvcOptions : x # o => Put(t, o, v)[x] = t[x]
  BY <1>1 DEF Put
<1>3. Put(t, o, v) = [x \in SvcOptions |-> Put(t, o, v)[x]]
  BY <1>1 DEF Put
<1> QED BY <1>2, <1>3 DEF SideOK

LEMMA PackageIs ==
  ASSUME NEW f, NEW t, SideOK(f), SideOK(t), NEW p
  PROVE  /\ SideOK(OfPackage(f, t, p))
         /\ \A x \in SvcOptions : OfPackage(f, t, p)[x] = IF x[1] = p THEN t[x] ELSE f[x]
<1>1. DOMAIN f = SvcOptions
  BY DEF SideOK
<1>2. \A x \in SvcOptions : OfPackage(f, t, p)[x] = IF x[1] = p THEN t[x] ELSE f[x]
  BY <1>1 DEF OfPackage
<1>3. OfPackage(f, t, p) = [x \in SvcOptions |-> OfPackage(f, t, p)[x]]
  BY <1>1 DEF OfPackage
<1> QED BY <1>2, <1>3 DEF SideOK
\* The options a request writes are there, each in its package, and no two of them are one.
LEMMA DlOptions ==
  /\ \A k \in Kinds, o \in {"config", "dir", "enabled"} :
       Dl(k, o) \in SvcOptions /\ Dl(k, o) # Tracker /\ Dl(k, o)[1] = k /\ Dl(k, o)[2] = o
  /\ Dl("aria2", "secret") \in SvcOptions /\ Dl("aria2", "secret") # Tracker
  /\ Dl("aria2", "secret")[1] = "aria2" /\ Dl("aria2", "secret")[2] = "secret"
  /\ Tracker \in SvcOptions /\ Tracker[1] = "aria2" /\ Tracker[2] = "bt_tracker"
BY DEF Dl, SvcOptions, Kinds, Tracker

LEMMA DdnsOptions ==
  ASSUME NEW v \in Versions, NEW o \in {"domain", "service", "interface", "ip_source", "ip_network", "ip_url"}
  PROVE  Ddns(v, o) \in SvcOptions /\ Ddns(v, o)[1] = "ddns" /\ Ddns(v, o)[2] = v /\ Ddns(v, o)[3] = o
         /\ Ddns(v, o) # Tracker
<1>1. Ddns(v, o) \in SvcOptions
  BY DEF SvcOptions
<1>2. Ddns(v, o)[1] = "ddns" /\ Ddns(v, o)[2] = v /\ Ddns(v, o)[3] = o
  BY DEF Ddns
<1>3. Tracker[1] = "aria2"
  BY DEF Tracker, Dl
<1> QED BY <1>1, <1>2, <1>3

LEMMA DdnstoOptions ==
  ASSUME NEW o \in {"enabled", "token", "address"}
  PROVE  Ddnsto(o) \in SvcOptions /\ Ddnsto(o)[1] = "ddnsto" /\ Ddnsto(o)[2] = o /\ Ddnsto(o) # Tracker
<1>1. Ddnsto(o) \in SvcOptions
  BY DEF SvcOptions
<1>2. Ddnsto(o)[1] = "ddnsto" /\ Ddnsto(o)[2] = o
  BY DEF Ddnsto
<1>3. Tracker[1] = "aria2"
  BY DEF Tracker, Dl
<1> QED BY <1>1, <1>2, <1>3

-----------------------------------------------------------------------------
(* The guide's services: the invariant                                     *)

\* Sides with the options there are, no list among them but the trackers of aria2, of
\* which no more than n are staged.
Up(s, n) ==
  \E f, t, l : /\ s = Sides(f, t, l) /\ SideOK(f) /\ SideOK(t) /\ SideOK(l)
               /\ \/ t[Tracker] = Unset
                  \/ n >= 1 /\ \E x : t[Tracker] = <<x>>
                  \/ n >= 2 /\ \E x, y : t[Tracker] = <<x, y>>
Packages(s) == Up(s, 2)

\* A command that leaves the trackers alone.
Plain(c) ==
  \/ \E o \in SvcOptions : \E v : o # Tracker /\ (c = Set(o, v) \/ c = Del(o))
  \/ \E p : c = Commit(p) \/ c = Event(p)

LEMMA PlainKeeps ==
  ASSUME NEW s, Packages(s), NEW c, Plain(c)
  PROVE  Packages(Exec(s, c))
<1>1. PICK f, t, l :
        /\ s = Sides(f, t, l) /\ SideOK(f) /\ SideOK(t) /\ SideOK(l)
        /\ \/ t[Tracker] = Unset
           \/ \E x : t[Tracker] = <<x>>
           \/ \E x, y : t[Tracker] = <<x, y>>
  BY DEF Packages, Up
<1>2. ASSUME NEW o \in SvcOptions, NEW v, o # Tracker, Single(v) PROVE Packages(Sides(f, Put(t, o, v), l))
  <2>1. SideOK(Put(t, o, v)) /\ Put(t, o, v)[Tracker] = t[Tracker]
    BY <1>1, <1>2, PutIs, DlOptions
  <2> QED BY <1>1, <2>1 DEF Packages, Up
<1>3. ASSUME NEW o \in SvcOptions, NEW v, o # Tracker, c = Set(o, v) PROVE Packages(Exec(s, c))
  <2>1. Single(<<v>>)
    BY DEF Single
  <2> QED BY <1>1, <1>2, <1>3, <2>1, CommandIs
<1>4. ASSUME NEW o \in SvcOptions, o # Tracker, c = Del(o) PROVE Packages(Exec(s, c))
  <2>1. Single(Unset)
    BY DEF Single
  <2> QED BY <1>1, <1>2, <1>4, <2>1, CommandIs
<1>5. ASSUME NEW p, c = Commit(p) PROVE Packages(Exec(s, c))
  <2>1. Exec(s, c) = Sides(OfPackage(f, t, p), t, l)
    BY <1>1, <1>5, CommandIs
  <2>2. SideOK(OfPackage(f, t, p))
    BY <1>1, PackageIs
  <2> QED BY <1>1, <2>1, <2>2 DEF Packages, Up
<1>6. ASSUME NEW p, c = Event(p) PROVE Packages(Exec(s, c))
  <2>1. Exec(s, c) = Sides(f, t, OfPackage(l, f, p))
    BY <1>1, <1>6, CommandIs
  <2>2. SideOK(OfPackage(l, f, p))
    BY <1>1, PackageIs
  <2> QED BY <1>1, <2>1, <2>2 DEF Packages, Up
<1> QED BY <1>3, <1>4, <1>5, <1>6 DEF Plain

\* What every beginning of a plan leaves.
AllAlong(s, cmds) == Len(cmds) \in Nat /\ \A k \in 0 .. Len(cmds) : Packages(BatchRun(s, cmds)[k])

\* A plan that leaves the trackers alone can stop anywhere.
LEMMA PlainRun ==
  ASSUME NEW s, Packages(s), NEW cmds, Len(cmds) \in Nat, \A k \in 1 .. Len(cmds) : Plain(cmds[k])
  PROVE  AllAlong(s, cmds)
<1> DEFINE f == BatchRun(s, cmds)
           Good == {k \in Nat : k <= Len(cmds) => Packages(f[k])}
<1>0. f[0] = s /\ \A k \in 1 .. Len(cmds) : f[k] = Exec(f[k - 1], cmds[k])
  BY RunIs
<1> HIDE DEF f
<1>1. 0 \in Good
  BY <1>0
<1>2. ASSUME NEW k \in Nat, k \in Good PROVE k + 1 \in Good
  <2>1. SUFFICES ASSUME k + 1 <= Len(cmds) PROVE Packages(f[k + 1])
    OBVIOUS
  <2>2. Packages(f[k]) /\ k + 1 \in 1 .. Len(cmds) /\ (k + 1) - 1 = k
    BY <1>2, <2>1
  <2>3. f[k + 1] = Exec(f[k], cmds[k + 1])
    BY <1>0, <2>2
  <2> QED BY <2>2, <2>3, PlainKeeps
<1>3. Nat \subseteq Good
  <2> HIDE DEF Good
  <2> QED BY <1>1, <1>2, NatInSet
<1> QED BY <1>3 DEF f, AllAlong

-----------------------------------------------------------------------------
(* The guide's services: what a plan leaves                                *)

LEMMA ApplyOne ==
  \A p : UciCommitAndApply(<<p>>) = <<Commit(p), Event(p)>>
<1> TAKE p
<1>1. [n \in DOMAIN <<p>> |-> <<Commit(<<p>>[n]), Event(<<p>>[n])>>] = <<<<Commit(p), Event(p)>>>>
  OBVIOUS
<1> QED BY <1>1, FlattenFew DEF UciCommitAndApply

LEMMA PlansAre ==
  /\ \A c : Do(c).cmds = c /\ Do(c).ok
  /\ \A c : FailAfter(c).cmds = c /\ ~FailAfter(c).ok
  /\ Refuse.cmds = <<>> /\ ~Refuse.ok
BY Zenon DEF Do, FailAfter, Refuse

\* A command that writes w to the option, and one that leaves it as it is.
Writes(c, o, w) == (\E v : c = Set(o, v) /\ w = <<v>>) \/ (c = Del(o) /\ w = Unset)
Leaves(c, o) ==
  \/ \E x \in SvcOptions : \E v : x # o /\ (c = Set(x, v) \/ c = Del(x) \/ c = AddList(x, v))
  \/ \E p : c = Commit(p) \/ c = Event(p)

LEMMA WritesIt ==
  ASSUME NEW s, Packages(s), NEW c, NEW o \in SvcOptions, NEW w, Writes(c, o, w)
  PROVE  Exec(s, c).staged[o] = w
<1>1. PICK f, t, l : s = Sides(f, t, l) /\ SideOK(t)
  BY DEF Packages, Up
<1>2. \E u : u = w /\ Exec(s, c) = Sides(f, Put(t, o, u), l)
  BY <1>1, CommandIs DEF Writes
<1>3. Put(t, o, w)[o] = w
  BY <1>1, PutIs
<1> QED BY <1>2, <1>3, SidesAre

LEMMA LeavesIt ==
  ASSUME NEW s, Packages(s), NEW c, NEW o \in SvcOptions, Leaves(c, o)
  PROVE  Exec(s, c).staged[o] = s.staged[o]
<1>1. PICK f, t, l : s = Sides(f, t, l) /\ SideOK(t)
  BY DEF Packages, Up
<1>2. CASE \E x \in SvcOptions : \E v : x # o /\ (c = Set(x, v) \/ c = Del(x) \/ c = AddList(x, v))
  <2>0. PICK x \in SvcOptions : \E v : x # o /\ (c = Set(x, v) \/ c = Del(x) \/ c = AddList(x, v))
    BY <1>2
  <2>1. PICK v : x # o /\ (c = Set(x, v) \/ c = Del(x) \/ c = AddList(x, v))
    BY <2>0
  <2>2. \E u : Exec(s, c) = Sides(f, Put(t, x, u), l)
    <3>1. CASE c = Set(x, v)
      <4>1. Exec(s, c) = Sides(f, Put(t, x, <<v>>), l)
        BY <1>1, <3>1, CommandIs
      <4> QED BY <4>1
    <3>2. CASE c = Del(x)
      BY <1>1, <3>2, CommandIs
    <3>3. CASE c = AddList(x, v)
      <4>1. Exec(s, c) = Sides(f, Put(t, x, t[x] \o <<v>>), l)
        BY <1>1, <3>3, CommandIs
      <4> QED BY <4>1
    <3> QED BY <2>1, <3>1, <3>2, <3>3
  <2>3. \A u : Put(t, x, u)[o] = t[o]
    BY <1>1, <2>1, PutIs
  <2> QED BY <1>1, <2>2, <2>3, SidesAre
<1>3. CASE \E p : c = Commit(p) \/ c = Event(p)
  <2>1. \E g, h : Exec(s, c) = Sides(g, t, h)
    BY <1>1, <1>3, CommandIs
  <2> QED BY <1>1, <2>1, SidesAre
<1> QED BY <1>2, <1>3 DEF Leaves

\* Nothing about the option after place i; its value from there on.
LeftAfter(cmds, i, o) == \A j \in i + 1 .. Len(cmds) : Leaves(cmds[j], o)
StagedFrom(s, cmds, i, o, w) == \A k \in i .. Len(cmds) : BatchRun(s, cmds)[k].staged[o] = w

\* Of the commands about an option the last one counts.
LEMMA LastCounts ==
  ASSUME NEW s, NEW cmds, AllAlong(s, cmds), NEW o \in SvcOptions, NEW w,
         NEW i \in 1 .. Len(cmds), Writes(cmds[i], o, w), LeftAfter(cmds, i, o)
  PROVE  StagedFrom(s, cmds, i, o, w)
<1> DEFINE f == BatchRun(s, cmds)
           n == Len(cmds)
           Good == {k \in Nat : i <= k /\ k <= n => f[k].staged[o] = w}
<1>0. \A k \in 1 .. n : f[k] = Exec(f[k - 1], cmds[k])
  BY RunIs DEF AllAlong
<1>1. n \in Nat /\ \A k \in 0 .. n : Packages(f[k])
  BY DEF AllAlong
<1>a. \A j \in i + 1 .. n : Leaves(cmds[j], o)
  BY DEF LeftAfter
<1> HIDE DEF f, n
<1>2. 0 \in Good
  OBVIOUS
<1>3. ASSUME NEW k \in Nat, k \in Good PROVE k + 1 \in Good
  <2>1. SUFFICES ASSUME i <= k + 1, k + 1 <= n PROVE f[k + 1].staged[o] = w
    OBVIOUS
  <2>2. k + 1 \in 1 .. n /\ (k + 1) - 1 = k /\ k \in 0 .. n
    BY <1>1, <2>1
  <2>3. f[k + 1] = Exec(f[k], cmds[k + 1]) /\ Packages(f[k])
    BY <1>0, <1>1, <2>2
  <2>4. CASE i = k + 1
    BY <2>3, <2>4, WritesIt
  <2>5. CASE i # k + 1
    <3>1. i <= k /\ k <= n /\ k + 1 \in i + 1 .. n
      BY <1>1, <2>1, <2>5
    <3>2. f[k].staged[o] = w /\ Leaves(cmds[k + 1], o)
      BY <1>3, <3>1, <1>a
    <3> QED BY <2>3, <3>2, LeavesIt
  <2> QED BY <2>4, <2>5
<1>4. Nat \subseteq Good
  <2> HIDE DEF Good
  <2> QED BY <1>2, <1>3, NatInSet
<1> QED BY <1>1, <1>4 DEF f, n, StagedFrom

\* A commit and a reload bring what is staged to the service.
LEMMA AppliedAtTheEnd ==
  ASSUME NEW s, NEW cmds, AllAlong(s, cmds),
         NEW m \in 1 .. Len(cmds) - 1, NEW p, cmds[m] = Commit(p), cmds[m + 1] = Event(p), NEW o \in SvcOptions, o[1] = p
  PROVE  BatchRun(s, cmds)[m + 1].live[o] = BatchRun(s, cmds)[m + 1].staged[o]
<1> DEFINE g == BatchRun(s, cmds)
<1>0. m \in 1 .. Len(cmds) /\ m + 1 \in 1 .. Len(cmds) /\ m - 1 \in 0 .. Len(cmds) /\ (m + 1) - 1 = m
  BY DEF AllAlong
<1>1. g[m] = Exec(g[m - 1], Commit(p)) /\ g[m + 1] = Exec(g[m], Event(p))
  BY <1>0, RunIs DEF AllAlong
<1>2. Packages(g[m - 1])
  BY <1>0 DEF AllAlong
<1> HIDE DEF g
<1>3. PICK f, t, l : g[m - 1] = Sides(f, t, l) /\ SideOK(f) /\ SideOK(t) /\ SideOK(l)
  BY <1>2 DEF Packages, Up
<1>4. g[m] = Sides(OfPackage(f, t, p), t, l)
  BY <1>1, <1>3, CommandIs
<1>5. g[m + 1] = Sides(OfPackage(f, t, p), t, OfPackage(l, OfPackage(f, t, p), p))
  BY <1>1, <1>4, CommandIs
<1>6. SideOK(OfPackage(f, t, p)) /\ OfPackage(f, t, p)[o] = t[o]
  BY <1>3, PackageIs
<1>7. OfPackage(l, OfPackage(f, t, p), p)[o] = t[o]
  BY <1>3, <1>6, PackageIs
<1> QED BY <1>4, <1>5, <1>6, <1>7, SidesAre DEF g

\* One command that commits.
LEMMA CommittedAt ==
  ASSUME NEW s, NEW cmds, AllAlong(s, cmds),
         NEW m \in 1 .. Len(cmds), NEW p, cmds[m] = Commit(p), NEW o \in SvcOptions, o[1] = p
  PROVE  BatchRun(s, cmds)[m].file[o] = BatchRun(s, cmds)[m].staged[o]
<1> DEFINE g == BatchRun(s, cmds)
<1>0. m - 1 \in 0 .. Len(cmds)
  BY DEF AllAlong
<1>1. g[m] = Exec(g[m - 1], Commit(p))
  BY RunIs DEF AllAlong
<1>2. Packages(g[m - 1])
  BY <1>0 DEF AllAlong
<1> HIDE DEF g
<1>3. PICK f, t, l : g[m - 1] = Sides(f, t, l) /\ SideOK(f) /\ SideOK(t) /\ SideOK(l)
  BY <1>2 DEF Packages, Up
<1>4. g[m] = Sides(OfPackage(f, t, p), t, l)
  BY <1>1, <1>3, CommandIs
<1>6. SideOK(OfPackage(f, t, p)) /\ OfPackage(f, t, p)[o] = t[o]
  BY <1>3, PackageIs
<1> QED BY <1>4, <1>6, SidesAre DEF g

-----------------------------------------------------------------------------
(* The guide's services: the download services                             *)

\* A form that was saved: what its status shows, what the service runs with.
DownloadIs(kind, r, s) ==
  /\ s.staged[Dl(kind, "config")] = <<r.config>> /\ s.staged[Dl(kind, "dir")] = <<r.dir>>
  /\ s.live[Dl(kind, "enabled")] = <<"1">> /\ s.live[Dl(kind, "dir")] = <<r.dir>>
TrackersAre(t, s) == t # <<>> => s.live[Tracker] = t

\* Config, directory and switch, wherever else the plan writes to the package.
LEMMA DownloadSaved ==
  ASSUME NEW s, NEW cmds, AllAlong(s, cmds), Len(cmds) >= 5,
         NEW kind \in Kinds, NEW r,
         cmds[1] = Set(Dl(kind, "config"), r.config), cmds[2] = Set(Dl(kind, "dir"), r.dir),
         cmds[3] = Set(Dl(kind, "enabled"), "1"),
         \A j \in 4 .. Len(cmds), o \in {"config", "dir", "enabled"} : Leaves(cmds[j], Dl(kind, o)),
         cmds[Len(cmds) - 1] = Commit(kind), cmds[Len(cmds)] = Event(kind)
  PROVE  DownloadIs(kind, r, BatchRun(s, cmds)[Len(cmds)])
<1> DEFINE n == Len(cmds)
           g == BatchRun(s, cmds)
           c == Dl(kind, "config")
           d == Dl(kind, "dir")
           e == Dl(kind, "enabled")
<1>0. n \in Nat /\ n >= 5
  BY DEF AllAlong
<1>1. /\ c \in SvcOptions /\ d \in SvcOptions /\ e \in SvcOptions /\ c[1] = kind /\ d[1] = kind /\ e[1] = kind
      /\ c # d /\ c # e /\ d # e
  <2>1. c[2] = "config" /\ d[2] = "dir" /\ e[2] = "enabled"
    BY DlOptions
  <2> QED BY <2>1, DlOptions
<1>2. Leaves(cmds[2], c) /\ Leaves(cmds[3], c) /\ Leaves(cmds[3], d)
  BY <1>1 DEF Leaves
<1>3. Writes(cmds[1], c, <<r.config>>) /\ Writes(cmds[2], d, <<r.dir>>) /\ Writes(cmds[3], e, <<"1">>)
  BY DEF Writes
<1> HIDE DEF c, d, e
<1>4. 1 \in 1 .. n /\ 2 \in 1 .. n /\ 3 \in 1 .. n
  BY <1>0
<1>5. \A j \in 4 .. n : Leaves(cmds[j], c) /\ Leaves(cmds[j], d) /\ Leaves(cmds[j], e)
  BY DEF c, d, e
<1>6. LeftAfter(cmds, 1, c)
  <2> SUFFICES ASSUME NEW j \in 1 + 1 .. n PROVE Leaves(cmds[j], c)
    BY DEF LeftAfter
  <2>1. j = 2 \/ j = 3 \/ j \in 4 .. n
    BY <1>0
  <2> QED BY <2>1, <1>2, <1>5
<1>7. LeftAfter(cmds, 2, d)
  <2> SUFFICES ASSUME NEW j \in 2 + 1 .. n PROVE Leaves(cmds[j], d)
    BY DEF LeftAfter
  <2>1. j = 3 \/ j \in 4 .. n
    BY <1>0
  <2> QED BY <2>1, <1>2, <1>5
<1>8. LeftAfter(cmds, 3, e)
  <2> SUFFICES ASSUME NEW j \in 3 + 1 .. n PROVE Leaves(cmds[j], e)
    BY DEF LeftAfter
  <2>1. j \in 4 .. n
    BY <1>0
  <2> QED BY <2>1, <1>5
<1>9. n \in 1 .. n /\ n \in 2 .. n /\ n \in 3 .. n
  BY <1>0
<1>10. g[n].staged[c] = <<r.config>>
  <2>1. StagedFrom(s, cmds, 1, c, <<r.config>>)
    BY <1>1, <1>3, <1>4, <1>6, LastCounts
  <2> QED BY <2>1, <1>9 DEF StagedFrom
<1>11. g[n].staged[d] = <<r.dir>>
  <2>1. StagedFrom(s, cmds, 2, d, <<r.dir>>)
    BY <1>1, <1>3, <1>4, <1>7, LastCounts
  <2> QED BY <2>1, <1>9 DEF StagedFrom
<1>12. g[n].staged[e] = <<"1">>
  <2>1. StagedFrom(s, cmds, 3, e, <<"1">>)
    BY <1>1, <1>3, <1>4, <1>8, LastCounts
  <2> QED BY <2>1, <1>9 DEF StagedFrom
<1>13. n - 1 \in 1 .. n - 1 /\ (n - 1) + 1 = n
  BY <1>0
<1>14. cmds[n - 1] = Commit(kind) /\ cmds[(n - 1) + 1] = Event(kind)
  BY <1>13
<1>15. g[(n - 1) + 1].live[d] = g[(n - 1) + 1].staged[d] /\ g[(n - 1) + 1].live[e] = g[(n - 1) + 1].staged[e]
  BY <1>1, <1>13, <1>14, AppliedAtTheEnd
<1> QED BY <1>10, <1>11, <1>12, <1>13, <1>15 DEF DownloadIs, c, d, e

\* qBittorrent and Transmission.
LEMMA ShortPlan ==
  ASSUME NEW s, Packages(s), NEW kind \in Kinds, NEW r, NEW cmds, Len(cmds) = 5,
         cmds[1] = Set(Dl(kind, "config"), r.config), cmds[2] = Set(Dl(kind, "dir"), r.dir),
         cmds[3] = Set(Dl(kind, "enabled"), "1"), cmds[4] = Commit(kind), cmds[5] = Event(kind)
  PROVE  AllAlong(s, cmds) /\ DownloadIs(kind, r, BatchRun(s, cmds)[Len(cmds)])
<1>1. /\ Len(cmds) = 5 /\ cmds[1] = Set(Dl(kind, "config"), r.config) /\ cmds[2] = Set(Dl(kind, "dir"), r.dir)
      /\ cmds[3] = Set(Dl(kind, "enabled"), "1") /\ cmds[4] = Commit(kind) /\ cmds[5] = Event(kind)
  OBVIOUS
<1>2. \A o \in {"config", "dir", "enabled"} : Dl(kind, o) \in SvcOptions /\ Dl(kind, o) # Tracker
  BY DlOptions
<1>3. Plain(cmds[1]) /\ Plain(cmds[2]) /\ Plain(cmds[3]) /\ Plain(cmds[4]) /\ Plain(cmds[5])
  <2>1. \A o \in {"config", "dir", "enabled"} : \A v : Plain(Set(Dl(kind, o), v))
    BY <1>2 DEF Plain
  <2>2. Plain(Commit(kind)) /\ Plain(Event(kind))
    BY DEF Plain
  <2> QED BY <1>1, <2>1, <2>2
<1>4. AllAlong(s, cmds)
  <2>1. \A k \in 1 .. Len(cmds) : Plain(cmds[k])
    <3> TAKE k \in 1 .. Len(cmds)
    <3>1. k = 1 \/ k = 2 \/ k = 3 \/ k = 4 \/ k = 5
      BY <1>1
    <3> QED BY <1>3, <3>1
  <2>2. Len(cmds) \in Nat
    BY <1>1
  <2> QED BY <2>1, <2>2, PlainRun
<1>5. \A j \in 4 .. Len(cmds), o \in {"config", "dir", "enabled"} : Leaves(cmds[j], Dl(kind, o))
  <2>1. \A o : Leaves(Commit(kind), o) /\ Leaves(Event(kind), o)
    BY DEF Leaves
  <2>2. \A j \in 4 .. Len(cmds) : j = 4 \/ j = 5
    BY <1>1
  <2> QED BY <1>1, <2>1, <2>2
<1>6. Len(cmds) >= 5 /\ cmds[Len(cmds) - 1] = Commit(kind) /\ cmds[Len(cmds)] = Event(kind)
  BY <1>1
<1>7. DownloadIs(kind, r, BatchRun(s, cmds)[Len(cmds)])
  BY <1>1, <1>4, <1>5, <1>6, DownloadSaved
<1> QED BY <1>4, <1>7

LEMMA TwoAre ==
  \A x, y : <<x>> \o <<y>> = <<x, y>> /\ Append(<<x>>, y) = <<x, y>>
<1> TAKE x, y
<1> DEFINE S == {x, y}
           p == <<x>>
           q == <<y>>
           b == <<x, y>>
<1>1. p \in Seq(S) /\ q \in Seq(S) /\ Len(p) = 1 /\ Len(q) = 1 /\ p[1] = x /\ q[1] = y /\ x \in S /\ y \in S
  OBVIOUS
<1>2. b \in Seq(S) /\ Len(b) = 2 /\ b[1] = x /\ b[2] = y
  OBVIOUS
<1> HIDE DEF S, p, q, b
<1>3. \A a : a \in Seq(S) /\ Len(a) = 2 /\ a[1] = x /\ a[2] = y => a = b
  <2> TAKE a
  <2> HAVE a \in Seq(S) /\ Len(a) = 2 /\ a[1] = x /\ a[2] = y
  <2>1. a \in [1 .. 2 -> S] /\ b \in [1 .. 2 -> S]
    BY <1>2, SMTT(30)
  <2>2. \A i \in 1 .. 2 : a[i] = b[i]
    <3>1. \A i \in 1 .. 2 : i = 1 \/ i = 2
      OBVIOUS
    <3> QED BY <1>2, <3>1
  <2> QED BY <2>1, <2>2
<1>4. p \o q = b
  <2>1. p \o q \in Seq(S) /\ Len(p \o q) = 2 /\ (p \o q)[1] = x /\ (p \o q)[2] = y
    <3>1. 1 \in 1 .. 1 + 1 /\ 2 \in 1 .. 1 + 1 /\ 1 <= 1 /\ ~(2 <= 1) /\ 2 - 1 = 1 /\ 1 + 1 = 2
      OBVIOUS
    <3>2. p \o q \in Seq(S)
      BY <1>1, ConcatProperties, Zenon
    <3>3. Len(p \o q) = Len(p) + Len(q)
      BY <1>1, ConcatProperties, Zenon
    <3>4. \A i \in 1 .. Len(p) + Len(q) : (p \o q)[i] = IF i <= Len(p) THEN p[i] ELSE q[i - Len(p)]
      BY <1>1, ConcatProperties, Zenon
    <3> DEFINE c == p \o q
    <3> HIDE DEF c
    <3>5. c \in Seq(S) /\ Len(c) = 1 + 1 /\ \A i \in 1 .. 1 + 1 : c[i] = IF i <= 1 THEN p[i] ELSE q[i - 1]
      BY <1>1, <3>2, <3>3, <3>4 DEF c
    <3>6. c \in Seq(S) /\ Len(c) = 2 /\ c[1] = x /\ c[2] = y
      BY <1>1, <3>1, <3>5
    <3> QED BY <3>6 DEF c
  <2> QED BY <1>3, <2>1
<1>5. Append(p, y) = b
  <2>1. Append(p, y) \in Seq(S) /\ Len(Append(p, y)) = 2 /\ Append(p, y)[1] = x /\ Append(p, y)[2] = y
    <3>1. Append(p, y) \in Seq(S)
      BY <1>1, AppendProperties
    <3>2. Len(Append(p, y)) = Len(p) + 1
      BY <1>1, AppendProperties, ZenonT(60)
    <3>3. \A i \in 1 .. Len(p) : Append(p, y)[i] = p[i]
      BY <1>1, AppendProperties
    <3>4. Append(p, y)[Len(p) + 1] = y
      BY <1>1, AppendProperties
    <3> QED BY <1>1, <3>1, <3>2, <3>3, <3>4
  <2> QED BY <1>3, <2>1
<1> QED BY <1>4, <1>5 DEF p, q, b

LEMMA OneAre == \A x : <<>> \o <<x>> = <<x>> /\ Append(<<>>, x) = <<x>>
OBVIOUS

\* The trackers are deleted and added anew.
TrackersStaged(s, t) == Packages(s) /\ s.staged[Tracker] = t

LEMMA TrackerSteps ==
  ASSUME NEW s, Packages(s)
  PROVE  /\ TrackersStaged(Exec(s, Del(Tracker)), Unset)
         /\ \A x : s.staged[Tracker] = Unset => TrackersStaged(Exec(s, AddList(Tracker, x)), <<x>>)
         /\ \A x, y : s.staged[Tracker] = <<x>> => TrackersStaged(Exec(s, AddList(Tracker, y)), <<x, y>>)
<1>1. PICK f, t, l : s = Sides(f, t, l) /\ SideOK(f) /\ SideOK(t) /\ SideOK(l)
  BY DEF Packages, Up
<1>2. \A v : SideOK(Put(t, Tracker, v)) /\ Put(t, Tracker, v)[Tracker] = v
  BY <1>1, PutIs, DlOptions
<1>3. ASSUME NEW v, v = Unset \/ (\E x : v = <<x>>) \/ (\E x, y : v = <<x, y>>)
      PROVE  TrackersStaged(Sides(f, Put(t, Tracker, v), l), v)
  <2>1. Sides(f, Put(t, Tracker, v), l).staged = Put(t, Tracker, v)
    BY SidesAre
  <2>2. Packages(Sides(f, Put(t, Tracker, v), l))
    BY <1>1, <1>2, <1>3 DEF Packages, Up
  <2> QED BY <2>1, <2>2, <1>2 DEF TrackersStaged
<1>4. TrackersStaged(Exec(s, Del(Tracker)), Unset)
  BY <1>1, <1>3, CommandIs
<1>5. ASSUME NEW x, s.staged[Tracker] = Unset PROVE TrackersStaged(Exec(s, AddList(Tracker, x)), <<x>>)
  <2>1. t[Tracker] \o <<x>> = <<x>>
    <3>1. t[Tracker] = <<>>
      BY <1>1, <1>5, SidesAre DEF Unset
    <3> QED BY <3>1, OneAre
  <2>2. Exec(s, AddList(Tracker, x)) = Sides(f, Put(t, Tracker, t[Tracker] \o <<x>>), l)
    BY <1>1, CommandIs
  <2> QED BY <1>3, <2>1, <2>2
<1>6. ASSUME NEW x, NEW y, s.staged[Tracker] = <<x>> PROVE TrackersStaged(Exec(s, AddList(Tracker, y)), <<x, y>>)
  <2>1. t[Tracker] \o <<y>> = <<x, y>>
    <3>1. t[Tracker] = <<x>>
      BY <1>1, <1>6, SidesAre
    <3> QED BY <3>1, TwoAre
  <2>2. Exec(s, AddList(Tracker, y)) = Sides(f, Put(t, Tracker, t[Tracker] \o <<y>>), l)
    BY <1>1, CommandIs
  <2> QED BY <1>3, <2>1, <2>2
<1> QED BY <1>4, <1>5, <1>6

\* What is kept of the words, up to each place.
IsKept(q, f) ==
  f = [n \in 0 .. Len(q) |-> IF n = 0 THEN <<>> ELSE IF q[n] = " " THEN f[n - 1] ELSE Append(f[n - 1], q[n])]

LEMMA KeptWords ==
  ASSUME NEW q, NEW g, IsKept(q, g)
  PROVE  \E f : IsKept(q, f) /\ ParseTrackers(q) = f[Len(q)]
<1>1. ParseTrackers(q) = (CHOOSE f : IsKept(q, f))[Len(q)]
  BY DEF ParseTrackers, IsKept
<1>2. IsKept(q, CHOOSE f : IsKept(q, f))
  OBVIOUS
<1> QED BY <1>1, <1>2

LEMMA TrackersParsed ==
  /\ ParseTrackers(<<" ">>) = <<>>
  /\ ParseTrackers(<<"t1", " ", "t2">>) = <<"t1", "t2">>
<1>1. ParseTrackers(<<" ">>) = <<>>
  <2> DEFINE q == <<" ">>
             g == [n \in 0 .. 1 |-> <<>>]
  <2>1. Len(q) = 1 /\ q[1] = " "
    OBVIOUS
  <2>2. 0 \in 0 .. 1 /\ 1 \in 0 .. 1 /\ 1 # 0 /\ 1 - 1 = 0 /\ \A n \in 0 .. 1 : n = 0 \/ n = 1
    OBVIOUS
  <2>3. g[0] = <<>> /\ g[1] = <<>> /\ g = [n \in 0 .. 1 |-> g[n]]
    OBVIOUS
  <2> HIDE DEF q, g
  <2>4. \A n \in 0 .. 1 : g[n] = IF n = 0 THEN <<>> ELSE IF q[n] = " " THEN g[n - 1] ELSE Append(g[n - 1], q[n])
    BY <2>1, <2>2, <2>3
  <2>5. IsKept(q, g)
    BY <2>1, <2>3, <2>4 DEF IsKept
  <2>6. PICK f : IsKept(q, f) /\ ParseTrackers(q) = f[1]
    BY <2>1, <2>5, KeptWords
  <2>7. \A n \in 0 .. 1 : f[n] = IF n = 0 THEN <<>> ELSE IF q[n] = " " THEN f[n - 1] ELSE Append(f[n - 1], q[n])
    BY <2>1, <2>6 DEF IsKept
  <2>8. f[0] = <<>>
    BY <2>2, <2>7
  <2>9. f[1] = f[1 - 1]
    BY <2>1, <2>2, <2>7
  <2> QED BY <2>2, <2>6, <2>8, <2>9 DEF q
<1>2. ParseTrackers(<<"t1", " ", "t2">>) = <<"t1", "t2">>
  <2> DEFINE q == <<"t1", " ", "t2">>
             g == [n \in 0 .. 3 |-> IF n = 0 THEN <<>> ELSE IF n = 3 THEN <<"t1", "t2">> ELSE <<"t1">>]
  <2>1. Len(q) = 3 /\ q[1] = "t1" /\ q[2] = " " /\ q[3] = "t2"
    OBVIOUS
  <2>2. /\ 0 \in 0 .. 3 /\ 1 \in 0 .. 3 /\ 2 \in 0 .. 3 /\ 3 \in 0 .. 3 /\ 1 - 1 = 0 /\ 2 - 1 = 1 /\ 3 - 1 = 2
        /\ \A n \in 0 .. 3 : n = 0 \/ n = 1 \/ n = 2 \/ n = 3
    OBVIOUS
  <2>3. g[0] = <<>> /\ g[1] = <<"t1">> /\ g[2] = <<"t1">> /\ g[3] = <<"t1", "t2">> /\ g = [n \in 0 .. 3 |-> g[n]]
    OBVIOUS
  <2>a. Append(<<>>, "t1") = <<"t1">> /\ Append(<<"t1">>, "t2") = <<"t1", "t2">>
    BY OneAre, TwoAre
  <2> HIDE DEF q, g
  <2>4. \A n \in 0 .. 3 : g[n] = IF n = 0 THEN <<>> ELSE IF q[n] = " " THEN g[n - 1] ELSE Append(g[n - 1], q[n])
    <3> TAKE n \in 0 .. 3
    <3>1. CASE n = 0
      BY <3>1, <2>3
    <3>2. CASE n = 1
      BY <3>2, <2>1, <2>2, <2>3, <2>a
    <3>3. CASE n = 2
      BY <3>3, <2>1, <2>2, <2>3
    <3>4. CASE n = 3
      BY <3>4, <2>1, <2>2, <2>3, <2>a
    <3> QED BY <2>2, <3>1, <3>2, <3>3, <3>4
  <2>5. IsKept(q, g)
    BY <2>1, <2>3, <2>4 DEF IsKept
  <2>6. PICK f : IsKept(q, f) /\ ParseTrackers(q) = f[3]
    BY <2>1, <2>5, KeptWords
  <2>7. \A n \in 0 .. 3 : f[n] = IF n = 0 THEN <<>> ELSE IF q[n] = " " THEN f[n - 1] ELSE Append(f[n - 1], q[n])
    BY <2>1, <2>6 DEF IsKept
  <2>8. f[0] = <<>>
    BY <2>2, <2>7
  <2>9. f[1] = <<"t1">>
    BY <2>1, <2>2, <2>7, <2>8, <2>a
  <2>10. f[2] = <<"t1">>
    BY <2>1, <2>2, <2>7, <2>9
  <2>11. f[3] = <<"t1", "t2">>
    <3>0. f[3] = IF 3 = 0 THEN <<>> ELSE IF q[3] = " " THEN f[3 - 1] ELSE Append(f[3 - 1], q[3])
      BY <2>2, <2>7
    <3>a. q[3] = "t2"
      BY <2>1
    <3>b. q[3] # " "
      BY <3>a
    <3>c. 3 # 0
      OBVIOUS
    <3>1. f[3] = Append(f[3 - 1], q[3])
      BY <3>0, <3>b, <3>c, Zenon
    <3>2. f[3 - 1] = <<"t1">> /\ q[3] = "t2"
      BY <2>1, <2>2, <2>10
    <3> QED BY <3>1, <3>2, <2>a
  <2> QED BY <2>6, <2>11 DEF q
<1> QED BY <1>1, <1>2

\* The plan of aria2: the options, the trackers if there are any, the commit and the restart.
AriaHead(r) == BuildAria2ConfigCommands(r)

LEMMA AriaHeadIs ==
  ASSUME NEW r
  PROVE  LET c == AriaHead(r)
         IN  /\ Len(c) = 4 /\ c[1] = Set(Dl("aria2", "config"), r.config) /\ c[2] = Set(Dl("aria2", "dir"), r.dir)
             /\ c[3] = Set(Dl("aria2", "enabled"), "1") /\ c[4] = Set(Dl("aria2", "secret"), r.secret)
             /\ \A i \in 1 .. 4 : Plain(c[i])
<1> DEFINE c == AriaHead(r)
<1>1. /\ Len(c) = 4 /\ c[1] = Set(Dl("aria2", "config"), r.config) /\ c[2] = Set(Dl("aria2", "dir"), r.dir)
      /\ c[3] = Set(Dl("aria2", "enabled"), "1") /\ c[4] = Set(Dl("aria2", "secret"), r.secret)
  BY DEF AriaHead, BuildAria2ConfigCommands
<1> HIDE DEF c
<1>2. "aria2" \in Kinds
  BY DEF Kinds
<1>3. \A o \in {"config", "dir", "enabled", "secret"} : \A v : Plain(Set(Dl("aria2", o), v))
  BY <1>2, DlOptions DEF Plain
<1>4. ASSUME NEW i \in 1 .. 4 PROVE Plain(c[i])
  <2>1. i = 1 \/ i = 2 \/ i = 3 \/ i = 4
    OBVIOUS
  <2> QED BY <1>1, <1>3, <2>1
<1> QED BY <1>1, <1>4 DEF c

\* It may stop before the trackers, which need some to be there already.
LEMMA AriaStops ==
  ASSUME NEW s, Packages(s), NEW r
  PROVE  AllAlong(s, AriaHead(r))
<1>1. Len(AriaHead(r)) \in Nat /\ \A k \in 1 .. Len(AriaHead(r)) : Plain(AriaHead(r)[k])
  BY AriaHeadIs
<1> QED BY <1>1, PlainRun

\* Or it goes on.
AriaShape(r, cmds, n, x, y) ==
  /\ n \in {4, 6, 7} /\ Len(cmds) = n + 2
  /\ \A i \in 1 .. 4 : cmds[i] = AriaHead(r)[i]
  /\ n > 4 => cmds[5] = Del(Tracker)
  /\ n > 5 => cmds[6] = AddList(Tracker, x)
  /\ n > 6 => cmds[7] = AddList(Tracker, y)
  /\ cmds[n + 1] = Commit("aria2") /\ cmds[n + 2] = Event("aria2")

LEMMA AriaRuns ==
  ASSUME NEW s, Packages(s), NEW r, NEW cmds, NEW n, NEW x, NEW y, AriaShape(r, cmds, n, x, y)
  PROVE  /\ AllAlong(s, cmds)
         /\ DownloadIs("aria2", r, BatchRun(s, cmds)[Len(cmds)])
         /\ n = 6 => BatchRun(s, cmds)[Len(cmds)].live[Tracker] = <<x>>
         /\ n = 7 => BatchRun(s, cmds)[Len(cmds)].live[Tracker] = <<x, y>>
<1> DEFINE g == BatchRun(s, cmds)
<1> n \in 4 .. 7 /\ n # 5 /\ Len(cmds) = n + 2 /\ (\A i \in 1 .. 4 : cmds[i] = AriaHead(r)[i])
    /\ (n > 4 => cmds[5] = Del(Tracker)) /\ (n > 5 => cmds[6] = AddList(Tracker, x))
    /\ (n > 6 => cmds[7] = AddList(Tracker, y)) /\ cmds[n + 1] = Commit("aria2") /\ cmds[n + 2] = Event("aria2")
  BY DEF AriaShape
<1>0. n \in Nat /\ Len(cmds) \in Nat /\ Len(cmds) >= 6
  OBVIOUS
<1>1. g[0] = s /\ \A k \in 1 .. Len(cmds) : g[k] = Exec(g[k - 1], cmds[k])
  BY <1>0, RunIs
<1> HIDE DEF g
<1>2. Packages(g[0])
  BY <1>1
<1>3. ASSUME NEW i \in 1 .. 4 PROVE Plain(cmds[i]) /\ g[i] = Exec(g[i - 1], cmds[i])
  BY <1>0, <1>1, <1>3, AriaHeadIs
<1>4. Packages(g[1]) /\ Packages(g[2]) /\ Packages(g[3]) /\ Packages(g[4])
  <2>1. ASSUME NEW i \in 1 .. 4, Packages(g[i - 1]) PROVE Packages(g[i])
    BY <1>3, <2>1, PlainKeeps
  <2>2. Packages(g[1])
    BY <2>1, <1>2
  <2>3. Packages(g[2])
    BY <2>1, <2>2
  <2>4. Packages(g[3])
    BY <2>1, <2>3
  <2>5. Packages(g[4])
    BY <2>1, <2>4
  <2> QED BY <2>2, <2>3, <2>4, <2>5
<1>5. n > 4 => TrackersStaged(g[5], Unset)
  <2> HAVE n > 4
  <2>1. g[5] = Exec(g[4], Del(Tracker))
    <3>1. 5 \in 1 .. Len(cmds) /\ 5 - 1 = 4
      OBVIOUS
    <3> QED BY <1>1, <3>1
  <2> QED BY <1>4, <2>1, TrackerSteps
<1>6. n > 5 => TrackersStaged(g[6], <<x>>)
  <2> HAVE n > 5
  <2>1. g[6] = Exec(g[5], AddList(Tracker, x))
    <3>1. 6 \in 1 .. Len(cmds) /\ 6 - 1 = 5
      OBVIOUS
    <3> QED BY <1>1, <3>1
  <2>2. Packages(g[5]) /\ g[5].staged[Tracker] = Unset
    BY <1>5 DEF TrackersStaged
  <2> QED BY <2>1, <2>2, TrackerSteps
<1>7. n > 6 => TrackersStaged(g[7], <<x, y>>)
  <2> HAVE n > 6
  <2>1. g[7] = Exec(g[6], AddList(Tracker, y))
    <3>1. 7 \in 1 .. Len(cmds) /\ 7 - 1 = 6
      OBVIOUS
    <3> QED BY <1>1, <3>1
  <2>2. Packages(g[6]) /\ g[6].staged[Tracker] = <<x>>
    BY <1>6 DEF TrackersStaged
  <2> QED BY <2>1, <2>2, TrackerSteps
<1>8. Packages(g[n])
  <2>1. n = 4 \/ n = 6 \/ n = 7
    OBVIOUS
  <2> QED BY <2>1, <1>4, <1>6, <1>7 DEF TrackersStaged
<1>9. g[n + 1] = Exec(g[n], Commit("aria2")) /\ g[n + 2] = Exec(g[n + 1], Event("aria2"))
  <2>1. n + 1 \in 1 .. Len(cmds) /\ n + 2 \in 1 .. Len(cmds) /\ (n + 1) - 1 = n /\ (n + 2) - 1 = n + 1
    OBVIOUS
  <2> QED BY <1>1, <2>1
<1>10. Packages(g[n + 1]) /\ Packages(g[n + 2])
  <2>1. Plain(Commit("aria2")) /\ Plain(Event("aria2"))
    BY DEF Plain
  <2>2. Packages(g[n + 1])
    BY <1>8, <1>9, <2>1, PlainKeeps
  <2> QED BY <1>9, <2>1, <2>2, PlainKeeps
<1>11. AllAlong(s, cmds)
  <2>1. ASSUME NEW k \in 0 .. Len(cmds) PROVE Packages(g[k])
    <3>1. k = 0 \/ k = 1 \/ k = 2 \/ k = 3 \/ k = 4 \/ (k = 5 /\ n > 4) \/ (k = 6 /\ n > 5) \/ (k = 7 /\ n > 6)
          \/ k = n + 1 \/ k = n + 2
      OBVIOUS
    <3> QED BY <3>1, <1>2, <1>4, <1>5, <1>6, <1>7, <1>10 DEF TrackersStaged
  <2> QED BY <2>1, <1>0 DEF AllAlong, g
<1>12. DownloadIs("aria2", r, g[Len(cmds)])
  <2>1. "aria2" \in Kinds
    BY DEF Kinds
  <2>2. /\ cmds[1] = Set(Dl("aria2", "config"), r.config) /\ cmds[2] = Set(Dl("aria2", "dir"), r.dir)
        /\ cmds[3] = Set(Dl("aria2", "enabled"), "1") /\ cmds[4] = Set(Dl("aria2", "secret"), r.secret)
    BY AriaHeadIs
  <2>3. cmds[Len(cmds) - 1] = Commit("aria2") /\ cmds[Len(cmds)] = Event("aria2")
    <3>1. Len(cmds) - 1 = n + 1 /\ Len(cmds) = n + 2
      OBVIOUS
    <3> QED BY <3>1
  <2>4. ASSUME NEW j \in 4 .. Len(cmds), NEW o \in {"config", "dir", "enabled"} PROVE Leaves(cmds[j], Dl("aria2", o))
    <3>1. \/ j = 4 \/ (j = 5 /\ n > 4) \/ (j = 6 /\ n > 5) \/ (j = 7 /\ n > 6) \/ j = n + 1 \/ j = n + 2
      OBVIOUS
    <3>2. Dl("aria2", "secret") # Dl("aria2", o) /\ Dl("aria2", o) # Tracker
      <4>1. Dl("aria2", "secret")[2] = "secret" /\ Dl("aria2", o)[2] = o /\ o # "secret"
        BY <2>1, DlOptions
      <4> QED BY <4>1, <2>1, DlOptions
    <3>3. Dl("aria2", "secret") \in SvcOptions /\ Tracker \in SvcOptions
      BY DlOptions
    <3>4. \A v : Leaves(Set(Dl("aria2", "secret"), v), Dl("aria2", o))
      BY <3>2, <3>3 DEF Leaves
    <3>5. Leaves(Del(Tracker), Dl("aria2", o)) /\ \A v : Leaves(AddList(Tracker, v), Dl("aria2", o))
      BY <3>2, <3>3 DEF Leaves
    <3>6. Leaves(Commit("aria2"), Dl("aria2", o)) /\ Leaves(Event("aria2"), Dl("aria2", o))
      BY DEF Leaves
    <3> QED BY <2>2, <3>1, <3>4, <3>5, <3>6
  <2> QED BY <1>0, <1>11, <2>1, <2>2, <2>3, <2>4, DownloadSaved DEF g
<1>13. g[n + 2].live[Tracker] = g[n].staged[Tracker]
  <2>1. n + 1 \in 1 .. Len(cmds) - 1 /\ (n + 1) + 1 = n + 2
    OBVIOUS
  <2>2. Tracker \in SvcOptions /\ Tracker[1] = "aria2"
    BY DlOptions
  <2>3. g[n + 2].live[Tracker] = g[n + 2].staged[Tracker]
    BY <1>11, <2>1, <2>2, AppliedAtTheEnd DEF g
  <2>4. Leaves(Commit("aria2"), Tracker) /\ Leaves(Event("aria2"), Tracker)
    BY DEF Leaves
  <2>5. g[n + 1].staged[Tracker] = g[n].staged[Tracker]
    BY <1>8, <1>9, <2>2, <2>4, LeavesIt
  <2>6. g[n + 2].staged[Tracker] = g[n + 1].staged[Tracker]
    BY <1>9, <1>10, <2>2, <2>4, LeavesIt
  <2> QED BY <2>3, <2>5, <2>6
<1>14. n = 6 => g[Len(cmds)].live[Tracker] = <<x>>
  BY <1>6, <1>13 DEF TrackersStaged
<1>15. n = 7 => g[Len(cmds)].live[Tracker] = <<x, y>>
  BY <1>7, <1>13 DEF TrackersStaged
<1> QED BY <1>11, <1>12, <1>14, <1>15 DEF g

LEMMA ThenDoIs ==
  ASSUME NEW p, NEW q
  PROVE  /\ p.ok => ThenDo(p, q).cmds = p.cmds \o q.cmds /\ (ThenDo(p, q).ok <=> q.ok)
         /\ ~p.ok => ThenDo(p, q) = p
BY Zenon DEF ThenDo

LEMMA TrackerPlans ==
  ASSUME NEW s
  PROVE  /\ BuildAria2TrackerCommandBatches(s, <<>>) = Do(<<>>)
         /\ \A t \in {<<"best">>, <<"t1", "t2">>} :
              s.staged[Tracker] = Unset => BuildAria2TrackerCommandBatches(s, t) = FailAfter(<<>>)
         /\ s.staged[Tracker] # Unset =>
              /\ BuildAria2TrackerCommandBatches(s, <<"best">>) = Do(<<Del(Tracker)>> \o <<AddList(Tracker, "best")>>)
              /\ BuildAria2TrackerCommandBatches(s, <<"t1", "t2">>)
                 = Do(<<Del(Tracker)>> \o <<AddList(Tracker, "t1"), AddList(Tracker, "t2")>>)
<1>1. <<"best">> # <<>> /\ <<"t1", "t2">> # <<>>
  OBVIOUS
<1>2. [n \in DOMAIN <<"best">> |-> AddList(Tracker, <<"best">>[n])] = <<AddList(Tracker, "best")>>
  OBVIOUS
<1>3. [n \in DOMAIN <<"t1", "t2">> |-> AddList(Tracker, <<"t1", "t2">>[n])] = <<AddList(Tracker, "t1"), AddList(Tracker, "t2")>>
  OBVIOUS
<1>4. BuildAria2TrackerCommandBatches(s, <<>>) = Do(<<>>)
  BY DEF BuildAria2TrackerCommandBatches
<1>5. ASSUME NEW t \in {<<"best">>, <<"t1", "t2">>}, s.staged[Tracker] = Unset
      PROVE  BuildAria2TrackerCommandBatches(s, t) = FailAfter(<<>>)
  <2>1. t # <<>>
    BY <1>1
  <2> QED BY <2>1, <1>5 DEF BuildAria2TrackerCommandBatches, Tracker
<1>6. ASSUME s.staged[Tracker] # Unset, NEW t, t # <<>>
      PROVE  BuildAria2TrackerCommandBatches(s, t) = Do(<<Del(Tracker)>> \o [n \in DOMAIN t |-> AddList(Tracker, t[n])])
  BY <1>6 DEF BuildAria2TrackerCommandBatches, Tracker
<1> QED BY <1>1, <1>2, <1>3, <1>4, <1>5, <1>6

\* No command at all.
LEMMA NothingDone ==
  ASSUME NEW s, Packages(s)
  PROVE  AllAlong(s, <<>>)
<1>1. Len(<<>>) = 0
  OBVIOUS
<1>2. BatchRun(s, <<>>)[0] = s
  BY <1>1, RunIs
<1>3. \A k \in 0 .. Len(<<>>) : k = 0
  BY <1>1
<1> QED BY <1>1, <1>2, <1>3 DEF AllAlong

\* What a plan promises wherever it is cut off, and when it is not.
AriaDone(s, r, plan) ==
  /\ AllAlong(s, plan.cmds)
  /\ plan.ok => /\ DownloadIs("aria2", r, BatchRun(s, plan.cmds)[Len(plan.cmds)])
                /\ TrackersAre(ResolveAria2Trackers(r), BatchRun(s, plan.cmds)[Len(plan.cmds)])

LEMMA AriaHeadAlone ==
  ASSUME NEW r
  PROVE  AriaHead(r) \o <<>> = AriaHead(r)
<1>1. AriaHead(r) = <<Set(Dl("aria2", "config"), r.config), Set(Dl("aria2", "dir"), r.dir), Set(Dl("aria2", "enabled"), "1"),
                      Set(Dl("aria2", "secret"), r.secret)>>
  BY DEF AriaHead, BuildAria2ConfigCommands
<1>2. AriaHead(r) \in Seq({AriaHead(r)[i] : i \in 1 .. 4})
  BY <1>1
<1> QED BY <1>2, ConcatEmptySeq

\* The words of the form, and where they come from.
LEMMA Resolved ==
  ASSUME NEW r \in Aria2Requests
  PROVE  /\ r.trackers = <<>> => ResolveAria2Trackers(r) = <<"best">>
         /\ r.trackers # <<>> => ResolveAria2Trackers(r) \in {<<>>, <<"t1", "t2">>}
<1>1. r.trackers \in {<<>>, <<" ">>, <<"t1", " ", "t2">>}
  BY DEF Aria2Requests
<1>2. r.trackers = <<>> => ResolveAria2Trackers(r) = <<"best">>
  BY DEF ResolveAria2Trackers
<1>3. r.trackers # <<>> => ResolveAria2Trackers(r) = ParseTrackers(r.trackers)
  BY DEF ResolveAria2Trackers
<1> QED BY <1>1, <1>2, <1>3, TrackersParsed

LEMMA AriaPlan ==
  ASSUME NEW s, Packages(s), NEW r \in Aria2Requests
  PROVE  AriaDone(s, r, InitAria2(s, r))
<1> DEFINE c == AriaHead(r)
           t == ResolveAria2Trackers(r)
           q == BuildAria2TrackerCommandBatches(s, t)
           e == Do(BuildAria2RestartCommands)
           p == ThenDo(Do(c), q)
<1>1. \/ InitAria2(s, r) = Refuse \/ InitAria2(s, r) = FailAfter(c)
      \/ (r.trackers # <<>> \/ r.fetched) /\ InitAria2(s, r) = ThenDo(p, e)
  BY DEF InitAria2, AriaHead
<1>2. e.cmds = <<Commit("aria2"), Event("aria2")>> /\ e.ok
  BY ApplyOne, PlansAre DEF BuildAria2RestartCommands
<1>3. p.cmds = c \o q.cmds /\ (p.ok <=> q.ok)
  <2>1. Do(c).ok /\ Do(c).cmds = c
    BY PlansAre
  <2>2. ThenDo(Do(c), q).cmds = Do(c).cmds \o q.cmds /\ (ThenDo(Do(c), q).ok <=> q.ok)
    BY <2>1, ThenDoIs, Zenon
  <2> QED BY <2>1, <2>2, Zenon
<1>4. p.ok => ThenDo(p, e).cmds = p.cmds \o e.cmds /\ (ThenDo(p, e).ok <=> e.ok)
  BY ThenDoIs
<1>5. ~p.ok => ThenDo(p, e) = p
  BY ThenDoIs
<1>6. ASSUME InitAria2(s, r) = Refuse PROVE AriaDone(s, r, InitAria2(s, r))
  BY <1>6, PlansAre, NothingDone DEF AriaDone
<1>7. ASSUME InitAria2(s, r) = FailAfter(c) PROVE AriaDone(s, r, InitAria2(s, r))
  BY <1>7, PlansAre, AriaStops DEF AriaDone
<1>8. t = <<>> \/ t = <<"best">> \/ t = <<"t1", "t2">>
  BY Resolved
<1>9. ASSUME InitAria2(s, r) = ThenDo(p, e), ~q.ok, q.cmds = <<>> PROVE AriaDone(s, r, InitAria2(s, r))
  <2>1. ThenDo(p, e).cmds = c /\ ~ThenDo(p, e).ok
    <3>1. ~p.ok /\ p.cmds = c
      BY <1>3, <1>9, AriaHeadAlone
    <3> QED BY <3>1, <1>5
  <2> QED BY <1>9, <2>1, AriaStops DEF AriaDone
<1>10. ASSUME InitAria2(s, r) = ThenDo(p, e), q.ok PROVE /\ InitAria2(s, r).cmds = (c \o q.cmds) \o <<Commit("aria2"), Event("aria2")>>
                                                         /\ InitAria2(s, r).ok
  BY <1>2, <1>3, <1>4, <1>10
<1>h. /\ Len(c) = 4 /\ c = <<c[1], c[2], c[3], c[4]>>
  BY DEF AriaHead, BuildAria2ConfigCommands
<1>11. ASSUME InitAria2(s, r) = ThenDo(p, e), t = <<>> PROVE AriaDone(s, r, InitAria2(s, r))
  <2>1. q = Do(<<>>)
    BY <1>11, TrackerPlans
  <2>2. q.ok /\ q.cmds = <<>>
    BY <2>1, PlansAre
  <2> DEFINE cmds == InitAria2(s, r).cmds
  <2>3. cmds = c \o <<Commit("aria2"), Event("aria2")>>
    BY <1>10, <1>11, <2>2, AriaHeadAlone
  <2>4. /\ Len(cmds) = 4 + 2 /\ cmds[4 + 1] = Commit("aria2") /\ cmds[4 + 2] = Event("aria2")
        /\ \A i \in 1 .. 4 : cmds[i] = c[i]
    <3> HIDE DEF c, cmds
    <3>1. cmds = <<c[1], c[2], c[3], c[4]>> \o <<Commit("aria2"), Event("aria2")>>
      BY <2>3, <1>h
    <3>2. /\ Len(cmds) = 6 /\ cmds[5] = Commit("aria2") /\ cmds[6] = Event("aria2")
          /\ cmds[1] = c[1] /\ cmds[2] = c[2] /\ cmds[3] = c[3] /\ cmds[4] = c[4]
      BY <3>1
    <3>3. \A i \in 1 .. 4 : i = 1 \/ i = 2 \/ i = 3 \/ i = 4
      OBVIOUS
    <3> QED BY <3>2, <3>3
  <2> HIDE DEF cmds
  <2>5. AriaShape(r, cmds, 4, "t1", "t2")
    BY <2>4 DEF AriaShape, c
  <2>6. AllAlong(s, cmds) /\ DownloadIs("aria2", r, BatchRun(s, cmds)[Len(cmds)])
    BY <2>5, AriaRuns
  <2> QED BY <1>11, <2>6 DEF AriaDone, TrackersAre, cmds
<1>12. ASSUME InitAria2(s, r) = ThenDo(p, e), t = <<"best">>, s.staged[Tracker] # Unset PROVE AriaDone(s, r, InitAria2(s, r))
  <2>1. q = Do(<<Del(Tracker)>> \o <<AddList(Tracker, "best")>>)
    BY <1>12, TrackerPlans
  <2>2. q.ok /\ q.cmds = <<Del(Tracker)>> \o <<AddList(Tracker, "best")>>
    BY <2>1, PlansAre
  <2> DEFINE cmds == InitAria2(s, r).cmds
  <2>3. cmds = (c \o (<<Del(Tracker)>> \o <<AddList(Tracker, "best")>>)) \o <<Commit("aria2"), Event("aria2")>>
    BY <1>10, <1>12, <2>2
  <2>4. /\ Len(cmds) = 6 + 2 /\ cmds[6 + 1] = Commit("aria2") /\ cmds[6 + 2] = Event("aria2")
        /\ \A i \in 1 .. 4 : cmds[i] = c[i]
        /\ cmds[5] = Del(Tracker) /\ cmds[6] = AddList(Tracker, "best")
    <3> HIDE DEF c, cmds
    <3>1. cmds = (<<c[1], c[2], c[3], c[4]>> \o (<<Del(Tracker)>> \o <<AddList(Tracker, "best")>>)) \o <<Commit("aria2"), Event("aria2")>>
      BY <2>3, <1>h
    <3>2. /\ Len(cmds) = 8 /\ cmds[7] = Commit("aria2") /\ cmds[8] = Event("aria2")
          /\ cmds[1] = c[1] /\ cmds[2] = c[2] /\ cmds[3] = c[3] /\ cmds[4] = c[4]
          /\ cmds[5] = Del(Tracker) /\ cmds[6] = AddList(Tracker, "best")
      BY <3>1
    <3>3. \A i \in 1 .. 4 : i = 1 \/ i = 2 \/ i = 3 \/ i = 4
      OBVIOUS
    <3> QED BY <3>2, <3>3
  <2> HIDE DEF cmds
  <2>5. AriaShape(r, cmds, 6, "best", "t2")
    BY <2>4 DEF AriaShape, c
  <2>6. AllAlong(s, cmds) /\ DownloadIs("aria2", r, BatchRun(s, cmds)[Len(cmds)])
        /\ BatchRun(s, cmds)[Len(cmds)].live[Tracker] = <<"best">>
    BY <2>5, AriaRuns
  <2> QED BY <1>12, <2>6 DEF AriaDone, TrackersAre, cmds
<1>13. ASSUME InitAria2(s, r) = ThenDo(p, e), t = <<"t1", "t2">>, s.staged[Tracker] # Unset PROVE AriaDone(s, r, InitAria2(s, r))
  <2>1. q = Do(<<Del(Tracker)>> \o <<AddList(Tracker, "t1"), AddList(Tracker, "t2")>>)
    BY <1>13, TrackerPlans
  <2>2. q.ok /\ q.cmds = <<Del(Tracker)>> \o <<AddList(Tracker, "t1"), AddList(Tracker, "t2")>>
    BY <2>1, PlansAre
  <2> DEFINE cmds == InitAria2(s, r).cmds
  <2>3. cmds = (c \o (<<Del(Tracker)>> \o <<AddList(Tracker, "t1"), AddList(Tracker, "t2")>>)) \o <<Commit("aria2"), Event("aria2")>>
    BY <1>10, <1>13, <2>2
  <2>4. /\ Len(cmds) = 7 + 2 /\ cmds[7 + 1] = Commit("aria2") /\ cmds[7 + 2] = Event("aria2")
        /\ \A i \in 1 .. 4 : cmds[i] = c[i]
        /\ cmds[5] = Del(Tracker) /\ cmds[6] = AddList(Tracker, "t1") /\ cmds[7] = AddList(Tracker, "t2")
    <3> HIDE DEF c, cmds
    <3>1. cmds = (<<c[1], c[2], c[3], c[4]>> \o (<<Del(Tracker)>> \o <<AddList(Tracker, "t1"), AddList(Tracker, "t2")>>))
                 \o <<Commit("aria2"), Event("aria2")>>
      BY <2>3, <1>h
    <3>2. /\ Len(cmds) = 9 /\ cmds[8] = Commit("aria2") /\ cmds[9] = Event("aria2")
          /\ cmds[1] = c[1] /\ cmds[2] = c[2] /\ cmds[3] = c[3] /\ cmds[4] = c[4]
          /\ cmds[5] = Del(Tracker) /\ cmds[6] = AddList(Tracker, "t1") /\ cmds[7] = AddList(Tracker, "t2")
      BY <3>1
    <3>3. \A i \in 1 .. 4 : i = 1 \/ i = 2 \/ i = 3 \/ i = 4
      OBVIOUS
    <3> QED BY <3>2, <3>3
  <2> HIDE DEF cmds
  <2>5. AriaShape(r, cmds, 7, "t1", "t2")
    BY <2>4 DEF AriaShape, c
  <2>6. AllAlong(s, cmds) /\ DownloadIs("aria2", r, BatchRun(s, cmds)[Len(cmds)])
        /\ BatchRun(s, cmds)[Len(cmds)].live[Tracker] = <<"t1", "t2">>
    BY <2>5, AriaRuns
  <2> QED BY <1>13, <2>6 DEF AriaDone, TrackersAre, cmds
<1>14. ASSUME t # <<>>, s.staged[Tracker] = Unset PROVE ~q.ok /\ q.cmds = <<>>
  BY <1>8, <1>14, TrackerPlans, PlansAre
<1> HIDE DEF c, t, q, e, p
<1> QED BY <1>1, <1>6, <1>7, <1>8, <1>9, <1>11, <1>12, <1>13, <1>14

-----------------------------------------------------------------------------
(* The guide's services: dynamic DNS and DDNSTO                            *)

LEMMA EventKeepsFile ==
  ASSUME NEW s, Packages(s), NEW p
  PROVE  Exec(s, Event(p)).file = s.file
<1>1. PICK f, t, l : s = Sides(f, t, l)
  BY DEF Packages, Up
<1>2. Exec(s, Event(p)) = Sides(f, t, OfPackage(l, f, p))
  BY <1>1, CommandIs
<1> QED BY <1>1, <1>2, SidesAre

\* A commit as the last command, or the last but the start of the service.
Ends(cmds, m, p) ==
  /\ m \in Nat \ {0} /\ cmds[m] = Commit(p)
  /\ Len(cmds) = m \/ (Len(cmds) = m + 1 /\ cmds[m + 1] = Event(p))

LEMMA FileAtTheEnd ==
  ASSUME NEW s, NEW cmds, AllAlong(s, cmds), NEW m, NEW p, Ends(cmds, m, p),
         NEW o \in SvcOptions, o[1] = p, NEW w, NEW i, i \in 1 .. m, Writes(cmds[i], o, w), LeftAfter(cmds, i, o)
  PROVE  BatchRun(s, cmds)[Len(cmds)].file[o] = w
<1> DEFINE g == BatchRun(s, cmds)
<1>1. m \in 1 .. Len(cmds) /\ i \in 1 .. Len(cmds) /\ m \in i .. Len(cmds) /\ m \in 0 .. Len(cmds)
  BY DEF Ends, AllAlong
<1>2. g[m].staged[o] = w
  <2>1. StagedFrom(s, cmds, i, o, w)
    BY <1>1, LastCounts
  <2> QED BY <1>1, <2>1 DEF StagedFrom
<1>3. g[m].file[o] = w
  <2>1. cmds[m] = Commit(p)
    BY DEF Ends
  <2> QED BY <1>1, <1>2, <2>1, CommittedAt
<1>4. CASE Len(cmds) = m
  BY <1>3, <1>4
<1>5. CASE Len(cmds) = m + 1 /\ cmds[m + 1] = Event(p)
  <2>1. m + 1 \in 1 .. Len(cmds) /\ (m + 1) - 1 = m
    BY <1>1, <1>5
  <2>2. g[m + 1] = Exec(g[m], Event(p))
    BY <2>1, <1>5, RunIs DEF AllAlong
  <2>3. Packages(g[m])
    BY <1>1 DEF AllAlong
  <2>4. g[m + 1].file = g[m].file
    BY <2>2, <2>3, EventKeepsFile
  <2> QED BY <1>3, <1>5, <2>4
<1> QED BY <1>4, <1>5 DEF Ends

\* A name that was updated.
DdnsIs(r, s) ==
  LET o(name) == s.file[Ddns(r.version, name)]
  IN  /\ o("domain") = <<r.domain>> /\ o("interface") = <<r.out>>
      /\ o("ip_source") = <<IF r.public THEN "network" ELSE "web">>
      /\ o("ip_network") = IF r.public THEN <<r.out>> ELSE Unset
      /\ ~r.public => o("ip_url") = <<IF r.version = "ipv4" THEN "4.ipw.cn" ELSE "6.ipw.cn">>

\* The commands of an update, with the service's name and the site to ask.
DdnsShape(r, cmds, m, service) ==
  /\ r.version \in Versions /\ Ends(cmds, m, "ddns")
  /\ cmds[1] = Set(Ddns(r.version, "domain"), r.domain) /\ cmds[2] = Set(Ddns(r.version, "service"), service)
  /\ cmds[3] = Set(Ddns(r.version, "interface"), r.out)
  /\ \/ /\ r.public /\ m = 6
        /\ cmds[4] = Set(Ddns(r.version, "ip_source"), "network") /\ cmds[5] = Set(Ddns(r.version, "ip_network"), r.out)
     \/ /\ ~r.public /\ m = 7
        /\ cmds[4] = Set(Ddns(r.version, "ip_source"), "web")
        /\ cmds[5] = Set(Ddns(r.version, "ip_url"), IF r.version = "ipv4" THEN "4.ipw.cn" ELSE "6.ipw.cn")
        /\ cmds[6] = Del(Ddns(r.version, "ip_network"))

LEMMA DdnsRuns ==
  ASSUME NEW s, Packages(s), NEW r, NEW cmds, NEW m, NEW service, DdnsShape(r, cmds, m, service)
  PROVE  AllAlong(s, cmds) /\ DdnsIs(r, BatchRun(s, cmds)[Len(cmds)])
<1> DEFINE Names == {"domain", "service", "interface", "ip_source", "ip_network", "ip_url"}
           D(name) == Ddns(r.version, name)
<1>1. \A name \in Names : D(name) \in SvcOptions /\ D(name)[1] = "ddns" /\ D(name)[3] = name /\ D(name) # Tracker
  BY DdnsOptions DEF DdnsShape
<1>2. Ends(cmds, m, "ddns") /\ m \in {6, 7} /\ Len(cmds) \in {m, m + 1}
  BY DEF DdnsShape, Ends
<1>3. cmds[m] = Commit("ddns") /\ (Len(cmds) = m + 1 => cmds[m + 1] = Event("ddns"))
  BY <1>2 DEF Ends
<1>4. \A x \in Names : \A v : Plain(Set(D(x), v)) /\ Plain(Del(D(x)))
  BY <1>1 DEF Plain
<1>5. \A p : Plain(Commit(p)) /\ Plain(Event(p))
  BY DEF Plain
<1>6. \A x, y \in Names : \A v : x # y => Leaves(Set(D(x), v), D(y)) /\ Leaves(Del(D(x)), D(y))
  <2> SUFFICES ASSUME NEW x \in Names, NEW y \in Names, NEW v, x # y PROVE Leaves(Set(D(x), v), D(y)) /\ Leaves(Del(D(x)), D(y))
    OBVIOUS
  <2>1. D(x) # D(y) /\ D(x) \in SvcOptions
    BY <1>1
  <2> QED BY <2>1 DEF Leaves
<1>7. \A p, o : Leaves(Commit(p), o) /\ Leaves(Event(p), o)
  BY DEF Leaves
<1>8. \A x \in Names : \A v : Writes(Set(D(x), v), D(x), <<v>>) /\ Writes(Del(D(x)), D(x), Unset)
  BY DEF Writes
<1>9. /\ cmds[1] = Set(D("domain"), r.domain) /\ cmds[2] = Set(D("service"), service) /\ cmds[3] = Set(D("interface"), r.out)
      /\ \/ /\ r.public /\ m = 6
            /\ cmds[4] = Set(D("ip_source"), "network") /\ cmds[5] = Set(D("ip_network"), r.out)
         \/ /\ ~r.public /\ m = 7
            /\ cmds[4] = Set(D("ip_source"), "web")
            /\ cmds[5] = Set(D("ip_url"), IF r.version = "ipv4" THEN "4.ipw.cn" ELSE "6.ipw.cn")
            /\ cmds[6] = Del(D("ip_network"))
  BY DEF DdnsShape
<1> HIDE DEF D
<1>10. AllAlong(s, cmds)
  <2>1. ASSUME NEW k \in 1 .. Len(cmds) PROVE Plain(cmds[k])
    <3>1. k = 1 \/ k = 2 \/ k = 3 \/ k = 4 \/ k = 5 \/ (m = 7 /\ k = 6) \/ k = m \/ (Len(cmds) = m + 1 /\ k = m + 1)
      BY <1>2
    <3> QED BY <3>1, <1>3, <1>4, <1>5, <1>9
  <2>2. Len(cmds) \in Nat
    BY <1>2
  <2> QED BY <2>1, <2>2, PlainRun
<1>11. ASSUME NEW i \in 1 .. 6, i < m, NEW x \in Names, NEW w, Writes(cmds[i], D(x), w),
              \A j \in i + 1 .. 6 : j < m => Leaves(cmds[j], D(x))
       PROVE  BatchRun(s, cmds)[Len(cmds)].file[D(x)] = w
  <2>1. LeftAfter(cmds, i, D(x))
    <3> SUFFICES ASSUME NEW j \in i + 1 .. Len(cmds) PROVE Leaves(cmds[j], D(x))
      BY DEF LeftAfter
    <3>1. (j \in i + 1 .. 6 /\ j < m) \/ j = m \/ (Len(cmds) = m + 1 /\ j = m + 1)
      BY <1>2
    <3> QED BY <3>1, <1>3, <1>7, <1>11
  <2>2. i \in 1 .. m
    BY <1>2, <1>11
  <2> QED BY <1>1, <1>2, <1>10, <1>11, <2>1, <2>2, FileAtTheEnd
<1> DEFINE o(name) == BatchRun(s, cmds)[Len(cmds)].file[D(name)]
<1>a. \A i \in 1 .. 6 : i = 1 \/ i = 2 \/ i = 3 \/ i = 4 \/ i = 5 \/ i = 6
  OBVIOUS
<1>12. o("domain") = <<r.domain>>
  <2>1. Writes(cmds[1], D("domain"), <<r.domain>>)
    BY <1>8, <1>9
  <2>2. \A j \in 1 + 1 .. 6 : j < m => Leaves(cmds[j], D("domain"))
    <3> TAKE j \in 1 + 1 .. 6
    <3>1. j = 2 \/ j = 3 \/ j = 4 \/ j = 5 \/ j = 6
      OBVIOUS
    <3> QED BY <3>1, <1>6, <1>9
  <2> QED BY <1>2, <1>11, <2>1, <2>2
<1>13. o("interface") = <<r.out>>
  <2>1. Writes(cmds[3], D("interface"), <<r.out>>)
    BY <1>8, <1>9
  <2>2. \A j \in 3 + 1 .. 6 : j < m => Leaves(cmds[j], D("interface"))
    <3> TAKE j \in 3 + 1 .. 6
    <3>1. j = 4 \/ j = 5 \/ j = 6
      OBVIOUS
    <3> QED BY <3>1, <1>6, <1>9
  <2> QED BY <1>2, <1>11, <2>1, <2>2
<1>14. o("ip_source") = <<IF r.public THEN "network" ELSE "web">>
  <2>1. Writes(cmds[4], D("ip_source"), <<IF r.public THEN "network" ELSE "web">>)
    BY <1>8, <1>9
  <2>2. \A j \in 4 + 1 .. 6 : j < m => Leaves(cmds[j], D("ip_source"))
    <3> TAKE j \in 4 + 1 .. 6
    <3>1. j = 5 \/ j = 6
      OBVIOUS
    <3> QED BY <3>1, <1>6, <1>9
  <2> QED BY <1>2, <1>11, <2>1, <2>2
<1>15. o("ip_network") = IF r.public THEN <<r.out>> ELSE Unset
  <2>1. CASE r.public
    <3>1. Writes(cmds[5], D("ip_network"), <<r.out>>) /\ m = 6
      BY <1>8, <1>9, <2>1
    <3>2. \A j \in 5 + 1 .. 6 : ~(j < m)
      BY <3>1
    <3> QED BY <1>11, <2>1, <3>1, <3>2
  <2>2. CASE ~r.public
    <3>1. Writes(cmds[6], D("ip_network"), Unset) /\ m = 7
      BY <1>8, <1>9, <2>2
    <3>2. \A j \in 6 + 1 .. 6 : FALSE
      OBVIOUS
    <3> QED BY <1>11, <2>2, <3>1, <3>2
  <2> QED BY <2>1, <2>2
<1>16. ~r.public => o("ip_url") = <<IF r.version = "ipv4" THEN "4.ipw.cn" ELSE "6.ipw.cn">>
  <2> HAVE ~r.public
  <2>1. Writes(cmds[5], D("ip_url"), <<IF r.version = "ipv4" THEN "4.ipw.cn" ELSE "6.ipw.cn">>) /\ m = 7
    BY <1>8, <1>9
  <2>2. \A j \in 5 + 1 .. 6 : j < m => Leaves(cmds[j], D("ip_url"))
    <3> TAKE j \in 5 + 1 .. 6
    <3>1. j = 6
      OBVIOUS
    <3> QED BY <3>1, <1>6, <1>9
  <2> QED BY <1>11, <2>1, <2>2
<1> QED BY <1>10, <1>12, <1>13, <1>14, <1>15, <1>16 DEF DdnsIs, D

\* What an update runs.
LEMMA DdnsPlan ==
  ASSUME NEW s, Packages(s), NEW r
  PROVE  /\ AllAlong(s, DDNSUpdate(r).cmds)
         /\ DDNSUpdate(r).ok => DdnsIs(r, BatchRun(s, DDNSUpdate(r).cmds)[Len(DDNSUpdate(r).cmds)])
<1> DEFINE run == ResolveGuideDDNSRuntime(r)
           name == BuildGuideDDNSServiceName(r.service)
           tail == IF r.starts THEN <<Event("ddns")>> ELSE <<>>
           cmds == BuildGuideDDNSApplyCommands(r, run) \o tail
           D(o) == Ddns(r.version, o)
           site == IF r.version = "ipv4" THEN "4.ipw.cn" ELSE "6.ipw.cn"
<1>1. DDNSUpdate(r) = Refuse \/ (run.ok /\ DDNSUpdate(r) = Do(cmds))
  BY DEF DDNSUpdate
<1>2. /\ run.section = r.version /\ run.interface = r.out /\ run.public = r.public
      /\ ~r.public => run.url = site
      /\ run.ok => r.version \in Versions
  BY Zenon DEF ResolveGuideDDNSRuntime, Versions
<1>3. ASSUME DDNSUpdate(r) = Refuse
      PROVE  AllAlong(s, DDNSUpdate(r).cmds) /\ ~DDNSUpdate(r).ok
  BY <1>3, PlansAre, NothingDone
<1>4. ASSUME run.ok
      PROVE  \E m : DdnsShape(r, cmds, m, name)
  <2>1. r.version \in Versions
    BY <1>2, <1>4
  <2>2. CASE r.public
    <3>1. run.public
      BY <1>2, <2>2
    <3>2. BuildGuideDDNSApplyCommands(r, run)
          = <<Set(D("domain"), r.domain), Set(D("service"), name), Set(D("interface"), r.out)>>
            \o <<Set(D("ip_source"), "network"), Set(D("ip_network"), r.out)>> \o <<Commit("ddns")>>
      BY <1>2, <3>1 DEF BuildGuideDDNSApplyCommands
    <3>3. /\ cmds[1] = Set(D("domain"), r.domain) /\ cmds[2] = Set(D("service"), name) /\ cmds[3] = Set(D("interface"), r.out)
          /\ cmds[4] = Set(D("ip_source"), "network") /\ cmds[5] = Set(D("ip_network"), r.out) /\ cmds[6] = Commit("ddns")
          /\ Len(cmds) = 6 \/ (Len(cmds) = 7 /\ cmds[7] = Event("ddns"))
      <4> HIDE DEF name, run, D
      <4>1. CASE r.starts
        BY <3>2, <4>1
      <4>2. CASE ~r.starts
        BY <3>2, <4>2
      <4> QED BY <4>1, <4>2
    <3> HIDE DEF cmds, run, name
    <3>4. Ends(cmds, 6, "ddns")
      BY <3>3 DEF Ends
    <3>5. DdnsShape(r, cmds, 6, name)
      BY <2>1, <2>2, <3>3, <3>4 DEF DdnsShape
    <3> QED BY <3>5
  <2>3. CASE ~r.public
    <3>1. ~run.public /\ run.url = site
      BY <1>2, <2>3, Zenon
    <3>2. BuildGuideDDNSApplyCommands(r, run)
          = <<Set(D("domain"), r.domain), Set(D("service"), name), Set(D("interface"), r.out)>>
            \o <<Set(D("ip_source"), "web"), Set(D("ip_url"), run.url), Del(D("ip_network"))>> \o <<Commit("ddns")>>
      BY <1>2, <3>1 DEF BuildGuideDDNSApplyCommands
    <3>3. /\ cmds[1] = Set(D("domain"), r.domain) /\ cmds[2] = Set(D("service"), name) /\ cmds[3] = Set(D("interface"), r.out)
          /\ cmds[4] = Set(D("ip_source"), "web") /\ cmds[5] = Set(D("ip_url"), run.url) /\ cmds[6] = Del(D("ip_network"))
          /\ cmds[7] = Commit("ddns")
          /\ Len(cmds) = 7 \/ (Len(cmds) = 8 /\ cmds[8] = Event("ddns"))
      <4> HIDE DEF name, run, D
      <4>1. CASE r.starts
        BY <3>2, <4>1
      <4>2. CASE ~r.starts
        BY <3>2, <4>2
      <4> QED BY <4>1, <4>2
    <3> HIDE DEF cmds, run, name
    <3>4. Ends(cmds, 7, "ddns")
      BY <3>3 DEF Ends
    <3>5. cmds[5] = Set(D("ip_url"), site)
      BY <3>1, <3>3
    <3>6. DdnsShape(r, cmds, 7, name)
      BY <2>1, <2>3, <3>3, <3>4, <3>5 DEF DdnsShape
    <3> QED BY <3>6
  <2> QED BY <2>2, <2>3
<1>5. ASSUME run.ok, DDNSUpdate(r) = Do(cmds)
      PROVE  AllAlong(s, DDNSUpdate(r).cmds) /\ DdnsIs(r, BatchRun(s, DDNSUpdate(r).cmds)[Len(DDNSUpdate(r).cmds)])
  <2> HIDE DEF cmds, run, name
  <2>1. DDNSUpdate(r).cmds = cmds
    BY <1>5, PlansAre
  <2> QED BY <1>4, <1>5, <2>1, DdnsRuns
<1> HIDE DEF cmds, run
<1> QED BY <1>1, <1>3, <1>5

LEMMA LastIs ==
  \A v, none : Last1(<<v>>, none) = v
<1> TAKE v, none
<1>1. <<v>> # Unset /\ <<v>>[Len(<<v>>)] = v
  BY DEF Unset
<1> QED BY <1>1 DEF Last1

\* DDNSTO shows the token, or the address.
DdnstoIs(token, s) == s.staged[Ddnsto("enabled")] = <<"1">> /\ s.staged[Ddnsto("token")] = <<token>>
AddressIs(address, s) == s.staged[Ddnsto("address")] = <<address>>

LEMMA DdnstoPlan ==
  ASSUME NEW s, Packages(s), NEW token
  PROVE  LET plan == EnableDdnsto(token) IN AllAlong(s, plan.cmds) /\ DdnstoIs(token, BatchRun(s, plan.cmds)[Len(plan.cmds)])
<1> DEFINE cmds == <<Set(Ddnsto("enabled"), "1"), Set(Ddnsto("token"), token)>> \o <<Commit("ddnsto"), Event("ddnsto")>>
           e == Ddnsto("enabled")
           t == Ddnsto("token")
<1>1. EnableDdnsto(token).cmds = cmds
  BY PlansAre, ApplyOne DEF EnableDdnsto
<1>2. /\ Len(cmds) = 4 /\ cmds[1] = Set(e, "1") /\ cmds[2] = Set(t, token) /\ cmds[3] = Commit("ddnsto")
      /\ cmds[4] = Event("ddnsto")
  OBVIOUS
<1>3. e \in SvcOptions /\ t \in SvcOptions /\ e # Tracker /\ t # Tracker /\ e # t
  <2>1. e[2] = "enabled" /\ t[2] = "token"
    BY DdnstoOptions
  <2> QED BY <2>1, DdnstoOptions
<1> HIDE DEF cmds, e, t
<1>4. \A k \in 1 .. 4 : k = 1 \/ k = 2 \/ k = 3 \/ k = 4
  OBVIOUS
<1>5. AllAlong(s, cmds)
  <2>1. ASSUME NEW k \in 1 .. Len(cmds) PROVE Plain(cmds[k])
    <3>1. Plain(Set(e, "1")) /\ Plain(Set(t, token)) /\ Plain(Commit("ddnsto")) /\ Plain(Event("ddnsto"))
      BY <1>3 DEF Plain
    <3> QED BY <1>2, <1>4, <3>1
  <2>2. Len(cmds) \in Nat
    BY <1>2
  <2> QED BY <2>1, <2>2, PlainRun
<1>6. Leaves(cmds[2], e) /\ \A o : Leaves(cmds[3], o) /\ Leaves(cmds[4], o)
  BY <1>2, <1>3 DEF Leaves
<1>7. LeftAfter(cmds, 1, e) /\ LeftAfter(cmds, 2, t)
  <2>1. ASSUME NEW j \in 1 + 1 .. Len(cmds) PROVE Leaves(cmds[j], e)
    <3>1. j = 2 \/ j = 3 \/ j = 4
      BY <1>2
    <3> QED BY <1>6, <3>1
  <2>2. ASSUME NEW j \in 2 + 1 .. Len(cmds) PROVE Leaves(cmds[j], t)
    <3>1. j = 3 \/ j = 4
      BY <1>2
    <3> QED BY <1>6, <3>1
  <2> QED BY <2>1, <2>2 DEF LeftAfter
<1>8. Writes(cmds[1], e, <<"1">>) /\ Writes(cmds[2], t, <<token>>)
  BY <1>2 DEF Writes
<1>9. StagedFrom(s, cmds, 1, e, <<"1">>) /\ StagedFrom(s, cmds, 2, t, <<token>>)
  <2>1. 1 \in 1 .. Len(cmds) /\ 2 \in 1 .. Len(cmds)
    BY <1>2
  <2> QED BY <1>3, <1>5, <1>7, <1>8, <2>1, LastCounts
<1>10. Len(cmds) \in 1 .. Len(cmds) /\ Len(cmds) \in 2 .. Len(cmds)
  BY <1>2
<1>11. DdnstoIs(token, BatchRun(s, cmds)[Len(cmds)])
  BY <1>9, <1>10 DEF StagedFrom, DdnstoIs, e, t
<1> QED BY <1>1, <1>5, <1>11

LEMMA AddressPlan ==
  ASSUME NEW s, Packages(s), NEW address
  PROVE  LET plan == UpdateDdnstoAddress(address)
         IN  AllAlong(s, plan.cmds) /\ AddressIs(address, BatchRun(s, plan.cmds)[Len(plan.cmds)])
<1> DEFINE cmds == <<Set(Ddnsto("address"), address), Commit("ddnsto")>>
           a == Ddnsto("address")
<1>1. UpdateDdnstoAddress(address).cmds = cmds
  BY PlansAre DEF UpdateDdnstoAddress
<1>2. Len(cmds) = 2 /\ cmds[1] = Set(a, address) /\ cmds[2] = Commit("ddnsto")
  OBVIOUS
<1>3. a \in SvcOptions /\ a # Tracker
  BY DdnstoOptions
<1> HIDE DEF cmds, a
<1>4. AllAlong(s, cmds)
  <2>1. ASSUME NEW k \in 1 .. Len(cmds) PROVE Plain(cmds[k])
    <3>1. Plain(Set(a, address)) /\ Plain(Commit("ddnsto"))
      BY <1>3 DEF Plain
    <3>2. k = 1 \/ k = 2
      BY <1>2
    <3> QED BY <1>2, <3>1, <3>2
  <2>2. Len(cmds) \in Nat
    BY <1>2
  <2> QED BY <2>1, <2>2, PlainRun
<1>5. LeftAfter(cmds, 1, a)
  <2>1. Leaves(cmds[2], a)
    BY <1>2 DEF Leaves
  <2>2. \A j \in 1 + 1 .. Len(cmds) : j = 2
    BY <1>2
  <2> QED BY <2>1, <2>2 DEF LeftAfter
<1>6. StagedFrom(s, cmds, 1, a, <<address>>)
  <2>1. 1 \in 1 .. Len(cmds) /\ Writes(cmds[1], a, <<address>>)
    BY <1>2 DEF Writes
  <2> QED BY <1>3, <1>4, <1>5, <2>1, LastCounts
<1>7. Len(cmds) \in 1 .. Len(cmds)
  BY <1>2
<1>8. AddressIs(address, BatchRun(s, cmds)[Len(cmds)])
  BY <1>6, <1>7 DEF StagedFrom, AddressIs, a
<1> QED BY <1>1, <1>4, <1>8

-----------------------------------------------------------------------------
(* The guide's services: the software source                               *)

Feed(p, u) == [path |-> p, url |-> u]
FeedsOf(u) == <<Feed("_core", u), Feed("_base", u)>>
Urls == Range(guideSoftSourceURLs) \union {RomFeeds[1].url}
\* The feeds of one source, or none after a write that was cut off.
FeedsAre(f) == f = <<>> \/ \E u \in Urls : f = FeedsOf(u)

LEMMA FourSources ==
  /\ DOMAIN guideSoftSourceURLs = 1 .. 4 /\ DOMAIN guideSoftSourceIdentities = 1 .. 4
  /\ \A n \in 1 .. 4 : n = 1 \/ n = 2 \/ n = 3 \/ n = 4
  /\ \A n \in 1 .. 4 : guideSoftSourceURLs[n] \in Urls
<1>1. DOMAIN guideSoftSourceURLs = 1 .. 4 /\ DOMAIN guideSoftSourceIdentities = 1 .. 4
  BY DEF guideSoftSourceURLs, guideSoftSourceIdentities
<1>2. \A n \in 1 .. 4 : guideSoftSourceURLs[n] \in Range(guideSoftSourceURLs)
  BY <1>1 DEF Range
<1>3. \A n \in 1 .. 4 : n = 1 \/ n = 2 \/ n = 3 \/ n = 4
  OBVIOUS
<1> QED BY <1>1, <1>2, <1>3 DEF Urls

LEMMA SourceUrls ==
  /\ guideSoftSourceURLs[1] = Url("http", "downloads.openwrt.org", FALSE)
  /\ guideSoftSourceURLs[2] = Url("https", "downloads.openwrt.org", FALSE)
  /\ guideSoftSourceURLs[3] = Url("https", "mirrors.tuna.tsinghua.edu.cn", TRUE)
  /\ guideSoftSourceURLs[4] = Url("https", "mirrors.aliyun.com", TRUE)
<1> HIDE DEF Url
<1> QED BY DEF guideSoftSourceURLs

LEMMA UrlIs ==
  \A p, x, u, v : /\ Url(p, x, u).scheme = p /\ Url(p, x, u).host = x /\ Url(p, x, u).sub = u
                 /\ [Url(p, x, u) EXCEPT !.sub = v] = Url(p, x, v)
BY DEF Url

LEMMA SourcesDiffer ==
  \A m, n \in 1 .. 4 : /\ guideSoftSourceURLs[m] = guideSoftSourceURLs[n] => m = n
                       /\ guideSoftSourceIdentities[m] = guideSoftSourceIdentities[n] => m = n
<1> HIDE DEF Url
<1>1. \E u : guideSoftSourceURLs[1] = Url("http", "downloads.openwrt.org", u)
  BY SourceUrls, Zenon
<1>2. \E u : guideSoftSourceURLs[2] = Url("https", "downloads.openwrt.org", u)
  BY SourceUrls, Zenon
<1>3. \E u : guideSoftSourceURLs[3] = Url("https", "mirrors.tuna.tsinghua.edu.cn", u)
  BY SourceUrls, Zenon
<1>4. \E u : guideSoftSourceURLs[4] = Url("https", "mirrors.aliyun.com", u)
  BY SourceUrls, Zenon
<1>5. /\ guideSoftSourceIdentities[1] = "OpenWrtHttp" /\ guideSoftSourceIdentities[2] = "OpenWrtHttps"
      /\ guideSoftSourceIdentities[3] = "Tsinghua" /\ guideSoftSourceIdentities[4] = "Alibaba Cloud"
  BY DEF guideSoftSourceIdentities
<1>6. /\ guideSoftSourceURLs[1] # guideSoftSourceURLs[2] /\ guideSoftSourceURLs[1] # guideSoftSourceURLs[3]
      /\ guideSoftSourceURLs[1] # guideSoftSourceURLs[4] /\ guideSoftSourceURLs[2] # guideSoftSourceURLs[3]
      /\ guideSoftSourceURLs[2] # guideSoftSourceURLs[4] /\ guideSoftSourceURLs[3] # guideSoftSourceURLs[4]
  BY <1>1, <1>2, <1>3, <1>4, UrlIs
<1>7. /\ guideSoftSourceIdentities[1] # guideSoftSourceIdentities[2] /\ guideSoftSourceIdentities[1] # guideSoftSourceIdentities[3]
      /\ guideSoftSourceIdentities[1] # guideSoftSourceIdentities[4] /\ guideSoftSourceIdentities[2] # guideSoftSourceIdentities[3]
      /\ guideSoftSourceIdentities[2] # guideSoftSourceIdentities[4] /\ guideSoftSourceIdentities[3] # guideSoftSourceIdentities[4]
  BY <1>5, Zenon
<1> QED BY <1>6, <1>7, FourSources

LEMMA FeedIs ==
  \A p, u, w : Feed(p, u).path = p /\ Feed(p, u).url = u /\ [Feed(p, u) EXCEPT !.url = w] = Feed(p, w)
BY DEF Feed

LEMMA FeedsHave ==
  \A u : /\ DOMAIN FeedsOf(u) = 1 .. 2
         /\ FeedsOf(u)[1] = Feed("_core", u) /\ FeedsOf(u)[2] = Feed("_base", u)
<1> HIDE DEF Feed
<1> QED BY DEF FeedsOf

LEMMA RomIs == \E u \in Urls : RomFeeds = FeedsOf(u)
<1> DEFINE u == Url("https", "vendor", TRUE)
<1>1. RomFeeds = FeedsOf(u)
  BY Zenon DEF RomFeeds, FeedsOf, Feed
<1> HIDE DEF u
<1>2. RomFeeds[1].url = u
  BY <1>1, FeedsHave, FeedIs
<1> QED BY <1>1, <1>2 DEF Urls

LEMMA Repathed ==
  ASSUME NEW u, NEW w
  PROVE  [n \in DOMAIN FeedsOf(u) |-> [FeedsOf(u)[n] EXCEPT !.url = w]] = FeedsOf(w)
<1>1. \A p : [Feed(p, u) EXCEPT !.url = w] = Feed(p, w)
  BY FeedIs
<1>2. FeedsOf(w) = [n \in 1 .. 2 |-> FeedsOf(w)[n]]
  BY DEF FeedsOf
<1>3. \A n \in 1 .. 2 : n = 1 \/ n = 2
  OBVIOUS
<1>4. \A n \in 1 .. 2 : [FeedsOf(u)[n] EXCEPT !.url = w] = FeedsOf(w)[n]
  BY <1>1, <1>3, FeedsHave
<1> QED BY <1>2, <1>4, FeedsHave

LEMMA NoneRepathed == \A w : [n \in DOMAIN <<>> |-> [<<>>[n] EXCEPT !.url = w]] = <<>>
OBVIOUS

\* Whichever file is read, every feed gets the new source; the image's has them all.
LEMMA Replaced ==
  ASSUME FeedsAre(feeds), NEW w \in Urls
  PROVE  /\ FeedsAre(replaceGuideSoftSource(w))
         /\ rom => replaceGuideSoftSource(w) = FeedsOf(w)
<1>1. ASSUME rom PROVE replaceGuideSoftSource(w) = FeedsOf(w)
  <2>1. PICK u \in Urls : RomFeeds = FeedsOf(u)
    BY RomIs
  <2>2. replaceGuideSoftSource(w) = [n \in DOMAIN RomFeeds |-> [RomFeeds[n] EXCEPT !.url = w]]
    BY <1>1, Zenon DEF replaceGuideSoftSource
  <2> QED BY <2>1, <2>2, Repathed
<1>2. ASSUME ~rom PROVE FeedsAre(replaceGuideSoftSource(w))
  <2>1. replaceGuideSoftSource(w) = [n \in DOMAIN feeds |-> [feeds[n] EXCEPT !.url = w]]
    BY <1>2, Zenon DEF replaceGuideSoftSource
  <2>2. ASSUME feeds = <<>> PROVE replaceGuideSoftSource(w) = <<>>
    BY <2>1, <2>2, NoneRepathed
  <2>3. ASSUME NEW u, feeds = FeedsOf(u) PROVE replaceGuideSoftSource(w) = FeedsOf(w)
    BY <2>1, <2>3, Repathed
  <2> QED BY <2>2, <2>3 DEF FeedsAre
<1> QED BY <1>1, <1>2 DEF FeedsAre

\* An identity that is known is found, and the source's address back to it.
LEMMA FoundBy ==
  /\ \A n \in 1 .. 4 : resolveGuideSoftSourceByIdentity(guideSoftSourceIdentities[n]) = {guideSoftSourceURLs[n]}
  /\ \A n \in 1 .. 4 : resolveGuideSoftSourceByURL(guideSoftSourceURLs[n]) = guideSoftSourceIdentities[n]
  /\ \A identity : resolveGuideSoftSourceByIdentity(identity) # {} => \E n \in 1 .. 4 : identity = guideSoftSourceIdentities[n]
<1>1. /\ DOMAIN ListSources = 1 .. 4
      /\ \A n \in 1 .. 4 : ListSources[n].identity = guideSoftSourceIdentities[n] /\ ListSources[n].url = guideSoftSourceURLs[n]
  BY FourSources DEF ListSources
<1>2. ASSUME NEW n \in 1 .. 4
      PROVE  resolveGuideSoftSourceByIdentity(guideSoftSourceIdentities[n]) = {guideSoftSourceURLs[n]}
  <2>1. {m \in DOMAIN ListSources : ListSources[m].identity = guideSoftSourceIdentities[n]} = {n}
    BY <1>1, SourcesDiffer
  <2>2. {ListSources[m].url : m \in {n}} = {guideSoftSourceURLs[n]}
    BY <1>1
  <2> QED BY <2>1, <2>2, Zenon DEF resolveGuideSoftSourceByIdentity
<1>3. ASSUME NEW n \in 1 .. 4
      PROVE  resolveGuideSoftSourceByURL(guideSoftSourceURLs[n]) = guideSoftSourceIdentities[n]
  <2> DEFINE at == {m \in DOMAIN guideSoftSourceURLs : guideSoftSourceURLs[m] = guideSoftSourceURLs[n]}
  <2>1. at = {n}
    BY FourSources, SourcesDiffer
  <2>2. (CHOOSE m \in at : TRUE) = n
    BY <2>1
  <2>3. at # {}
    BY <2>1
  <2> QED BY <2>2, <2>3, Zenon DEF resolveGuideSoftSourceByURL
<1>4. ASSUME NEW identity, resolveGuideSoftSourceByIdentity(identity) # {}
      PROVE  \E n \in 1 .. 4 : identity = guideSoftSourceIdentities[n]
  BY <1>1, <1>4 DEF resolveGuideSoftSourceByIdentity
<1> QED BY <1>2, <1>3, <1>4

\* The address as it is read: the path below the host is the mirror's own.
LEMMA HostTells ==
  \A n \in 1 .. 4 : [guideSoftSourceURLs[n] EXCEPT !.sub = guideSoftSourceURLs[n].host # "downloads.openwrt.org"] = guideSoftSourceURLs[n]
<1> DEFINE own(x) == x # "downloads.openwrt.org"
           at(u) == [u EXCEPT !.sub = own(u.host)]
<1> HIDE DEF Url, own
<1>1. \A p, x, v : at(Url(p, x, v)) = Url(p, x, own(x))
  BY UrlIs
<1>2. own("downloads.openwrt.org") = FALSE
  BY Zenon DEF own
<1>3. own("mirrors.tuna.tsinghua.edu.cn") = TRUE
  BY Zenon DEF own
<1>4. own("mirrors.aliyun.com") = TRUE
  BY Zenon DEF own
<1> HIDE DEF at
<1>5. at(guideSoftSourceURLs[1]) = guideSoftSourceURLs[1] /\ at(guideSoftSourceURLs[2]) = guideSoftSourceURLs[2]
  BY <1>1, <1>2, SourceUrls
<1>6. at(guideSoftSourceURLs[3]) = guideSoftSourceURLs[3]
  BY <1>1, <1>3, SourceUrls
<1>7. at(guideSoftSourceURLs[4]) = guideSoftSourceURLs[4]
  BY <1>1, <1>4, SourceUrls
<1>8. \A n \in 1 .. 4 : at(guideSoftSourceURLs[n]) = guideSoftSourceURLs[n]
  BY <1>5, <1>6, <1>7, FourSources
<1> QED BY <1>8 DEF at, own

LEMMA ReadBack ==
  ASSUME NEW n \in 1 .. 4
  PROVE  ReadCurrentSource(FeedsOf(guideSoftSourceURLs[n])) = guideSoftSourceIdentities[n]
<1> DEFINE u == guideSoftSourceURLs[n]
           f == FeedsOf(u)
<1>1. DOMAIN f = 1 .. 2 /\ f[1].path = "_core" /\ f[2].path = "_base" /\ f[2].url = u
  BY FeedsHave, FeedIs
<1> HIDE DEF f
<1>2. \A m \in DOMAIN f : f[m].path = "_base" <=> m = 2
  BY <1>1
<1>3. ~(\A m \in DOMAIN f : f[m].path # "_base")
  BY <1>1
<1>4. (CHOOSE m \in DOMAIN f : f[m].path = "_base") = 2
  BY <1>1, <1>2
<1>5. ReadCurrentSource(f) = resolveGuideSoftSourceByURL([f[2].url EXCEPT !.sub = f[2].url.host # "downloads.openwrt.org"])
  BY <1>3, <1>4, Zenon DEF ReadCurrentSource
<1>6. [u EXCEPT !.sub = u.host # "downloads.openwrt.org"] = u
  BY HostTells
<1> QED BY <1>1, <1>5, <1>6, FoundBy DEF f

-----------------------------------------------------------------------------
(* The guide's services: the requests                                      *)

\* What a plan promises wherever it is cut off, and when it is not.
ShortDone(kind, s, r, plan) ==
  /\ AllAlong(s, plan.cmds)
  /\ plan.ok => DownloadIs(kind, r, BatchRun(s, plan.cmds)[Len(plan.cmds)])

LEMMA QbittorrentPlan ==
  ASSUME NEW s, Packages(s), NEW r
  PROVE  ShortDone("qbittorrent", s, r, InitQbittorrent(r))
<1> DEFINE kind == "qbittorrent"
           cmds == BuildQbittorrentConfigCommands(r) \o BuildQbittorrentRestartCommands
<1>1. /\ Len(cmds) = 5 /\ cmds[1] = Set(Dl(kind, "config"), r.config) /\ cmds[2] = Set(Dl(kind, "dir"), r.dir)
      /\ cmds[3] = Set(Dl(kind, "enabled"), "1") /\ cmds[4] = Commit(kind) /\ cmds[5] = Event(kind)
  <2>1. BuildQbittorrentConfigCommands(r) = <<Set(Dl(kind, "config"), r.config), Set(Dl(kind, "dir"), r.dir), Set(Dl(kind, "enabled"), "1")>>
    BY DEF BuildQbittorrentConfigCommands
  <2>2. BuildQbittorrentRestartCommands = <<Commit(kind), Event(kind)>>
    BY ApplyOne DEF BuildQbittorrentRestartCommands
  <2> QED BY <2>1, <2>2
<1> HIDE DEF cmds
<1>2. AllAlong(s, cmds) /\ DownloadIs(kind, r, BatchRun(s, cmds)[Len(cmds)])
  <2>1. kind \in Kinds
    BY DEF Kinds
  <2> QED BY <1>1, <2>1, ShortPlan
<1>3. InitQbittorrent(r) = Refuse \/ InitQbittorrent(r) = Do(cmds)
  BY Zenon DEF cmds, InitQbittorrent
<1>4. AllAlong(s, <<>>)
  BY NothingDone
<1> QED BY <1>2, <1>3, <1>4, PlansAre DEF ShortDone

LEMMA TransmissionPlan ==
  ASSUME NEW s, Packages(s), NEW r
  PROVE  ShortDone("transmission", s, r, InitTransmission(r))
<1> DEFINE kind == "transmission"
           cmds == BuildTransmissionConfigCommands(r) \o BuildTransmissionRestartCommands
<1>1. /\ Len(cmds) = 5 /\ cmds[1] = Set(Dl(kind, "config"), r.config) /\ cmds[2] = Set(Dl(kind, "dir"), r.dir)
      /\ cmds[3] = Set(Dl(kind, "enabled"), "1") /\ cmds[4] = Commit(kind) /\ cmds[5] = Event(kind)
  <2>1. BuildTransmissionConfigCommands(r) = <<Set(Dl(kind, "config"), r.config), Set(Dl(kind, "dir"), r.dir), Set(Dl(kind, "enabled"), "1")>>
    BY DEF BuildTransmissionConfigCommands
  <2>2. BuildTransmissionRestartCommands = <<Commit(kind), Event(kind)>>
    BY ApplyOne DEF BuildTransmissionRestartCommands
  <2> QED BY <2>1, <2>2
<1> HIDE DEF cmds
<1>2. AllAlong(s, cmds) /\ DownloadIs(kind, r, BatchRun(s, cmds)[Len(cmds)])
  <2>1. kind \in Kinds
    BY DEF Kinds
  <2> QED BY <1>1, <2>1, ShortPlan
<1>3. InitTransmission(r) = Refuse \/ InitTransmission(r) = Do(cmds)
  BY Zenon DEF cmds, InitTransmission
<1>4. AllAlong(s, <<>>)
  BY NothingDone
<1> QED BY <1>2, <1>3, <1>4, PlansAre DEF ShortDone

\* What the last request that was answered with success has left.
FormHolds(kind, r, s) ==
  /\ kind \in Kinds => DownloadIs(kind, r, s)
  /\ kind = "aria2" => TrackersAre(ResolveAria2Trackers(r), s)
  /\ kind = "ddns" => DdnsIs(r, s)
  /\ kind = "ddnsto" => DdnstoIs(r.token, s)
  /\ kind = "address" => AddressIs(r.address, s)
SourceHolds(answered, f) ==
  answered.kind = "source" /\ rom => \E n \in 1 .. 4 : answered.r = guideSoftSourceIdentities[n] /\ f = FeedsOf(guideSoftSourceURLs[n])

SvcInv ==
  /\ Packages(svc) /\ FeedsAre(feeds)
  /\ FormHolds(svcAsked.kind, svcAsked.r, svc)
  /\ SourceHolds(svcAsked, feeds)

LEMMA NoAnswer ==
  /\ NoSvcRequest.kind = "none"
  /\ \A r, s : FormHolds("none", r, s)
BY DEF NoSvcRequest, FormHolds, Kinds

\* A request whose plan leaves good packages at every command, and what it promises at the last.
LEMMA Served ==
  ASSUME SvcInv, NEW kind, kind # "source", NEW r, NEW plan, ServeService(kind, r, plan),
         AllAlong(svc, plan.cmds), plan.ok => FormHolds(kind, r, BatchRun(svc, plan.cmds)[Len(plan.cmds)])
  PROVE  SvcInv'
<1>1. PICK k \in 0 .. Len(plan.cmds) :
        /\ svc' = BatchRun(svc, plan.cmds)[k]
        /\ svcAsked' = IF plan.ok /\ k = Len(plan.cmds) THEN [kind |-> kind, r |-> r] ELSE NoSvcRequest
  BY DEF ServeService
<1>2. feeds' = feeds /\ rom' = rom
  BY DEF ServeService
<1>3. Packages(svc')
  BY <1>1 DEF AllAlong
<1>4. CASE plan.ok /\ k = Len(plan.cmds)
  <2>1. svcAsked' = [kind |-> kind, r |-> r]
    BY <1>1, <1>4, Zenon
  <2>2. svcAsked'.kind = kind /\ svcAsked'.r = r
    BY <2>1
  <2>3. FormHolds(kind, r, svc')
    BY <1>1, <1>4
  <2> QED BY <1>2, <1>3, <2>2, <2>3 DEF SvcInv, SourceHolds
<1>5. CASE ~(plan.ok /\ k = Len(plan.cmds))
  <2>1. svcAsked' = NoSvcRequest
    BY <1>1, <1>5, Zenon
  <2>2. svcAsked'.kind = "none"
    BY <2>1, NoAnswer
  <2>3. FormHolds(svcAsked'.kind, svcAsked'.r, svc')
    BY <2>2, NoAnswer
  <2> QED BY <1>2, <1>3, <2>2, <2>3 DEF SvcInv, SourceHolds
<1> QED BY <1>4, <1>5

LEMMA FormsAre ==
  ASSUME NEW s, NEW r
  PROVE  /\ DownloadIs("aria2", r, s) /\ TrackersAre(ResolveAria2Trackers(r), s) => FormHolds("aria2", r, s)
         /\ DownloadIs("qbittorrent", r, s) => FormHolds("qbittorrent", r, s)
         /\ DownloadIs("transmission", r, s) => FormHolds("transmission", r, s)
         /\ DdnsIs(r, s) => FormHolds("ddns", r, s)
         /\ DdnstoIs(r.token, s) => FormHolds("ddnsto", r, s)
         /\ AddressIs(r.address, s) => FormHolds("address", r, s)
BY DEF FormHolds, Kinds

LEMMA DownloadsKeep ==
  ASSUME SvcInv, GuideAria2Init \/ GuideQbittorrentInit \/ GuideTransmissionInit
  PROVE  SvcInv'
<1>1. Packages(svc)
  BY DEF SvcInv
<1>2. CASE GuideAria2Init
  <2>1. PICK r \in Aria2Requests : ServeService("aria2", r, InitAria2(svc, r))
    BY <1>2 DEF GuideAria2Init
  <2> DEFINE plan == InitAria2(svc, r)
  <2>2. AriaDone(svc, r, plan)
    BY <1>1, AriaPlan
  <2> HIDE DEF plan
  <2>3. AllAlong(svc, plan.cmds) /\ (plan.ok => FormHolds("aria2", r, BatchRun(svc, plan.cmds)[Len(plan.cmds)]))
    BY <2>2, FormsAre DEF AriaDone
  <2>4. ServeService("aria2", r, plan)
    BY <2>1 DEF plan
  <2> QED BY <2>3, <2>4, Served
<1>3. CASE GuideQbittorrentInit
  <2>1. PICK d : ServeService("qbittorrent", [config |-> "c", dir |-> d], InitQbittorrent([config |-> "c", dir |-> d]))
    BY <1>3 DEF GuideQbittorrentInit
  <2> DEFINE r == [config |-> "c", dir |-> d]
             plan == InitQbittorrent(r)
  <2> HIDE DEF r
  <2>2. ShortDone("qbittorrent", svc, r, plan)
    BY <1>1, QbittorrentPlan
  <2> HIDE DEF plan
  <2>3. AllAlong(svc, plan.cmds) /\ (plan.ok => FormHolds("qbittorrent", r, BatchRun(svc, plan.cmds)[Len(plan.cmds)]))
    BY <2>2, FormsAre DEF ShortDone
  <2>4. ServeService("qbittorrent", r, plan)
    BY <2>1 DEF plan, r
  <2> QED BY <2>3, <2>4, Served
<1>4. CASE GuideTransmissionInit
  <2>1. PICK d : ServeService("transmission", [config |-> "c", dir |-> d], InitTransmission([config |-> "c", dir |-> d]))
    BY <1>4 DEF GuideTransmissionInit
  <2> DEFINE r == [config |-> "c", dir |-> d]
             plan == InitTransmission(r)
  <2> HIDE DEF r
  <2>2. ShortDone("transmission", svc, r, plan)
    BY <1>1, TransmissionPlan
  <2> HIDE DEF plan
  <2>3. AllAlong(svc, plan.cmds) /\ (plan.ok => FormHolds("transmission", r, BatchRun(svc, plan.cmds)[Len(plan.cmds)]))
    BY <2>2, FormsAre DEF ShortDone
  <2>4. ServeService("transmission", r, plan)
    BY <2>1 DEF plan, r
  <2> QED BY <2>3, <2>4, Served
<1> QED BY <1>2, <1>3, <1>4

LEMMA NamesKeep ==
  ASSUME SvcInv, GuideDdnsUpdate \/ GuideDdnstoEnable \/ GuideDdnstoAddress
  PROVE  SvcInv'
<1>1. Packages(svc)
  BY DEF SvcInv
<1>2. CASE GuideDdnsUpdate
  <2>1. PICK r : ServeService("ddns", r, DDNSUpdate(r))
    <3> HIDE DEF DdnsForms
    <3> QED BY <1>2, Zenon DEF GuideDdnsUpdate
  <2> DEFINE plan == DDNSUpdate(r)
  <2>2. AllAlong(svc, plan.cmds) /\ (plan.ok => DdnsIs(r, BatchRun(svc, plan.cmds)[Len(plan.cmds)]))
    BY <1>1, DdnsPlan
  <2> HIDE DEF plan
  <2>3. plan.ok => FormHolds("ddns", r, BatchRun(svc, plan.cmds)[Len(plan.cmds)])
    BY <2>2, FormsAre
  <2>4. ServeService("ddns", r, plan)
    BY <2>1 DEF plan
  <2> QED BY <2>2, <2>3, <2>4, Served
<1>3. CASE GuideDdnstoEnable
  <2>1. PICK t : ServeService("ddnsto", [token |-> t], EnableDdnsto(t))
    BY <1>3 DEF GuideDdnstoEnable
  <2> DEFINE r == [token |-> t]
             plan == EnableDdnsto(t)
  <2>2. AllAlong(svc, plan.cmds) /\ DdnstoIs(t, BatchRun(svc, plan.cmds)[Len(plan.cmds)])
    BY <1>1, DdnstoPlan
  <2>3. r.token = t
    OBVIOUS
  <2> HIDE DEF plan, r
  <2>4. FormHolds("ddnsto", r, BatchRun(svc, plan.cmds)[Len(plan.cmds)])
    BY <2>2, <2>3, FormsAre
  <2>5. ServeService("ddnsto", r, plan)
    BY <2>1 DEF plan, r
  <2> QED BY <2>2, <2>4, <2>5, Served
<1>4. CASE GuideDdnstoAddress
  <2> DEFINE r == [address |-> "h"]
             plan == UpdateDdnstoAddress("h")
  <2>1. AllAlong(svc, plan.cmds) /\ AddressIs("h", BatchRun(svc, plan.cmds)[Len(plan.cmds)])
    BY <1>1, AddressPlan
  <2>2. r.address = "h"
    OBVIOUS
  <2> HIDE DEF plan, r
  <2>3. FormHolds("address", r, BatchRun(svc, plan.cmds)[Len(plan.cmds)])
    BY <2>1, <2>2, FormsAre
  <2>4. ServeService("address", r, plan)
    BY <1>4 DEF GuideDdnstoAddress, plan, r
  <2> QED BY <2>1, <2>3, <2>4, Served
<1> QED BY <1>2, <1>3, <1>4

LEMMA SourceKeeps ==
  ASSUME SvcInv, GuideSoftSourceSet
  PROVE  SvcInv'
<1>1. PICK identity \in Range(guideSoftSourceIdentities) \union {"?"}, cut \in BOOLEAN :
        LET found == resolveGuideSoftSourceByIdentity(identity)
        IN  /\ feeds' = IF found = {} THEN feeds ELSE IF cut THEN <<>> ELSE replaceGuideSoftSource(CHOOSE u \in found : TRUE)
            /\ svcAsked' = IF found = {} \/ cut THEN NoSvcRequest ELSE [kind |-> "source", r |-> identity]
            /\ UNCHANGED <<svc, rom>>
  BY DEF GuideSoftSourceSet
<1> DEFINE found == resolveGuideSoftSourceByIdentity(identity)
<1>2. svc' = svc /\ rom' = rom
  BY <1>1
<1>3. Packages(svc) /\ FeedsAre(feeds)
  BY DEF SvcInv
<1> HIDE DEF found
<1>4. CASE found = {} \/ cut
  <2>1. svcAsked' = NoSvcRequest
    BY <1>1, <1>4, Zenon DEF found
  <2>2. svcAsked'.kind = "none"
    BY <2>1, NoAnswer
  <2>3. FormHolds(svcAsked'.kind, svcAsked'.r, svc')
    BY <2>2, NoAnswer
  <2>4. feeds' = feeds \/ feeds' = <<>>
    BY <1>1, <1>4, Zenon DEF found
  <2>5. FeedsAre(feeds')
    BY <1>3, <2>4 DEF FeedsAre
  <2> QED BY <1>2, <1>3, <2>2, <2>3, <2>5 DEF SvcInv, SourceHolds
<1>5. CASE found # {} /\ ~cut
  <2>1. PICK n \in 1 .. 4 : identity = guideSoftSourceIdentities[n]
    BY <1>5, FoundBy DEF found
  <2> DEFINE w == guideSoftSourceURLs[n]
  <2>2. found = {w}
    BY <2>1, FoundBy DEF found
  <2>3. w \in Urls
    BY FourSources
  <2> HIDE DEF w
  <2>4. (CHOOSE u \in found : TRUE) = w
    BY <2>2
  <2>5. feeds' = replaceGuideSoftSource(w)
    BY <1>1, <1>5, <2>4, Zenon DEF found
  <2>6. FeedsAre(feeds') /\ (rom => feeds' = FeedsOf(w))
    BY <1>3, <2>3, <2>5, Replaced
  <2>7. svcAsked' = [kind |-> "source", r |-> identity]
    BY <1>1, <1>5, Zenon DEF found
  <2>8. svcAsked'.kind = "source" /\ svcAsked'.r = identity
    BY <2>7
  <2>9. FormHolds(svcAsked'.kind, svcAsked'.r, svc')
    BY <2>8 DEF FormHolds, Kinds
  <2>10. SourceHolds(svcAsked, feeds)'
    BY <1>2, <2>1, <2>6, <2>8 DEF SourceHolds, w
  <2> QED BY <1>2, <1>3, <2>6, <2>9, <2>10 DEF SvcInv, SourceHolds
<1> QED BY <1>4, <1>5

LEMMA SvcInvStep ==
  ASSUME SvcInv, [SvcNext]_svcVars
  PROVE  SvcInv'
<1>1. CASE UNCHANGED svcVars
  BY <1>1 DEF svcVars, SvcInv, SourceHolds
<1>2. CASE SvcNext
  BY <1>2, DownloadsKeep, NamesKeep, SourceKeeps DEF SvcNext
<1> QED BY <1>1, <1>2

LEMMA SvcInvInit ==
  ASSUME SvcInit
  PROVE  SvcInv
<1> DEFINE listed == [SvcDefault EXCEPT ![Tracker] = <<"t0">>]
<1>1. PICK f \in {SvcDefault, listed} : svc = [file |-> f, staged |-> f, live |-> f]
  BY Zenon DEF SvcInit, Tracker
<1>2. SideOK(SvcDefault) /\ SvcDefault[Tracker] = Unset
  <2>1. Tracker \in SvcOptions /\ Tracker[2] = "bt_tracker"
    BY DlOptions DEF Tracker, Dl
  <2>2. \A o \in SvcOptions : SvcDefault[o] = IF o[2] = "enabled" THEN <<"0">> ELSE Unset
    BY Zenon DEF SvcDefault
  <2>3. SvcDefault = [o \in SvcOptions |-> SvcDefault[o]]
    <3> HIDE DEF SvcOptions
    <3> QED BY DEF SvcDefault
  <2>4. \A o \in SvcOptions : Single(SvcDefault[o])
    <3> HIDE DEF SvcOptions
    <3> QED BY <2>2 DEF Single
  <2>5. SvcDefault[Tracker] = Unset
    BY <2>1, <2>2
  <2> HIDE DEF SvcOptions, SvcDefault
  <2> QED BY <2>3, <2>4, <2>5 DEF SideOK
<1>3. SideOK(listed) /\ listed[Tracker] = <<"t0">>
  <2>1. listed = Put(SvcDefault, Tracker, <<"t0">>)
    BY DEF Put
  <2>2. Tracker \in SvcOptions
    BY DlOptions DEF Tracker, Dl
  <2> HIDE DEF listed, Put
  <2> QED BY <1>2, <2>1, <2>2, PutIs
<1> HIDE DEF listed
<1>4. svc = Sides(f, f, f) /\ SideOK(f) /\ (f[Tracker] = Unset \/ \E x : f[Tracker] = <<x>>)
  BY <1>1, <1>2, <1>3 DEF Sides
<1>5. Packages(svc)
  BY <1>4 DEF Packages, Up
<1>6. FeedsAre(feeds)
  <2>1. feeds = RomFeeds
    BY DEF SvcInit
  <2> QED BY <2>1, RomIs DEF FeedsAre
<1>7. svcAsked.kind = "none"
  BY NoAnswer DEF SvcInit
<1>8. FormHolds(svcAsked.kind, svcAsked.r, svc)
  BY <1>7, NoAnswer
<1> QED BY <1>5, <1>6, <1>7, <1>8 DEF SvcInv, SourceHolds

LEMMA ShortLists ==
  /\ \A v : v = Unset => Len(v) <= 1
  /\ \A v : (\E x : v = <<x>>) => Len(v) <= 1
  /\ \A v : (v = Unset \/ (\E x : v = <<x>>) \/ \E x, y : v = <<x, y>>) => Len(v) <= 2
<1>1. \A v : v = Unset => Len(v) = 0
  BY DEF Unset
<1>2. ASSUME NEW v, NEW x, v = <<x>> PROVE Len(v) = 1
  BY <1>2
<1>3. ASSUME NEW v, NEW x, NEW y, v = <<x, y>> PROVE Len(v) = 2
  BY <1>3
<1> DEFINE one(v) == \E x : v = <<x>>
           two(v) == \E x, y : v = <<x, y>>
<1>4. \A v : one(v) => Len(v) = 1
  BY <1>2, Zenon
<1>5. \A v : two(v) => Len(v) = 2
  BY <1>3, Zenon
<1> HIDE DEF one, two
<1>6. ASSUME NEW v
      PROVE  /\ v = Unset => Len(v) <= 1
             /\ one(v) => Len(v) <= 1
             /\ (v = Unset \/ one(v) \/ two(v)) => Len(v) <= 2
  <2>1. ASSUME NEW n, n = 0 \/ n = 1 PROVE n <= 1 /\ n <= 2
    BY <2>1
  <2>2. ASSUME NEW n, n = 2 PROVE n <= 2
    BY <2>2
  <2>3. v = Unset \/ one(v) => Len(v) = 0 \/ Len(v) = 1
    BY <1>1, <1>4, Zenon
  <2>4. two(v) => Len(v) = 2
    BY <1>5
  <2> QED BY <2>1, <2>2, <2>3, <2>4, Zenon
<1> QED BY <1>6, Zenon DEF one, two

LEMMA SvcTypeFollows ==
  ASSUME SvcInv
  PROVE  SvcTypeOK
<1>1. PICK f, t, l : /\ svc = Sides(f, t, l) /\ SideOK(f) /\ SideOK(t) /\ SideOK(l)
                     /\ t[Tracker] = Unset \/ (\E x : t[Tracker] = <<x>>) \/ \E x, y : t[Tracker] = <<x, y>>
  BY DEF SvcInv, Packages, Up
<1>2. DOMAIN svc = {"file", "staged", "live"} /\ svc.file = f /\ svc.staged = t /\ svc.live = l
  BY <1>1, SidesAre
<1>3. ASSUME NEW v, SideOK(v)
      PROVE  DOMAIN v = SvcOptions /\ \A o \in SvcOptions : o # Tracker => Len(v[o]) <= 1
  <2> HIDE DEF SvcOptions, Tracker
  <2>1. \A w : Single(w) => Len(w) <= 1
    <3> TAKE w
    <3> HAVE Single(w)
    <3> QED BY ShortLists DEF Single
  <2>2. DOMAIN v = SvcOptions /\ \A o \in SvcOptions : o # Tracker => Single(v[o])
    BY <1>3 DEF SideOK
  <2> QED BY <2>1, <2>2
<1>4. \A side \in DOMAIN svc : DOMAIN svc[side] = SvcOptions /\ \A o \in SvcOptions : o # Tracker => Len(svc[side][o]) <= 1
  BY <1>1, <1>2, <1>3
<1>5. Len(svc.staged[Tracker]) <= 2
  <2> HIDE DEF Tracker
  <2> QED BY <1>1, <1>2, ShortLists
<1>6. Range(feeds) \subseteq [path : {"_core", "_base"}, url : Urls]
  <2>1. ASSUME NEW u \in Urls PROVE Range(FeedsOf(u)) \subseteq [path : {"_core", "_base"}, url : Urls]
    <3>1. \A p \in {"_core", "_base"} : Feed(p, u) \in [path : {"_core", "_base"}, url : Urls]
      BY DEF Feed
    <3>2. Range(FeedsOf(u)) = {Feed("_core", u), Feed("_base", u)}
      BY FeedsHave DEF Range
    <3> QED BY <3>1, <3>2
  <2>2. Range(<<>>) = {}
    BY DEF Range
  <2> QED BY <2>1, <2>2 DEF SvcInv, FeedsAre
<1> QED BY <1>2, <1>4, <1>5, <1>6 DEF SvcTypeOK, Urls, Tracker

LEMMA ShownAre ==
  ASSUME NEW s, NEW kind \in Kinds, NEW r, DownloadIs(kind, r, s)
  PROVE  /\ uciGet(s, Dl(kind, "config")) = r.config /\ uciGet(s, Dl(kind, "dir")) = r.dir
BY LastIs DEF uciGet, DownloadIs

LEMMA DownloadsFollow ==
  ASSUME SvcInv
  PROVE  DownloadsAsAsked
<1> SUFFICES ASSUME svcAsked.kind \in Kinds PROVE DownloadsAsAsked
  BY DEF DownloadsAsAsked
<1> DEFINE kind == svcAsked.kind
           r == svcAsked.r
           shown == BuildStatusResponse(svc, {kind})[kind]
           old == CASE kind = "aria2" -> getAria2Status(svc, TRUE) [] kind = "qbittorrent" -> getQbittorrentStatus(svc, TRUE)
                    [] OTHER -> getTransmissionStatus(svc, TRUE)
<1>1. DownloadIs(kind, r, svc)
  BY DEF SvcInv, FormHolds
<1>2. uciGet(svc, Dl(kind, "config")) = r.config /\ uciGet(svc, Dl(kind, "dir")) = r.dir
  BY <1>1, ShownAre
<1>3. shown = old /\ shown.config = uciGet(svc, Dl(kind, "config")) /\ shown.dir = uciGet(svc, Dl(kind, "dir"))
  <2>1. MapStatus(TRUE, TRUE) = "running" /\ (kind \in {kind}) = TRUE
    BY Zenon DEF MapStatus
  <2> HIDE DEF uciGet, Dl, MapStatus
  <2>2. CASE kind = "aria2"
    <3>1. shown = ReadAria2Status(svc, kind \in {kind}) /\ old = getAria2Status(svc, TRUE)
      BY <2>2 DEF BuildStatusResponse
    <3>2. ReadAria2Status(svc, TRUE) = getAria2Status(svc, TRUE)
      BY <2>1, Zenon DEF ReadAria2Status, getAria2Status
    <3>3. getAria2Status(svc, TRUE).config = uciGet(svc, Dl("aria2", "config")) /\ getAria2Status(svc, TRUE).dir = uciGet(svc, Dl("aria2", "dir"))
      BY DEF getAria2Status
    <3> HIDE DEF shown, old
    <3>4. shown = getAria2Status(svc, TRUE)
      BY <2>1, <3>1, <3>2, Zenon
    <3> QED BY <2>2, <3>1, <3>3, <3>4
  <2>3. CASE kind = "qbittorrent"
    <3>1. shown = ReadQbittorrentStatus(svc, kind \in {kind}) /\ old = getQbittorrentStatus(svc, TRUE)
      BY <2>3 DEF BuildStatusResponse
    <3>2. ReadQbittorrentStatus(svc, TRUE) = getQbittorrentStatus(svc, TRUE)
      BY <2>1, Zenon DEF ReadQbittorrentStatus, getQbittorrentStatus
    <3>3. getQbittorrentStatus(svc, TRUE).config = uciGet(svc, Dl("qbittorrent", "config")) /\ getQbittorrentStatus(svc, TRUE).dir = uciGet(svc, Dl("qbittorrent", "dir"))
      BY DEF getQbittorrentStatus
    <3> HIDE DEF shown, old
    <3>4. shown = getQbittorrentStatus(svc, TRUE)
      BY <2>1, <3>1, <3>2, Zenon
    <3> QED BY <2>3, <3>1, <3>3, <3>4
  <2>4. CASE kind = "transmission"
    <3>1. shown = ReadTransmissionStatus(svc, kind \in {kind}) /\ old = getTransmissionStatus(svc, TRUE)
      BY <2>4 DEF BuildStatusResponse
    <3>2. ReadTransmissionStatus(svc, TRUE) = getTransmissionStatus(svc, TRUE)
      BY <2>1, Zenon DEF ReadTransmissionStatus, getTransmissionStatus
    <3>3. getTransmissionStatus(svc, TRUE).config = uciGet(svc, Dl("transmission", "config")) /\ getTransmissionStatus(svc, TRUE).dir = uciGet(svc, Dl("transmission", "dir"))
      BY DEF getTransmissionStatus
    <3> HIDE DEF shown, old
    <3>4. shown = getTransmissionStatus(svc, TRUE)
      BY <2>1, <3>1, <3>2, Zenon
    <3> QED BY <2>4, <3>1, <3>3, <3>4
  <2> QED BY <2>2, <2>3, <2>4 DEF Kinds
<1>4. svc.live[Dl(kind, "enabled")] = <<"1">> /\ svc.live[Dl(kind, "dir")] = <<r.dir>>
  BY <1>1 DEF DownloadIs
<1> HIDE DEF shown, old
<1>5. shown = old /\ shown.config = r.config /\ shown.dir = r.dir
  BY <1>2, <1>3
<1> QED BY <1>4, <1>5 DEF DownloadsAsAsked, shown, old

LEMMA NamesFollow ==
  ASSUME SvcInv
  PROVE  TrackersAsAsked /\ DdnsAsAsked /\ DdnstoAsAsked
<1>1. TrackersAsAsked
  BY DEF SvcInv, FormHolds, TrackersAre, TrackersAsAsked, Tracker
<1>2. DdnsAsAsked
  BY DEF SvcInv, FormHolds, DdnsIs, DdnsAsAsked
<1>3. DdnstoAsAsked
  <2>1. ASSUME svcAsked.kind = "ddnsto" PROVE ReadDdnstoConfig(svc).enabled /\ ReadDdnstoConfig(svc).token = svcAsked.r.token
    <3>1. uciGet(svc, Ddnsto("enabled")) = "1" /\ uciGet(svc, Ddnsto("token")) = svcAsked.r.token
      BY <2>1, LastIs DEF SvcInv, FormHolds, DdnstoIs, uciGet
    <3> QED BY <3>1 DEF ReadDdnstoConfig
  <2>2. ASSUME svcAsked.kind = "address" PROVE ReadDdnstoConfig(svc).address = svcAsked.r.address
    <3>1. uciGet(svc, Ddnsto("address")) = svcAsked.r.address
      BY <2>2, LastIs DEF SvcInv, FormHolds, AddressIs, uciGet
    <3> QED BY <3>1 DEF ReadDdnstoConfig
  <2> QED BY <2>1, <2>2 DEF DdnstoAsAsked
<1> QED BY <1>1, <1>2, <1>3

LEMMA SourceFollows ==
  ASSUME SvcInv
  PROVE  SourceAsSet
<1> SUFFICES ASSUME svcAsked.kind = "source", rom PROVE SourceAsSet
  BY DEF SourceAsSet
<1>1. PICK n \in 1 .. 4 : svcAsked.r = guideSoftSourceIdentities[n] /\ feeds = FeedsOf(guideSoftSourceURLs[n])
  BY DEF SvcInv, SourceHolds
<1>2. ReadCurrentSource(feeds) = svcAsked.r
  BY <1>1, ReadBack
<1>3. \A u : [m \in DOMAIN FeedsOf(u) |-> FeedsOf(u)[m].path] = [m \in 1 .. 2 |-> IF m = 1 THEN "_core" ELSE "_base"]
  <2> TAKE u
  <2>1. \A m \in 1 .. 2 : m = 1 \/ m = 2
    OBVIOUS
  <2>2. \A m \in 1 .. 2 : FeedsOf(u)[m].path = IF m = 1 THEN "_core" ELSE "_base"
    BY <2>1, FeedsHave, FeedIs
  <2>3. DOMAIN FeedsOf(u) = 1 .. 2
    BY FeedsHave
  <2> QED BY <2>2, <2>3
<1>4. PICK u : RomFeeds = FeedsOf(u)
  BY RomIs
<1>5. [m \in DOMAIN feeds |-> feeds[m].path] = [m \in DOMAIN RomFeeds |-> RomFeeds[m].path]
  BY <1>1, <1>3, <1>4
<1> QED BY <1>2, <1>5 DEF SourceAsSet

THEOREM GuideServicesCorrect == GuideServicesSpec => []SvcCorrect
<1>1. SvcInit => SvcInv
  BY SvcInvInit
<1>2. SvcInv /\ [SvcNext]_svcVars => SvcInv'
  BY SvcInvStep
<1>3. SvcInv => SvcCorrect
  BY SvcTypeFollows, DownloadsFollow, NamesFollow, SourceFollows DEF SvcCorrect
<1> QED BY <1>1, <1>2, <1>3, PTL DEF GuideServicesSpec
-----------------------------------------------------------------------------
(* Wireless: one command                                                   *)

WDev == [Bands -> DevRec]
WIfc == [Ifaces -> IfRec]
Cfg(d, i, g) == [dev |-> d, ifc |-> i, guest |-> g]
\* An option of a radio, of an interface that a command may set.
DevValue(o, v) ==
  \/ o = "off" /\ v \in BOOLEAN
  \/ o = "channel" /\ v \in {"auto", "6"}
  \/ o = "ht" /\ v \in {"20", "40", "80", "160"}
  \/ o = "require" /\ v \in {EmptyText, "ax", "ac"}
  \/ o = "power" /\ v \in 0 .. 100
IfValue(o, v) ==
  \/ o \in {"off", "sae", "hidden"} /\ v \in BOOLEAN
  \/ o = "key" /\ v \in WifiKeys
  \/ o = "enc" /\ v \in EncValues
  \/ o = "network" /\ v \in {"lan", "guest"}
DevFields == {"off", "channel", "ht", "require", "power", "noscan"}
IfFields == {"there", "off", "key", "enc", "sae", "hidden", "network"}

LEMMA DevFieldSet ==
  ASSUME NEW r \in DevRec, NEW o, NEW v, DevValue(o, v)
  PROVE  [r EXCEPT ![o] = v] \in DevRec
<1>1. CASE o = "off" /\ v \in BOOLEAN
  BY <1>1 DEF DevRec
<1>2. CASE o = "channel" /\ v \in {"auto", "6"}
  BY <1>2 DEF DevRec
<1>3. CASE o = "ht" /\ v \in {"20", "40", "80", "160"}
  BY <1>3 DEF DevRec
<1>4. CASE o = "require" /\ v \in {EmptyText, "ax", "ac"}
  BY <1>4 DEF DevRec
<1>5. CASE o = "power" /\ v \in 0 .. 100
  BY <1>5 DEF DevRec
<1> QED BY <1>1, <1>2, <1>3, <1>4, <1>5 DEF DevValue

LEMMA IfFieldSet ==
  ASSUME NEW r \in IfRec, NEW o, NEW v, IfValue(o, v)
  PROVE  [r EXCEPT ![o] = v] \in IfRec
<1>1. CASE o = "off" /\ v \in BOOLEAN
  BY <1>1 DEF IfRec
<1>2. CASE o = "sae" /\ v \in BOOLEAN
  BY <1>2 DEF IfRec
<1>3. CASE o = "hidden" /\ v \in BOOLEAN
  BY <1>3 DEF IfRec
<1>4. CASE o = "key" /\ v \in WifiKeys
  BY <1>4 DEF IfRec
<1>5. CASE o = "enc" /\ v \in EncValues
  BY <1>5 DEF IfRec
<1>6. CASE o = "network" /\ v \in {"lan", "guest"}
  BY <1>6 DEF IfRec
<1> QED BY <1>1, <1>2, <1>3, <1>4, <1>5, <1>6 DEF IfValue

LEMMA FieldsAre ==
  /\ \A r \in DevRec : DOMAIN r = DevFields
  /\ \A r \in IfRec : DOMAIN r = IfFields
  /\ \A o, v : DevValue(o, v) => o \in DevFields
  /\ \A o, v : IfValue(o, v) => o \in IfFields /\ o # "there"
<1>1. \A r \in DevRec : DOMAIN r = DevFields
  BY DEF DevRec, DevFields
<1>2. \A r \in IfRec : DOMAIN r = IfFields
  BY DEF IfRec, IfFields
<1>3. \A o, v : DevValue(o, v) => o \in DevFields
  BY DEF DevValue, DevFields
<1>4. \A o, v : IfValue(o, v) => o \in IfFields /\ o # "there"
  BY DEF IfValue, IfFields
<1> QED BY <1>1, <1>2, <1>3, <1>4

PutDev(d, b, o, v) == [d EXCEPT ![b][o] = v]
PutIf(i, n, o, v) == [i EXCEPT ![n][o] = v]

LEMMA PutDevIs ==
  ASSUME NEW d \in WDev, NEW b \in Bands, NEW o, NEW v, DevValue(o, v)
  PROVE  /\ PutDev(d, b, o, v) \in WDev
         /\ PutDev(d, b, o, v)[b][o] = v
         /\ \A x \in Bands, p \in DevFields : x # b \/ p # o => PutDev(d, b, o, v)[x][p] = d[x][p]
<1> DEFINE r == [d[b] EXCEPT ![o] = v]
<1>1. PutDev(d, b, o, v) = [d EXCEPT ![b] = r]
  BY DEF PutDev
<1>2. r \in DevRec /\ d[b] \in DevRec
  BY DevFieldSet DEF WDev
<1>3. r[o] = v /\ \A p \in DevFields : p # o => r[p] = d[b][p]
  <2>1. DOMAIN d[b] = DevFields /\ o \in DevFields
    BY <1>2, FieldsAre
  <2> QED BY <2>1
<1> HIDE DEF r
<1> QED BY <1>1, <1>2, <1>3 DEF WDev

LEMMA PutIfIs ==
  ASSUME NEW i \in WIfc, NEW n \in Ifaces, NEW o, NEW v, IfValue(o, v)
  PROVE  /\ PutIf(i, n, o, v) \in WIfc
         /\ PutIf(i, n, o, v)[n][o] = v
         /\ \A x \in Ifaces, p \in IfFields : x # n \/ p # o => PutIf(i, n, o, v)[x][p] = i[x][p]
<1> DEFINE r == [i[n] EXCEPT ![o] = v]
<1>1. PutIf(i, n, o, v) = [i EXCEPT ![n] = r]
  BY DEF PutIf
<1>2. r \in IfRec /\ i[n] \in IfRec
  BY IfFieldSet DEF WIfc
<1>3. r[o] = v /\ \A p \in IfFields : p # o => r[p] = i[n][p]
  <2>1. DOMAIN i[n] = IfFields /\ o \in IfFields
    BY <1>2, FieldsAre
  <2> QED BY <2>1
<1> HIDE DEF r
<1> QED BY <1>1, <1>2, <1>3 DEF WIfc

LEMMA CfgIs ==
  /\ \A d, i, g : Cfg(d, i, g).dev = d /\ Cfg(d, i, g).ifc = i /\ Cfg(d, i, g).guest = g
  /\ \A c \in Config : c = Cfg(c.dev, c.ifc, c.guest) /\ c.dev \in WDev /\ c.ifc \in WIfc /\ c.guest \subseteq GuestParts
  /\ \A d \in WDev, i \in WIfc, g \in SUBSET GuestParts : Cfg(d, i, g) \in Config
<1> HIDE DEF DevRec, IfRec, Bands, Ifaces, GuestParts
<1>1. \A d, i, g : Cfg(d, i, g).dev = d /\ Cfg(d, i, g).ifc = i /\ Cfg(d, i, g).guest = g
  BY DEF Cfg
<1>2. \A c \in Config : c = Cfg(c.dev, c.ifc, c.guest) /\ c.dev \in WDev /\ c.ifc \in WIfc /\ c.guest \subseteq GuestParts
  BY DEF Cfg, Config, WDev, WIfc
<1>3. \A d \in WDev, i \in WIfc, g \in SUBSET GuestParts : Cfg(d, i, g) \in Config
  BY DEF Cfg, Config, WDev, WIfc
<1> QED BY <1>1, <1>2, <1>3

\* What each command does to the sides.
LEMMA WifiCommandIs ==
  ASSUME NEW f, NEW d, NEW i, NEW g, NEW l
  PROVE  /\ \A b, o, v : RunCommand(Sides(f, Cfg(d, i, g), l), SetDev(b, o, v)) = Sides(f, Cfg(PutDev(d, b, o, v), i, g), l)
         /\ \A n, o, v : RunCommand(Sides(f, Cfg(d, i, g), l), SetIf(n, o, v)) = Sides(f, Cfg(d, PutIf(i, n, o, v), g), l)
         /\ \A p : RunCommand(Sides(f, Cfg(d, i, g), l), SetGuest(p)) = Sides(f, Cfg(d, i, g \union {p}), l)
         /\ RunCommand(Sides(f, Cfg(d, i, g), l), ReloadCommand) = Sides(f, Cfg(d, i, g), f)
<1>1. \A b, o, v : RunCommand(Sides(f, Cfg(d, i, g), l), SetDev(b, o, v)) = Sides(f, Cfg(PutDev(d, b, o, v), i, g), l)
  BY DEF RunCommand, SetDev, Sides, Cfg, PutDev
<1>2. \A n, o, v : RunCommand(Sides(f, Cfg(d, i, g), l), SetIf(n, o, v)) = Sides(f, Cfg(d, PutIf(i, n, o, v), g), l)
  BY DEF RunCommand, SetIf, Sides, Cfg, PutIf
<1>3. \A p : RunCommand(Sides(f, Cfg(d, i, g), l), SetGuest(p)) = Sides(f, Cfg(d, i, g \union {p}), l)
  BY DEF RunCommand, SetGuest, Sides, Cfg
<1>4. RunCommand(Sides(f, Cfg(d, i, g), l), ReloadCommand) = Sides(f, Cfg(d, i, g), f)
  BY DEF RunCommand, ReloadCommand, Sides, Cfg
<1> QED BY <1>1, <1>2, <1>3, <1>4

LEMMA WifiCommitIs ==
  ASSUME NEW fd, NEW fi, NEW fg, NEW d, NEW i, NEW g, NEW l
  PROVE  /\ RunCommand(Sides(Cfg(fd, fi, fg), Cfg(d, i, g), l), WifiCommit("wireless")) = Sides(Cfg(d, i, fg), Cfg(d, i, g), l)
         /\ \A p : p # "wireless" => RunCommand(Sides(Cfg(fd, fi, fg), Cfg(d, i, g), l), WifiCommit(p))
                                     = Sides(Cfg(fd, fi, (fg \ {p}) \union (g \intersect {p})), Cfg(d, i, g), l)
<1>1. RunCommand(Sides(Cfg(fd, fi, fg), Cfg(d, i, g), l), WifiCommit("wireless")) = Sides(Cfg(d, i, fg), Cfg(d, i, g), l)
  BY DEF RunCommand, WifiCommit, Sides, Cfg
<1>2. \A p : p # "wireless" => RunCommand(Sides(Cfg(fd, fi, fg), Cfg(d, i, g), l), WifiCommit(p))
                               = Sides(Cfg(fd, fi, (fg \ {p}) \union (g \intersect {p})), Cfg(d, i, g), l)
  BY DEF RunCommand, WifiCommit, Sides, Cfg
<1> QED BY <1>1, <1>2
-----------------------------------------------------------------------------
(* Wireless: the packages after each command                               *)

IsWifiRun(s, cmds, n, f) == f = [k \in 0 .. n |-> IF k = 0 THEN s ELSE RunCommand(f[k - 1], cmds[k])]

LEMMA WifiRunExists ==
  ASSUME NEW s, NEW cmds
  PROVE  \A n \in Nat : \E f : IsWifiRun(s, cmds, n, f)
<1> DEFINE Good == {n \in Nat : \E f : IsWifiRun(s, cmds, n, f)}
<1>1. 0 \in Good
  <2> DEFINE f == [k \in 0 .. 0 |-> s]
  <2>1. f = [k \in 0 .. 0 |-> IF k = 0 THEN s ELSE RunCommand(f[k - 1], cmds[k])]
    OBVIOUS
  <2>2. IsWifiRun(s, cmds, 0, f)
    BY <2>1 DEF IsWifiRun
  <2> QED BY <2>2
<1>2. ASSUME NEW n \in Nat, n \in Good PROVE n + 1 \in Good
  <2>1. PICK f : IsWifiRun(s, cmds, n, f)
    BY <1>2
  <2> DEFINE g == [k \in 0 .. n + 1 |-> IF k = 0 THEN s ELSE RunCommand(f[k - 1], cmds[k])]
  <2>2. \A k \in 0 .. n : g[k] = f[k]
    <3> TAKE k \in 0 .. n
    <3>1. k \in 0 .. n + 1
      OBVIOUS
    <3>2. f[k] = IF k = 0 THEN s ELSE RunCommand(f[k - 1], cmds[k])
      BY <2>1 DEF IsWifiRun
    <3> QED BY <3>1, <3>2
  <2>3. \A k \in 0 .. n + 1 : k # 0 => g[k - 1] = f[k - 1]
    <3> TAKE k \in 0 .. n + 1
    <3> HAVE k # 0
    <3>1. k - 1 \in 0 .. n
      OBVIOUS
    <3> HIDE DEF g
    <3> QED BY <3>1, <2>2
  <2>4. \A k \in 0 .. n + 1 : g[k] = IF k = 0 THEN s ELSE RunCommand(g[k - 1], cmds[k])
    <3> TAKE k \in 0 .. n + 1
    <3>1. g[k] = IF k = 0 THEN s ELSE RunCommand(f[k - 1], cmds[k])
      OBVIOUS
    <3> HIDE DEF g
    <3> QED BY <3>1, <2>3
  <2>5. g = [k \in 0 .. n + 1 |-> g[k]]
    OBVIOUS
  <2> HIDE DEF g
  <2>6. IsWifiRun(s, cmds, n + 1, g)
    BY <2>4, <2>5 DEF IsWifiRun
  <2> QED BY <2>6
<1>3. Nat \subseteq Good
  <2> HIDE DEF Good
  <2> QED BY <1>1, <1>2, NatInSet
<1> QED BY <1>3

\* The commands of a shell run one after the other.
LEMMA WifiRunIs ==
  ASSUME NEW s, NEW cmds, Len(cmds) \in Nat
  PROVE  /\ WifiRun(s, cmds)[0] = s
         /\ \A k \in 1 .. Len(cmds) : WifiRun(s, cmds)[k] = RunCommand(WifiRun(s, cmds)[k - 1], cmds[k])
<1> DEFINE f == WifiRun(s, cmds)
<1>1. f = CHOOSE g : IsWifiRun(s, cmds, Len(cmds), g)
  BY DEF WifiRun, IsWifiRun
<1>2. IsWifiRun(s, cmds, Len(cmds), f)
  BY <1>1, WifiRunExists
<1> HIDE DEF f
<1>3. f = [k \in 0 .. Len(cmds) |-> IF k = 0 THEN s ELSE RunCommand(f[k - 1], cmds[k])]
  BY <1>2 DEF IsWifiRun
<1>4. f[0] = s
  BY <1>3
<1>5. \A k \in 1 .. Len(cmds) : f[k] = RunCommand(f[k - 1], cmds[k])
  BY <1>3
<1> QED BY <1>4, <1>5 DEF f

\* What holds at a place and goes on from each place to the next holds up to the last.
LEMMA GoesOn ==
  ASSUME NEW i \in Nat, NEW n \in Nat, NEW G, i \in G, \A k \in i .. n - 1 : k \in G => k + 1 \in G
  PROVE  \A k \in i .. n : k \in G
<1> DEFINE S == {k \in Nat : i <= k /\ k <= n => k \in G}
<1>1. 0 \in S
  OBVIOUS
<1>2. ASSUME NEW k \in Nat, k \in S PROVE k + 1 \in S
  BY <1>2
<1>3. Nat \subseteq S
  <2> HIDE DEF S
  <2> QED BY <1>1, <1>2, NatInSet
<1> QED BY <1>3

-----------------------------------------------------------------------------
(* Wireless: the invariant                                                 *)

\* Guests that are let in are behind the whole guest network.
Guarded(c, g) == \A b \in Bands : c.ifc[Guest[b]].there /\ ~c.ifc[Guest[b]].off => GuestParts \subseteq g
\* What the sides have in common: no request takes a section away or puts one
\* there, switches a radio off, or takes away a part of the guest network.
Together(f, t) ==
  /\ f.guest \subseteq t.guest
  /\ \A b \in Bands : t.dev[b].off => f.dev[b].off
  /\ \A i \in Ifaces : t.ifc[i].there = f.ifc[i].there
WifiUp(s) ==
  \E f, t, l : /\ s = Sides(f, t, l) /\ f \in Config /\ t \in Config /\ l \in Config
               /\ Guarded(f, f.guest) /\ Guarded(t, f.guest) /\ Guarded(l, f.guest) /\ Together(f, t)

\* The commands, but the one that lets guests in.
DevCommand(c) == \E b \in Bands : \E o, v : DevValue(o, v) /\ (o = "off" => ~v) /\ c = SetDev(b, o, v)
IfCommand(c) == \E n \in Ifaces : \E o, v : IfValue(o, v) /\ (IsGuest(n) /\ o = "off" => v) /\ c = SetIf(n, o, v)
TailCommand(c) ==
  \/ \E p \in GuestParts : c = SetGuest(p) \/ c = WifiCommit(p)
  \/ c = WifiCommit("wireless") \/ c = ReloadCommand
Harmless(c) == DevCommand(c) \/ IfCommand(c) \/ TailCommand(c)

LEMMA GuestsAre ==
  /\ \A b \in Bands : Guest[b] \in Ifaces /\ IsGuest(Guest[b]) /\ Main[b] \in Ifaces /\ ~IsGuest(Main[b])
  /\ \A i \in Ifaces : IsGuest(i) => \E b \in Bands : i = Guest[b]
  /\ \A i \in Ifaces : BandOf(i) \in Bands
  /\ \A p \in GuestParts : p # "wireless"
<1>1. \A b \in Bands : Guest[b] \in Ifaces /\ IsGuest(Guest[b]) /\ Main[b] \in Ifaces /\ ~IsGuest(Main[b])
  BY DEF Bands, Guest, Ifaces, IsGuest, Main
<1>2. \A i \in Ifaces : IsGuest(i) => \E b \in Bands : i = Guest[b]
  BY DEF Bands, Guest, Ifaces, IsGuest
<1>3. \A i \in Ifaces : BandOf(i) \in Bands
  BY DEF Bands, BandOf
<1>4. \A p \in GuestParts : p # "wireless"
  BY DEF GuestParts
<1> QED BY <1>1, <1>2, <1>3, <1>4

LEMMA DevCommandKeeps ==
  ASSUME NEW s, WifiUp(s), NEW b \in Bands, NEW o, NEW v, DevValue(o, v), o = "off" => ~v
  PROVE  /\ WifiUp(RunCommand(s, SetDev(b, o, v)))
         /\ RunCommand(s, SetDev(b, o, v)).file = s.file
         /\ RunCommand(s, SetDev(b, o, v)).staged.ifc = s.staged.ifc
         /\ RunCommand(s, SetDev(b, o, v)).staged.dev = PutDev(s.staged.dev, b, o, v)
<1>1. PICK f, t, l : /\ s = Sides(f, t, l) /\ f \in Config /\ t \in Config /\ l \in Config
                     /\ Guarded(f, f.guest) /\ Guarded(t, f.guest) /\ Guarded(l, f.guest) /\ Together(f, t)
  BY DEF WifiUp
<1> DEFINE d == PutDev(t.dev, b, o, v)
           u == Cfg(d, t.ifc, t.guest)
<1>2. t = Cfg(t.dev, t.ifc, t.guest) /\ t.dev \in WDev /\ t.ifc \in WIfc /\ t.guest \in SUBSET GuestParts
  BY <1>1, CfgIs
<1>3. RunCommand(s, SetDev(b, o, v)) = Sides(f, u, l)
  BY <1>1, <1>2, WifiCommandIs
<1>4. /\ d \in WDev /\ d[b][o] = v
      /\ \A x \in Bands, p \in DevFields : x # b \/ p # o => d[x][p] = t.dev[x][p]
  BY <1>2, PutDevIs
<1> HIDE DEF d
<1>5. u \in Config /\ u.dev = d /\ u.ifc = t.ifc /\ u.guest = t.guest
  BY <1>2, <1>4, CfgIs
<1> HIDE DEF u
<1>6. Guarded(u, f.guest)
  BY <1>1, <1>5 DEF Guarded
<1>7. \A x \in Bands : u.dev[x].off => t.dev[x].off
  <2>1. "off" \in DevFields
    BY DEF DevFields
  <2> QED BY <1>4, <1>5, <2>1
<1>8. Together(f, u)
  BY <1>1, <1>5, <1>7 DEF Together
<1>9. WifiUp(Sides(f, u, l))
  BY <1>1, <1>5, <1>6, <1>8 DEF WifiUp
<1> QED BY <1>1, <1>3, <1>5, <1>9, SidesAre DEF d

LEMMA IfCommandKeeps ==
  ASSUME NEW s, WifiUp(s), NEW n \in Ifaces, NEW o, NEW v, IfValue(o, v),
         IsGuest(n) /\ o = "off" => v \/ GuestParts \subseteq s.file.guest
  PROVE  /\ WifiUp(RunCommand(s, SetIf(n, o, v)))
         /\ RunCommand(s, SetIf(n, o, v)).file = s.file
         /\ RunCommand(s, SetIf(n, o, v)).staged.dev = s.staged.dev
         /\ RunCommand(s, SetIf(n, o, v)).staged.ifc = PutIf(s.staged.ifc, n, o, v)
<1>1. PICK f, t, l : /\ s = Sides(f, t, l) /\ f \in Config /\ t \in Config /\ l \in Config
                     /\ Guarded(f, f.guest) /\ Guarded(t, f.guest) /\ Guarded(l, f.guest) /\ Together(f, t)
  BY DEF WifiUp
<1> DEFINE d == PutIf(t.ifc, n, o, v)
           u == Cfg(t.dev, d, t.guest)
<1>2. t = Cfg(t.dev, t.ifc, t.guest) /\ t.dev \in WDev /\ t.ifc \in WIfc /\ t.guest \in SUBSET GuestParts
  BY <1>1, CfgIs
<1>3. RunCommand(s, SetIf(n, o, v)) = Sides(f, u, l)
  BY <1>1, <1>2, WifiCommandIs
<1>4. /\ d \in WIfc /\ d[n][o] = v
      /\ \A x \in Ifaces, p \in IfFields : x # n \/ p # o => d[x][p] = t.ifc[x][p]
  BY <1>2, PutIfIs
<1> HIDE DEF d
<1>5. u \in Config /\ u.dev = t.dev /\ u.ifc = d /\ u.guest = t.guest
  BY <1>2, <1>4, CfgIs
<1> HIDE DEF u
<1>a. o # "there" /\ {"there", "off"} \subseteq IfFields
  BY FieldsAre DEF IfFields
<1>b. \A x \in Ifaces : u.ifc[x].there = t.ifc[x].there
  BY <1>4, <1>5, <1>a
<1>c. s.file = f
  BY <1>1, SidesAre
<1>6. Guarded(u, f.guest)
  <2>1. SUFFICES ASSUME NEW b \in Bands, u.ifc[Guest[b]].there, ~u.ifc[Guest[b]].off PROVE GuestParts \subseteq f.guest
    BY DEF Guarded
  <2>2. Guest[b] \in Ifaces /\ IsGuest(Guest[b])
    BY GuestsAre
  <2>3. t.ifc[Guest[b]].there
    BY <1>b, <2>1, <2>2
  <2>4. CASE Guest[b] = n /\ o = "off"
    <3>1. u.ifc[Guest[b]].off = v
      BY <1>4, <1>5, <2>4
    <3> QED BY <1>c, <2>1, <2>2, <2>4, <3>1
  <2>5. CASE ~(Guest[b] = n /\ o = "off")
    <3>1. u.ifc[Guest[b]].off = t.ifc[Guest[b]].off
      BY <1>4, <1>5, <1>a, <2>2, <2>5
    <3> QED BY <1>1, <2>1, <2>3, <3>1 DEF Guarded
  <2> QED BY <2>4, <2>5
<1>8. Together(f, u)
  BY <1>1, <1>5, <1>b DEF Together
<1>9. WifiUp(Sides(f, u, l))
  BY <1>1, <1>5, <1>6, <1>8 DEF WifiUp
<1> QED BY <1>1, <1>3, <1>5, <1>9, SidesAre DEF d

\* What a command leaves of the file's parts of the guest network, and of what is staged of the rest.
Grows(s, u) == s.file.guest \subseteq u.file.guest
SameStaged(s, u) == u.staged.dev = s.staged.dev /\ u.staged.ifc = s.staged.ifc

LEMMA GuestPartKeeps ==
  ASSUME NEW s, WifiUp(s), NEW p \in GuestParts
  PROVE  /\ WifiUp(RunCommand(s, SetGuest(p))) /\ Grows(s, RunCommand(s, SetGuest(p))) /\ SameStaged(s, RunCommand(s, SetGuest(p)))
         /\ p \in RunCommand(s, SetGuest(p)).staged.guest
<1>1. PICK f, t, l : /\ s = Sides(f, t, l) /\ f \in Config /\ t \in Config /\ l \in Config
                     /\ Guarded(f, f.guest) /\ Guarded(t, f.guest) /\ Guarded(l, f.guest) /\ Together(f, t)
  BY DEF WifiUp
<1> DEFINE u == Cfg(t.dev, t.ifc, t.guest \union {p})
<1>2. t = Cfg(t.dev, t.ifc, t.guest) /\ t.dev \in WDev /\ t.ifc \in WIfc /\ t.guest \subseteq GuestParts
  BY <1>1, CfgIs
<1>3. RunCommand(s, SetGuest(p)) = Sides(f, u, l)
  BY <1>1, <1>2, WifiCommandIs
<1>4. t.guest \union {p} \in SUBSET GuestParts
  BY <1>2
<1>5. u \in Config /\ u.dev = t.dev /\ u.ifc = t.ifc /\ u.guest = t.guest \union {p}
  BY <1>2, <1>4, CfgIs
<1> HIDE DEF u
<1>6. Guarded(u, f.guest)
  BY <1>1, <1>5 DEF Guarded
<1>7. Together(f, u)
  BY <1>1, <1>5 DEF Together
<1>8. WifiUp(Sides(f, u, l))
  BY <1>1, <1>5, <1>6, <1>7 DEF WifiUp
<1>9. Sides(f, u, l).file = f /\ Sides(f, u, l).staged = u /\ s.file = f /\ s.staged = t
  BY <1>1, SidesAre
<1> QED BY <1>3, <1>5, <1>8, <1>9 DEF Grows, SameStaged

LEMMA GuestCommitKeeps ==
  ASSUME NEW s, WifiUp(s), NEW p \in GuestParts
  PROVE  /\ WifiUp(RunCommand(s, WifiCommit(p))) /\ Grows(s, RunCommand(s, WifiCommit(p))) /\ SameStaged(s, RunCommand(s, WifiCommit(p)))
         /\ p \in s.staged.guest => p \in RunCommand(s, WifiCommit(p)).file.guest
<1>1. PICK f, t, l : /\ s = Sides(f, t, l) /\ f \in Config /\ t \in Config /\ l \in Config
                     /\ Guarded(f, f.guest) /\ Guarded(t, f.guest) /\ Guarded(l, f.guest) /\ Together(f, t)
  BY DEF WifiUp
<1> DEFINE g == (f.guest \ {p}) \union (t.guest \intersect {p})
           u == Cfg(f.dev, f.ifc, g)
<1>2. f = Cfg(f.dev, f.ifc, f.guest) /\ f.dev \in WDev /\ f.ifc \in WIfc /\ f.guest \subseteq GuestParts
  BY <1>1, CfgIs
<1>a. t = Cfg(t.dev, t.ifc, t.guest) /\ t.guest \subseteq GuestParts /\ p # "wireless"
  BY <1>1, CfgIs, GuestsAre
<1>3. RunCommand(s, WifiCommit(p)) = Sides(u, t, l)
  BY <1>1, <1>2, <1>a, WifiCommitIs
<1>4. g \in SUBSET GuestParts /\ f.guest \subseteq g /\ g \subseteq t.guest /\ (p \in t.guest => p \in g)
  BY <1>1, <1>2, <1>a DEF Together
<1> HIDE DEF g
<1>5. u \in Config /\ u.dev = f.dev /\ u.ifc = f.ifc /\ u.guest = g
  BY <1>2, <1>4, CfgIs
<1> HIDE DEF u
<1>6. Guarded(u, u.guest) /\ Guarded(t, u.guest) /\ Guarded(l, u.guest)
  BY <1>1, <1>4, <1>5 DEF Guarded
<1>7. Together(u, t)
  BY <1>1, <1>4, <1>5 DEF Together
<1>8. WifiUp(Sides(u, t, l))
  BY <1>1, <1>5, <1>6, <1>7 DEF WifiUp
<1>9. Sides(u, t, l).file = u /\ Sides(u, t, l).staged = t /\ s.file = f /\ s.staged = t
  BY <1>1, SidesAre
<1> QED BY <1>3, <1>4, <1>5, <1>8, <1>9 DEF Grows, SameStaged

\* The file has what is staged.
Saved(s) == s.file.dev = s.staged.dev /\ s.file.ifc = s.staged.ifc

LEMMA WifiCommitKeeps ==
  ASSUME NEW s, WifiUp(s)
  PROVE  /\ WifiUp(RunCommand(s, WifiCommit("wireless"))) /\ Grows(s, RunCommand(s, WifiCommit("wireless")))
         /\ SameStaged(s, RunCommand(s, WifiCommit("wireless")))
         /\ Saved(RunCommand(s, WifiCommit("wireless")))
<1>1. PICK f, t, l : /\ s = Sides(f, t, l) /\ f \in Config /\ t \in Config /\ l \in Config
                     /\ Guarded(f, f.guest) /\ Guarded(t, f.guest) /\ Guarded(l, f.guest) /\ Together(f, t)
  BY DEF WifiUp
<1> DEFINE u == Cfg(t.dev, t.ifc, f.guest)
<1>2. f = Cfg(f.dev, f.ifc, f.guest) /\ f.guest \in SUBSET GuestParts
  BY <1>1, CfgIs
<1>a. t = Cfg(t.dev, t.ifc, t.guest) /\ t.dev \in WDev /\ t.ifc \in WIfc
  BY <1>1, CfgIs
<1>3. RunCommand(s, WifiCommit("wireless")) = Sides(u, t, l)
  BY <1>1, <1>2, <1>a, WifiCommitIs
<1>5. u \in Config /\ u.dev = t.dev /\ u.ifc = t.ifc /\ u.guest = f.guest
  BY <1>2, <1>a, CfgIs
<1> HIDE DEF u
<1>6. Guarded(u, u.guest) /\ Guarded(t, u.guest) /\ Guarded(l, u.guest)
  BY <1>1, <1>5 DEF Guarded
<1>7. Together(u, t)
  BY <1>1, <1>5 DEF Together
<1>8. WifiUp(Sides(u, t, l))
  BY <1>1, <1>5, <1>6, <1>7 DEF WifiUp
<1>9. Sides(u, t, l).file = u /\ Sides(u, t, l).staged = t /\ s.file = f /\ s.staged = t
  BY <1>1, SidesAre
<1> QED BY <1>3, <1>5, <1>8, <1>9 DEF Grows, SameStaged, Saved

LEMMA ReloadKeeps ==
  ASSUME NEW s, WifiUp(s)
  PROVE  /\ WifiUp(RunCommand(s, ReloadCommand))
         /\ RunCommand(s, ReloadCommand).file = s.file /\ RunCommand(s, ReloadCommand).staged = s.staged
         /\ RunCommand(s, ReloadCommand).live = s.file
         /\ Grows(s, RunCommand(s, ReloadCommand)) /\ SameStaged(s, RunCommand(s, ReloadCommand))
<1>1. PICK f, t, l : /\ s = Sides(f, t, l) /\ f \in Config /\ t \in Config /\ l \in Config
                     /\ Guarded(f, f.guest) /\ Guarded(t, f.guest) /\ Guarded(l, f.guest) /\ Together(f, t)
  BY DEF WifiUp
<1>2. t = Cfg(t.dev, t.ifc, t.guest)
  BY <1>1, CfgIs
<1>3. RunCommand(s, ReloadCommand) = Sides(f, t, f)
  BY <1>1, <1>2, WifiCommandIs
<1>4. WifiUp(Sides(f, t, f))
  BY <1>1 DEF WifiUp
<1>5. s.file = f /\ s.staged = t /\ Sides(f, t, f).file = f /\ Sides(f, t, f).staged = t /\ Sides(f, t, f).live = f
  BY <1>1, SidesAre
<1> QED BY <1>3, <1>4, <1>5 DEF Grows, SameStaged

LEMMA HarmlessKeeps ==
  ASSUME NEW s, WifiUp(s), NEW c, Harmless(c)
  PROVE  WifiUp(RunCommand(s, c)) /\ Grows(s, RunCommand(s, c))
<1>1. CASE DevCommand(c)
  <2>1. PICK b \in Bands : \E o, v : DevValue(o, v) /\ (o = "off" => ~v) /\ c = SetDev(b, o, v)
    BY <1>1 DEF DevCommand
  <2>2. PICK o, v : DevValue(o, v) /\ (o = "off" => ~v) /\ c = SetDev(b, o, v)
    BY <2>1
  <2>3. WifiUp(RunCommand(s, SetDev(b, o, v))) /\ RunCommand(s, SetDev(b, o, v)).file = s.file
    BY <2>2, DevCommandKeeps
  <2> QED BY <2>2, <2>3 DEF Grows
<1>2. CASE IfCommand(c)
  <2>1. PICK n \in Ifaces : \E o, v : IfValue(o, v) /\ (IsGuest(n) /\ o = "off" => v) /\ c = SetIf(n, o, v)
    BY <1>2 DEF IfCommand
  <2>2. PICK o, v : IfValue(o, v) /\ (IsGuest(n) /\ o = "off" => v) /\ c = SetIf(n, o, v)
    BY <2>1
  <2>3. WifiUp(RunCommand(s, SetIf(n, o, v))) /\ RunCommand(s, SetIf(n, o, v)).file = s.file
    BY <2>2, IfCommandKeeps
  <2> QED BY <2>2, <2>3 DEF Grows
<1>3. CASE TailCommand(c)
  BY <1>3, GuestPartKeeps, GuestCommitKeeps, WifiCommitKeeps, ReloadKeeps DEF TailCommand
<1> QED BY <1>1, <1>2, <1>3 DEF Harmless

\* What every beginning of a plan leaves.
WifiAlong(s, cmds) == Len(cmds) \in Nat /\ \A k \in 0 .. Len(cmds) : WifiUp(WifiRun(s, cmds)[k])

\* Harmless commands can be stopped anywhere.
LEMMA HarmlessRun ==
  ASSUME NEW s, WifiUp(s), NEW cmds, Len(cmds) \in Nat, NEW m \in 0 .. Len(cmds), \A k \in 1 .. m : Harmless(cmds[k])
  PROVE  \A k \in 0 .. m : WifiUp(WifiRun(s, cmds)[k])
<1> DEFINE f == WifiRun(s, cmds)
           G == {k \in Nat : WifiUp(f[k])}
<1>0. f[0] = s /\ \A k \in 1 .. Len(cmds) : f[k] = RunCommand(f[k - 1], cmds[k])
  BY WifiRunIs
<1> HIDE DEF f
<1>1. 0 \in G
  BY <1>0
<1>2. ASSUME NEW k \in 0 .. m - 1, k \in G PROVE k + 1 \in G
  <2>1. k + 1 \in 1 .. m /\ k + 1 \in 1 .. Len(cmds) /\ (k + 1) - 1 = k /\ k + 1 \in Nat
    OBVIOUS
  <2>2. f[k + 1] = RunCommand(f[k], cmds[k + 1]) /\ WifiUp(f[k])
    BY <1>0, <1>2, <2>1
  <2>3. WifiUp(f[k + 1])
    BY <2>1, <2>2, HarmlessKeeps
  <2> QED BY <2>1, <2>3
<1>3. \A k \in 0 .. m : k \in G
  <2>1. m \in Nat /\ 0 \in Nat
    OBVIOUS
  <2>2. \A k \in 0 .. m - 1 : k \in G => k + 1 \in G
    BY <1>2
  <2> HIDE DEF G
  <2> QED BY <1>1, <2>1, <2>2, GoesOn, Zenon
<1> QED BY <1>3 DEF f

\* The parts of the guest network that are in the file stay there.
LEMMA PartStays ==
  ASSUME NEW s, NEW cmds, Len(cmds) \in Nat, NEW m \in 0 .. Len(cmds), NEW i \in 0 .. m,
         \A k \in 0 .. m : WifiUp(WifiRun(s, cmds)[k]), \A k \in 1 .. m : Harmless(cmds[k]),
         NEW p, p \in WifiRun(s, cmds)[i].file.guest
  PROVE  p \in WifiRun(s, cmds)[m].file.guest
<1> DEFINE f == WifiRun(s, cmds)
           G == {k \in Nat : p \in f[k].file.guest}
<1>0. \A k \in 1 .. Len(cmds) : f[k] = RunCommand(f[k - 1], cmds[k])
  BY WifiRunIs
<1>a. (\A k \in 0 .. m : WifiUp(f[k])) /\ i \in G
  OBVIOUS
<1> HIDE DEF f
<1>2. ASSUME NEW k \in i .. m - 1, k \in G PROVE k + 1 \in G
  <2>1. k + 1 \in 1 .. m /\ k + 1 \in 1 .. Len(cmds) /\ (k + 1) - 1 = k /\ k + 1 \in Nat /\ k \in 0 .. m
    OBVIOUS
  <2>2. f[k + 1] = RunCommand(f[k], cmds[k + 1]) /\ WifiUp(f[k])
    BY <1>0, <1>a, <2>1
  <2>3. p \in f[k + 1].file.guest
    BY <1>2, <2>1, <2>2, HarmlessKeeps DEF Grows
  <2> QED BY <2>1, <2>3
<1>3. \A k \in i .. m : k \in G
  <2>1. m \in Nat /\ i \in Nat
    OBVIOUS
  <2>2. \A k \in i .. m - 1 : k \in G => k + 1 \in G
    BY <1>2
  <2> HIDE DEF G
  <2> QED BY <1>a, <2>1, <2>2, GoesOn, Zenon
<1> QED BY <1>3 DEF f

-----------------------------------------------------------------------------
(* Wireless: what a plan leaves staged                                     *)

AboutDev(c, b, o) == c.op = "dev" /\ c.at = b /\ c.opt = o
AboutIf(c, n, o) == c.op = "ifc" /\ c.at = n /\ c.opt = o

LEMMA FieldsOfCommands ==
  /\ \A b, o, v : /\ SetDev(b, o, v).op = "dev" /\ SetDev(b, o, v).at = b
                  /\ SetDev(b, o, v).opt = o /\ SetDev(b, o, v).val = v
  /\ \A n, o, v : /\ SetIf(n, o, v).op = "ifc" /\ SetIf(n, o, v).at = n
                  /\ SetIf(n, o, v).opt = o /\ SetIf(n, o, v).val = v
  /\ \A p : SetGuest(p).op = "guest" /\ WifiCommit(p).op = "commit"
  /\ ReloadCommand.op = "reload"
BY DEF SetDev, SetIf, SetGuest, WifiCommit, ReloadCommand

LEMMA DevLeft ==
  ASSUME NEW s, WifiUp(s), NEW c, Harmless(c), NEW b \in Bands, NEW o \in DevFields, ~AboutDev(c, b, o)
  PROVE  RunCommand(s, c).staged.dev[b][o] = s.staged.dev[b][o]
<1>0. PICK f, t, l : s = Sides(f, t, l) /\ t \in Config
  BY DEF WifiUp
<1>a. s.staged.dev \in WDev
  BY <1>0, CfgIs, SidesAre
<1>1. CASE DevCommand(c)
  <2>1. PICK x \in Bands : \E p, v : DevValue(p, v) /\ (p = "off" => ~v) /\ c = SetDev(x, p, v)
    BY <1>1 DEF DevCommand
  <2>2. PICK p, v : DevValue(p, v) /\ (p = "off" => ~v) /\ c = SetDev(x, p, v)
    BY <2>1
  <2>3. RunCommand(s, SetDev(x, p, v)).staged.dev = PutDev(s.staged.dev, x, p, v)
    BY <2>2, DevCommandKeeps
  <2>4. b # x \/ o # p
    BY <2>2, FieldsOfCommands DEF AboutDev
  <2>5. PutDev(s.staged.dev, x, p, v)[b][o] = s.staged.dev[b][o]
    BY <1>a, <2>2, <2>4, PutDevIs
  <2> QED BY <2>2, <2>3, <2>5
<1>2. CASE IfCommand(c)
  <2>1. PICK n \in Ifaces : \E p, v : IfValue(p, v) /\ (IsGuest(n) /\ p = "off" => v) /\ c = SetIf(n, p, v)
    BY <1>2 DEF IfCommand
  <2>2. PICK p, v : IfValue(p, v) /\ (IsGuest(n) /\ p = "off" => v) /\ c = SetIf(n, p, v)
    BY <2>1
  <2>3. RunCommand(s, SetIf(n, p, v)).staged.dev = s.staged.dev
    BY <2>2, IfCommandKeeps
  <2> QED BY <2>2, <2>3
<1>3. CASE TailCommand(c)
  <2>1. SameStaged(s, RunCommand(s, c))
    BY <1>3, GuestPartKeeps, GuestCommitKeeps, WifiCommitKeeps, ReloadKeeps DEF TailCommand
  <2> QED BY <2>1 DEF SameStaged
<1> QED BY <1>1, <1>2, <1>3 DEF Harmless

LEMMA IfLeft ==
  ASSUME NEW s, WifiUp(s), NEW c, Harmless(c), NEW n \in Ifaces, NEW o \in IfFields, ~AboutIf(c, n, o)
  PROVE  RunCommand(s, c).staged.ifc[n][o] = s.staged.ifc[n][o]
<1>0. PICK f, t, l : s = Sides(f, t, l) /\ t \in Config
  BY DEF WifiUp
<1>a. s.staged.ifc \in WIfc
  BY <1>0, CfgIs, SidesAre
<1>1. CASE IfCommand(c)
  <2>1. PICK x \in Ifaces : \E p, v : IfValue(p, v) /\ (IsGuest(x) /\ p = "off" => v) /\ c = SetIf(x, p, v)
    BY <1>1 DEF IfCommand
  <2>2. PICK p, v : IfValue(p, v) /\ (IsGuest(x) /\ p = "off" => v) /\ c = SetIf(x, p, v)
    BY <2>1
  <2>3. RunCommand(s, SetIf(x, p, v)).staged.ifc = PutIf(s.staged.ifc, x, p, v)
    BY <2>2, IfCommandKeeps
  <2>4. n # x \/ o # p
    BY <2>2, FieldsOfCommands DEF AboutIf
  <2>5. PutIf(s.staged.ifc, x, p, v)[n][o] = s.staged.ifc[n][o]
    BY <1>a, <2>2, <2>4, PutIfIs
  <2> QED BY <2>2, <2>3, <2>5
<1>2. CASE DevCommand(c)
  <2>1. PICK x \in Bands : \E p, v : DevValue(p, v) /\ (p = "off" => ~v) /\ c = SetDev(x, p, v)
    BY <1>2 DEF DevCommand
  <2>2. PICK p, v : DevValue(p, v) /\ (p = "off" => ~v) /\ c = SetDev(x, p, v)
    BY <2>1
  <2>3. RunCommand(s, SetDev(x, p, v)).staged.ifc = s.staged.ifc
    BY <2>2, DevCommandKeeps
  <2> QED BY <2>2, <2>3
<1>3. CASE TailCommand(c)
  <2>1. SameStaged(s, RunCommand(s, c))
    BY <1>3, GuestPartKeeps, GuestCommitKeeps, WifiCommitKeeps, ReloadKeeps DEF TailCommand
  <2> QED BY <2>1 DEF SameStaged
<1> QED BY <1>1, <1>2, <1>3 DEF Harmless

\* A plan of harmless commands.
HarmlessPlan(cmds) == Len(cmds) \in Nat /\ \A k \in 1 .. Len(cmds) : Harmless(cmds[k])
DevLast(cmds, i, b, o, v) ==
  cmds[i] = SetDev(b, o, v) /\ DevValue(o, v) /\ (o = "off" => ~v) /\ \A k \in i + 1 .. Len(cmds) : ~AboutDev(cmds[k], b, o)
IfLast(cmds, i, n, o, v) ==
  /\ cmds[i] = SetIf(n, o, v) /\ IfValue(o, v) /\ (IsGuest(n) /\ o = "off" => v)
  /\ \A k \in i + 1 .. Len(cmds) : ~AboutIf(cmds[k], n, o)

\* Of the commands about an option of a radio the last one counts, ...
LEMMA DevLastCounts ==
  ASSUME NEW s, WifiUp(s), NEW cmds, HarmlessPlan(cmds), NEW i \in 1 .. Len(cmds), NEW b \in Bands, NEW o, NEW v,
         DevLast(cmds, i, b, o, v)
  PROVE  WifiRun(s, cmds)[Len(cmds)].staged.dev[b][o] = v
<1> DEFINE f == WifiRun(s, cmds)
           n == Len(cmds)
           G == {k \in Nat : f[k].staged.dev[b][o] = v}
<1>0. n \in Nat /\ (\A k \in 1 .. n : f[k] = RunCommand(f[k - 1], cmds[k])) /\ \A k \in 1 .. n : Harmless(cmds[k])
  BY WifiRunIs DEF HarmlessPlan
<1>1. \A k \in 0 .. n : WifiUp(f[k])
  BY <1>0, HarmlessRun
<1>2. /\ cmds[i] = SetDev(b, o, v) /\ DevValue(o, v) /\ (o = "off" => ~v) /\ \A k \in i + 1 .. n : ~AboutDev(cmds[k], b, o)
      /\ o \in DevFields /\ i \in 1 .. n
  BY FieldsAre DEF DevLast
<1> HIDE DEF f, n
<1>3. i \in G
  <2>1. i - 1 \in 0 .. n /\ i \in Nat
    BY <1>0, <1>2
  <2>2. f[i] = RunCommand(f[i - 1], SetDev(b, o, v)) /\ WifiUp(f[i - 1])
    BY <1>0, <1>1, <1>2, <2>1
  <2>3. f[i].staged.dev = PutDev(f[i - 1].staged.dev, b, o, v)
    BY <1>2, <2>2, DevCommandKeeps
  <2>4. PICK x, t, l : f[i - 1] = Sides(x, t, l) /\ t \in Config
    BY <2>2 DEF WifiUp
  <2>5. f[i - 1].staged.dev \in WDev
    BY <2>4, CfgIs, SidesAre
  <2>6. f[i].staged.dev[b][o] = v
    BY <1>2, <2>3, <2>5, PutDevIs
  <2> QED BY <2>1, <2>6
<1>4. ASSUME NEW k \in i .. n - 1, k \in G PROVE k + 1 \in G
  <2>1. k + 1 \in 1 .. n /\ k + 1 \in i + 1 .. n /\ (k + 1) - 1 = k /\ k + 1 \in Nat /\ k \in 0 .. n
    BY <1>0, <1>2
  <2>2. f[k + 1] = RunCommand(f[k], cmds[k + 1]) /\ WifiUp(f[k]) /\ Harmless(cmds[k + 1]) /\ ~AboutDev(cmds[k + 1], b, o)
    BY <1>0, <1>1, <1>2, <2>1
  <2>3. f[k + 1].staged.dev[b][o] = v
    BY <1>2, <1>4, <2>2, DevLeft
  <2> QED BY <2>1, <2>3
<1>5. n \in G
  <2>1. n \in Nat /\ i \in Nat /\ n \in i .. n
    BY <1>0, <1>2
  <2>2. \A k \in i .. n - 1 : k \in G => k + 1 \in G
    BY <1>4
  <2> HIDE DEF G
  <2>3. \A k \in i .. n : k \in G
    BY <1>3, <2>1, <2>2, GoesOn, Zenon
  <2> QED BY <2>1, <2>3
<1> QED BY <1>5 DEF f, n

\* ... and so of an interface.
LEMMA IfLastCounts ==
  ASSUME NEW s, WifiUp(s), NEW cmds, HarmlessPlan(cmds), NEW i \in 1 .. Len(cmds), NEW x \in Ifaces, NEW o, NEW v,
         IfLast(cmds, i, x, o, v)
  PROVE  WifiRun(s, cmds)[Len(cmds)].staged.ifc[x][o] = v
<1> DEFINE f == WifiRun(s, cmds)
           n == Len(cmds)
           G == {k \in Nat : f[k].staged.ifc[x][o] = v}
<1>0. n \in Nat /\ (\A k \in 1 .. n : f[k] = RunCommand(f[k - 1], cmds[k])) /\ \A k \in 1 .. n : Harmless(cmds[k])
  BY WifiRunIs DEF HarmlessPlan
<1>1. \A k \in 0 .. n : WifiUp(f[k])
  BY <1>0, HarmlessRun
<1>2. /\ cmds[i] = SetIf(x, o, v) /\ IfValue(o, v) /\ (IsGuest(x) /\ o = "off" => v) /\ \A k \in i + 1 .. n : ~AboutIf(cmds[k], x, o)
      /\ o \in IfFields /\ i \in 1 .. n
  BY FieldsAre DEF IfLast
<1> HIDE DEF f, n
<1>3. i \in G
  <2>1. i - 1 \in 0 .. n /\ i \in Nat
    BY <1>0, <1>2
  <2>2. f[i] = RunCommand(f[i - 1], SetIf(x, o, v)) /\ WifiUp(f[i - 1])
    BY <1>0, <1>1, <1>2, <2>1
  <2>3. f[i].staged.ifc = PutIf(f[i - 1].staged.ifc, x, o, v)
    BY <1>2, <2>2, IfCommandKeeps
  <2>4. PICK y, t, l : f[i - 1] = Sides(y, t, l) /\ t \in Config
    BY <2>2 DEF WifiUp
  <2>5. f[i - 1].staged.ifc \in WIfc
    BY <2>4, CfgIs, SidesAre
  <2>6. f[i].staged.ifc[x][o] = v
    BY <1>2, <2>3, <2>5, PutIfIs
  <2> QED BY <2>1, <2>6
<1>4. ASSUME NEW k \in i .. n - 1, k \in G PROVE k + 1 \in G
  <2>1. k + 1 \in 1 .. n /\ k + 1 \in i + 1 .. n /\ (k + 1) - 1 = k /\ k + 1 \in Nat /\ k \in 0 .. n
    BY <1>0, <1>2
  <2>2. f[k + 1] = RunCommand(f[k], cmds[k + 1]) /\ WifiUp(f[k]) /\ Harmless(cmds[k + 1]) /\ ~AboutIf(cmds[k + 1], x, o)
    BY <1>0, <1>1, <1>2, <2>1
  <2>3. f[k + 1].staged.ifc[x][o] = v
    BY <1>2, <1>4, <2>2, IfLeft
  <2> QED BY <2>1, <2>3
<1>5. n \in G
  <2>1. n \in Nat /\ i \in Nat /\ n \in i .. n
    BY <1>0, <1>2
  <2>2. \A k \in i .. n - 1 : k \in G => k + 1 \in G
    BY <1>4
  <2> HIDE DEF G
  <2>3. \A k \in i .. n : k \in G
    BY <1>3, <2>1, <2>2, GoesOn, Zenon
  <2> QED BY <2>1, <2>3
<1> QED BY <1>5 DEF f, n

\* The radio runs what the file says.
Current(s) == s.live = s.file

\* The last two commands of a plan.
LEMMA CommittedAndReloaded ==
  ASSUME NEW s, NEW cmds, WifiAlong(s, cmds), NEW n \in Nat, n = Len(cmds), n >= 2,
         cmds[n - 1] = WifiCommit("wireless"), cmds[n] = ReloadCommand
  PROVE  /\ Saved(WifiRun(s, cmds)[n]) /\ Current(WifiRun(s, cmds)[n])
         /\ SameStaged(WifiRun(s, cmds)[n - 2], WifiRun(s, cmds)[n])
<1> DEFINE f == WifiRun(s, cmds)
<1>0. /\ n \in 1 .. n /\ n - 1 \in 1 .. n /\ (n - 1) - 1 = n - 2 /\ n - 1 \in 0 .. n /\ n - 2 \in 0 .. n
  OBVIOUS
<1>1. f[n - 1] = RunCommand(f[n - 2], WifiCommit("wireless")) /\ f[n] = RunCommand(f[n - 1], ReloadCommand)
  BY <1>0, WifiRunIs
<1>2. WifiUp(f[n - 1]) /\ WifiUp(f[n - 2])
  BY <1>0 DEF WifiAlong
<1> HIDE DEF f
<1>3. Saved(f[n - 1]) /\ SameStaged(f[n - 2], f[n - 1])
  BY <1>1, <1>2, WifiCommitKeeps
<1>4. f[n].file = f[n - 1].file /\ f[n].staged = f[n - 1].staged /\ f[n].live = f[n - 1].file
  BY <1>1, <1>2, ReloadKeeps
<1>5. Saved(f[n]) /\ Current(f[n]) /\ SameStaged(f[n - 2], f[n])
  BY <1>3, <1>4 DEF Saved, Current, SameStaged
<1> QED BY <1>5 DEF f

-----------------------------------------------------------------------------
(* Wireless: the plan of an edit                                           *)

IsSeq(a) == \E S : a \in Seq(S)

\* c is a, and b behind it.
Joined(a, b, c) ==
  /\ IsSeq(c) /\ Len(a) \in Nat /\ Len(b) \in Nat /\ Len(c) = Len(a) + Len(b)
  /\ \A i \in 1 .. Len(a) : c[i] = a[i]
  /\ \A i \in 1 .. Len(b) : c[Len(a) + i] = b[i]

LEMMA JoinedIs ==
  ASSUME NEW a, NEW b, IsSeq(a), IsSeq(b)
  PROVE  Joined(a, b, a \o b)
<1>1. PICK S, T : a \in Seq(S) /\ b \in Seq(T)
  BY DEF IsSeq
<1> DEFINE U == S \union T
<1>2. a \in Seq(U) /\ b \in Seq(U)
  BY <1>1
<1> HIDE DEF U
<1>3. /\ a \o b \in Seq(U) /\ Len(a \o b) = Len(a) + Len(b) /\ Len(a) \in Nat /\ Len(b) \in Nat
      /\ \A i \in 1 .. Len(a) + Len(b) : (a \o b)[i] = IF i <= Len(a) THEN a[i] ELSE b[i - Len(a)]
  BY <1>2, ConcatProperties, LenProperties
<1>4. \A i \in 1 .. Len(a) : (a \o b)[i] = a[i]
  BY <1>3
<1>5. ASSUME NEW i \in 1 .. Len(b) PROVE (a \o b)[Len(a) + i] = b[i]
  <2>1. Len(a) + i \in 1 .. Len(a) + Len(b) /\ ~(Len(a) + i <= Len(a)) /\ (Len(a) + i) - Len(a) = i
    BY <1>3
  <2> QED BY <1>3, <2>1
<1> QED BY <1>3, <1>4, <1>5 DEF IsSeq, Joined

LEMMA TuplesAre ==
  /\ IsSeq(<<>>) /\ Len(<<>>) = 0
  /\ \A x : IsSeq(<<x>>) /\ Len(<<x>>) = 1
  /\ \A x, y : IsSeq(<<x, y>>) /\ Len(<<x, y>>) = 2
  /\ \A x, y, z : IsSeq(<<x, y, z>>) /\ Len(<<x, y, z>>) = 3
  /\ \A x, y, z, u : IsSeq(<<x, y, z, u>>) /\ Len(<<x, y, z, u>>) = 4
<1>1. IsSeq(<<>>) /\ Len(<<>>) = 0
  <2>1. <<>> \in Seq({})
    OBVIOUS
  <2> QED BY <2>1 DEF IsSeq
<1>2. ASSUME NEW x PROVE IsSeq(<<x>>) /\ Len(<<x>>) = 1
  <2>1. <<x>> \in Seq({x})
    OBVIOUS
  <2> QED BY <2>1 DEF IsSeq
<1>3. ASSUME NEW x, NEW y PROVE IsSeq(<<x, y>>) /\ Len(<<x, y>>) = 2
  <2>1. <<x, y>> \in Seq({x, y}) /\ Len(<<x, y>>) = 2
    OBVIOUS
  <2> QED BY <2>1, Zenon DEF IsSeq
<1>4. ASSUME NEW x, NEW y, NEW z PROVE IsSeq(<<x, y, z>>) /\ Len(<<x, y, z>>) = 3
  <2>1. <<x, y, z>> \in Seq({x, y, z}) /\ Len(<<x, y, z>>) = 3
    OBVIOUS
  <2> QED BY <2>1, Zenon DEF IsSeq
<1>5. ASSUME NEW x, NEW y, NEW z, NEW u PROVE IsSeq(<<x, y, z, u>>) /\ Len(<<x, y, z, u>>) = 4
  <2>1. <<x, y, z, u>> \in Seq({x, y, z, u}) /\ Len(<<x, y, z, u>>) = 4
    OBVIOUS
  <2> QED BY <2>1, Zenon DEF IsSeq
<1> QED BY <1>1, <1>2, <1>3, <1>4, <1>5

EditOK(r, ev) == r.name \in Ifaces /\ r.key \in WifiKeys /\ r.hidden \in BOOLEAN /\ ev.enc \in EncValues /\ ev.sae \in BOOLEAN
RadioOK(r) == r.channel \in {"auto", "6"} /\ r.ht \in Htmodes /\ r.network \in {"lan", "guest"}
Requires == {EmptyText, "ax", "ac"}

\* The first commands of an edit, and those of a radio, m of them the driver's own.
IfacePart(c, r, ev) ==
  /\ IsSeq(c)
  /\ c[1] = SetIf(r.name, "enc", ev.enc) /\ c[2] = SetIf(r.name, "key", r.key)
  /\ c[3] = SetIf(r.name, "sae", ev.sae) /\ c[4] = SetIf(r.name, "hidden", r.hidden)
GuestList(c, r, ev) ==
  IfacePart(c, r, ev) /\ Len(c) = 6 /\ c[5] = WifiCommit("wireless") /\ c[6] = ReloadCommand
EditList(c, r, ev, m) ==
  /\ IfacePart(c, r, ev) /\ Len(c) = 9 + m
  /\ c[5] = SetDev(BandOf(r.name), "channel", r.channel)
  /\ c[6 + m] = SetDev(BandOf(r.name), "ht", Width(r.ht)) /\ c[7 + m] = SetIf(r.name, "network", r.network)
  /\ c[8 + m] = WifiCommit("wireless") /\ c[9 + m] = ReloadCommand

LEMMA EditListIs ==
  ASSUME NEW r, NEW ev, NEW hw, NEW m \in {0, 1}, IsSeq(hw), Len(hw) = m
  PROVE  /\ GuestList(IfaceCommands(r, ev) \o <<WifiCommit("wireless"), ReloadCommand>>, r, ev)
         /\ EditList(EditCommands(r, ev, hw), r, ev, m)
         /\ m = 1 => EditCommands(r, ev, hw)[6] = hw[1]
<1> DEFINE p == IfaceCommands(r, ev)
           q == <<SetDev(BandOf(r.name), "channel", r.channel)>>
           t == <<SetDev(BandOf(r.name), "ht", Width(r.ht)), SetIf(r.name, "network", r.network), WifiCommit("wireless"), ReloadCommand>>
           e == <<WifiCommit("wireless"), ReloadCommand>>
<1>1. IfacePart(p, r, ev) /\ Len(p) = 4
  <2>1. p = <<SetIf(r.name, "enc", ev.enc), SetIf(r.name, "key", r.key), SetIf(r.name, "sae", ev.sae),
              SetIf(r.name, "hidden", r.hidden)>>
    BY DEF IfaceCommands
  <2> QED BY <2>1, TuplesAre DEF IfacePart
<1>2. IsSeq(q) /\ Len(q) = 1 /\ q[1] = SetDev(BandOf(r.name), "channel", r.channel)
  BY TuplesAre
<1>3. /\ IsSeq(t) /\ Len(t) = 4 /\ t[1] = SetDev(BandOf(r.name), "ht", Width(r.ht))
      /\ t[2] = SetIf(r.name, "network", r.network) /\ t[3] = WifiCommit("wireless") /\ t[4] = ReloadCommand
  BY TuplesAre
<1>4. IsSeq(e) /\ Len(e) = 2 /\ e[1] = WifiCommit("wireless") /\ e[2] = ReloadCommand
  BY TuplesAre
<1>5. EditCommands(r, ev, hw) = p \o q \o hw \o t
  BY DEF EditCommands
<1> HIDE DEF p, q, t, e
<1>a. IsSeq(p)
  BY <1>1 DEF IfacePart
<1>6. GuestList(p \o e, r, ev)
  <2>0. Joined(p, e, p \o e)
    BY <1>4, <1>a, JoinedIs
  <2>1. /\ IsSeq(p \o e) /\ Len(p \o e) = 6 /\ (\A i \in 1 .. 4 : (p \o e)[i] = p[i])
        /\ (\A i \in 1 .. 2 : (p \o e)[4 + i] = e[i])
    BY <1>1, <1>4, <2>0 DEF Joined
  <2> QED BY <1>1, <1>4, <2>1 DEF GuestList, IfacePart
<1>7. /\ IsSeq(p \o q) /\ Len(p \o q) = 5 /\ (\A i \in 1 .. 4 : (p \o q)[i] = p[i]) /\ (p \o q)[5] = q[1]
  <2>0. Joined(p, q, p \o q)
    BY <1>2, <1>a, JoinedIs
  <2>1. IsSeq(p \o q) /\ Len(p \o q) = 4 + 1 /\ (\A i \in 1 .. 4 : (p \o q)[i] = p[i]) /\ \A i \in 1 .. 1 : (p \o q)[4 + i] = q[i]
    BY <1>1, <1>2, <2>0 DEF Joined
  <2> QED BY <2>1
<1>8. /\ IsSeq(p \o q \o hw) /\ Len(p \o q \o hw) = 5 + m /\ (\A i \in 1 .. 5 : (p \o q \o hw)[i] = (p \o q)[i])
      /\ m = 1 => (p \o q \o hw)[6] = hw[1]
  <2>1. /\ IsSeq(p \o q \o hw) /\ Len(p \o q \o hw) = 5 + m /\ (\A i \in 1 .. 5 : (p \o q \o hw)[i] = (p \o q)[i])
        /\ \A i \in 1 .. m : (p \o q \o hw)[5 + i] = hw[i]
    BY <1>7, JoinedIs DEF Joined
  <2> QED BY <2>1
<1> DEFINE c == p \o q \o hw \o t
           h == p \o q \o hw
<1>9. c = h \o t
  OBVIOUS
<1>10. IsSeq(h) /\ Len(h) = 5 + m /\ (\A i \in 1 .. 5 : h[i] = (p \o q)[i]) /\ (m = 1 => h[6] = hw[1])
  BY <1>8
<1> HIDE DEF c, h
<1>11. /\ IsSeq(c) /\ Len(c) = 9 + m /\ (\A i \in 1 .. 5 + m : c[i] = h[i])
       /\ \A i \in 1 .. 4 : c[5 + m + i] = t[i]
  <2>1. /\ IsSeq(h \o t) /\ Len(h \o t) = 9 + m /\ (\A i \in 1 .. 5 + m : (h \o t)[i] = h[i])
        /\ \A i \in 1 .. 4 : (h \o t)[5 + m + i] = t[i]
    <3>1. Joined(h, t, h \o t)
      BY <1>3, <1>10, JoinedIs
    <3> DEFINE k == h \o t
    <3>2. /\ IsSeq(k) /\ Len(k) = Len(h) + Len(t) /\ (\A i \in 1 .. Len(h) : k[i] = h[i])
          /\ \A i \in 1 .. Len(t) : k[Len(h) + i] = t[i]
      BY <3>1, Zenon DEF Joined
    <3> HIDE DEF k
    <3>3. Len(h) = 5 + m /\ Len(t) = 4 /\ (5 + m) + 4 = 9 + m
      BY <1>3, <1>10
    <3>4. /\ IsSeq(k) /\ Len(k) = 9 + m /\ (\A i \in 1 .. 5 + m : k[i] = h[i])
          /\ \A i \in 1 .. 4 : k[5 + m + i] = t[i]
      BY <3>2, <3>3
    <3> QED BY <3>4 DEF k
  <2> QED BY <1>9, <2>1
<1>12. EditList(c, r, ev, m) /\ (m = 1 => c[6] = hw[1])
  <2>1. \A i \in 1 .. 5 : c[i] = h[i] /\ h[i] = (p \o q)[i]
    <3> TAKE i \in 1 .. 5
    <3>1. i \in 1 .. 5 + m
      OBVIOUS
    <3> QED BY <1>10, <1>11, <3>1
  <2>2. c[1] = p[1] /\ c[2] = p[2] /\ c[3] = p[3] /\ c[4] = p[4] /\ c[5] = q[1]
    BY <1>7, <2>1
  <2>3. c[6 + m] = t[1] /\ c[7 + m] = t[2] /\ c[8 + m] = t[3] /\ c[9 + m] = t[4]
    BY <1>11
  <2>4. m = 1 => c[6] = hw[1]
    BY <1>10, <1>11
  <2>5. IfacePart(c, r, ev)
    BY <1>1, <1>11, <2>2 DEF IfacePart
  <2> QED BY <1>2, <1>3, <1>11, <2>2, <2>3, <2>4, <2>5 DEF EditList
<1> QED BY <1>5, <1>6, <1>12 DEF p, e, c

\* What an edit leaves of its interface and, when it is no guest, of its radio.
IfaceSays(c, r, ev) ==
  LET i == c.ifc[r.name] IN i.enc = ev.enc /\ i.key = r.key /\ i.sae = ev.sae /\ i.hidden = r.hidden
RadioSays(c, r) ==
  /\ c.dev[BandOf(r.name)].channel = r.channel /\ c.dev[BandOf(r.name)].ht = Width(r.ht)
  /\ c.ifc[r.name].network = r.network
RequireSays(c, r, q) == c.dev[BandOf(r.name)].require = q

LEMMA IfaceValues ==
  ASSUME NEW r, NEW ev, EditOK(r, ev)
  PROVE  /\ IfValue("enc", ev.enc) /\ IfValue("key", r.key) /\ IfValue("sae", ev.sae) /\ IfValue("hidden", r.hidden)
         /\ {"enc", "key", "sae", "hidden", "network", "off", "there"} \subseteq IfFields
BY DEF IfValue, EditOK, IfFields

LEMMA RadioValues ==
  /\ \A r : RadioOK(r) => DevValue("channel", r.channel) /\ DevValue("ht", Width(r.ht)) /\ IfValue("network", r.network)
  /\ \A q \in Requires : DevValue("require", q)
  /\ \A ht \in Htmodes : Width(ht) \in {"20", "40", "80", "160"}
<1>1. \A ht \in Htmodes : Width(ht) \in {"20", "40", "80", "160"}
  BY DEF Width, Htmodes
<1>2. \A r : RadioOK(r) => DevValue("channel", r.channel) /\ DevValue("ht", Width(r.ht)) /\ IfValue("network", r.network)
  BY <1>1 DEF RadioOK, DevValue, IfValue
<1>3. \A q \in Requires : DevValue("require", q)
  BY DEF Requires, DevValue
<1> QED BY <1>1, <1>2, <1>3

\* A setting that no command before the end undoes.
LEMMA SettingsAreHarmless ==
  /\ \A b \in Bands : \A o, v : DevValue(o, v) /\ o # "off" => Harmless(SetDev(b, o, v))
  /\ \A n \in Ifaces : \A o, v : IfValue(o, v) /\ (o # "off" \/ ~IsGuest(n)) => Harmless(SetIf(n, o, v))
  /\ Harmless(WifiCommit("wireless")) /\ Harmless(ReloadCommand)
  /\ \A p \in GuestParts : Harmless(SetGuest(p)) /\ Harmless(WifiCommit(p))
<1>1. \A b \in Bands : \A o, v : DevValue(o, v) /\ o # "off" => Harmless(SetDev(b, o, v))
  BY DEF Harmless, DevCommand
<1>2. \A n \in Ifaces : \A o, v : IfValue(o, v) /\ (o # "off" \/ ~IsGuest(n)) => Harmless(SetIf(n, o, v))
  BY DEF Harmless, IfCommand
<1>3. Harmless(WifiCommit("wireless")) /\ Harmless(ReloadCommand)
  BY DEF Harmless, TailCommand
<1>4. \A p \in GuestParts : Harmless(SetGuest(p)) /\ Harmless(WifiCommit(p))
  BY DEF Harmless, TailCommand
<1> QED BY <1>1, <1>2, <1>3, <1>4

LEMMA GuestListHarmless ==
  ASSUME NEW c, NEW r, NEW ev, EditOK(r, ev), GuestList(c, r, ev)
  PROVE  /\ HarmlessPlan(c)
         /\ IfLast(c, 1, r.name, "enc", ev.enc) /\ IfLast(c, 2, r.name, "key", r.key)
         /\ IfLast(c, 3, r.name, "sae", ev.sae) /\ IfLast(c, 4, r.name, "hidden", r.hidden)
<1>1. /\ c[1] = SetIf(r.name, "enc", ev.enc) /\ c[2] = SetIf(r.name, "key", r.key)
      /\ c[3] = SetIf(r.name, "sae", ev.sae) /\ c[4] = SetIf(r.name, "hidden", r.hidden)
      /\ c[5] = WifiCommit("wireless") /\ c[6] = ReloadCommand /\ Len(c) = 6
  BY DEF GuestList, IfacePart
<1>2. r.name \in Ifaces
  BY DEF EditOK
<1>3. Harmless(c[1]) /\ Harmless(c[2]) /\ Harmless(c[3]) /\ Harmless(c[4]) /\ Harmless(c[5]) /\ Harmless(c[6])
  BY <1>1, <1>2, IfaceValues, SettingsAreHarmless
<1>4. \A k \in 1 .. 6 : k = 1 \/ k = 2 \/ k = 3 \/ k = 4 \/ k = 5 \/ k = 6
  OBVIOUS
<1>5. HarmlessPlan(c)
  BY <1>1, <1>3, <1>4 DEF HarmlessPlan
<1>6. c[2].opt = "key" /\ c[3].opt = "sae" /\ c[4].opt = "hidden" /\ c[5].op = "commit" /\ c[6].op = "reload"
  BY <1>1, FieldsOfCommands
<1>7. IfLast(c, 1, r.name, "enc", ev.enc)
  <2>1. \A k \in 1 + 1 .. Len(c) : k = 2 \/ k = 3 \/ k = 4 \/ k = 5 \/ k = 6
    BY <1>1
  <2> QED BY <1>1, <1>6, <2>1, IfaceValues DEF IfLast, AboutIf
<1>8. IfLast(c, 2, r.name, "key", r.key)
  <2>1. \A k \in 2 + 1 .. Len(c) : k = 3 \/ k = 4 \/ k = 5 \/ k = 6
    BY <1>1
  <2> QED BY <1>1, <1>6, <2>1, IfaceValues DEF IfLast, AboutIf
<1>9. IfLast(c, 3, r.name, "sae", ev.sae)
  <2>1. \A k \in 3 + 1 .. Len(c) : k = 4 \/ k = 5 \/ k = 6
    BY <1>1
  <2> QED BY <1>1, <1>6, <2>1, IfaceValues DEF IfLast, AboutIf
<1>10. IfLast(c, 4, r.name, "hidden", r.hidden)
  <2>1. \A k \in 4 + 1 .. Len(c) : k = 5 \/ k = 6
    BY <1>1
  <2> QED BY <1>1, <1>6, <2>1, IfaceValues DEF IfLast, AboutIf
<1> QED BY <1>5, <1>7, <1>8, <1>9, <1>10

LEMMA EditListHarmless ==
  ASSUME NEW c, NEW r, NEW ev, EditOK(r, ev), RadioOK(r), NEW m \in {0, 1}, EditList(c, r, ev, m),
         NEW q \in Requires, m = 1 => c[6] = SetDev(BandOf(r.name), "require", q)
  PROVE  /\ HarmlessPlan(c)
         /\ IfLast(c, 1, r.name, "enc", ev.enc) /\ IfLast(c, 2, r.name, "key", r.key)
         /\ IfLast(c, 3, r.name, "sae", ev.sae) /\ IfLast(c, 4, r.name, "hidden", r.hidden)
         /\ IfLast(c, 7 + m, r.name, "network", r.network)
         /\ DevLast(c, 5, BandOf(r.name), "channel", r.channel) /\ DevLast(c, 6 + m, BandOf(r.name), "ht", Width(r.ht))
         /\ m = 1 => DevLast(c, 6, BandOf(r.name), "require", q)
<1> DEFINE b == BandOf(r.name)
<1>0. m = 0 \/ m = 1
  OBVIOUS
<1>1. /\ c[1] = SetIf(r.name, "enc", ev.enc) /\ c[2] = SetIf(r.name, "key", r.key)
      /\ c[3] = SetIf(r.name, "sae", ev.sae) /\ c[4] = SetIf(r.name, "hidden", r.hidden)
      /\ c[5] = SetDev(b, "channel", r.channel)
      /\ c[6 + m] = SetDev(b, "ht", Width(r.ht)) /\ c[7 + m] = SetIf(r.name, "network", r.network)
      /\ c[8 + m] = WifiCommit("wireless") /\ c[9 + m] = ReloadCommand /\ Len(c) = 9 + m
  BY DEF EditList, IfacePart
<1>2. r.name \in Ifaces /\ b \in Bands
  BY GuestsAre DEF EditOK
<1>a. m = 1 => c[6] = SetDev(b, "require", q)
  OBVIOUS
<1> HIDE DEF b
<1>3. /\ Harmless(c[1]) /\ Harmless(c[2]) /\ Harmless(c[3]) /\ Harmless(c[4]) /\ Harmless(c[5])
      /\ Harmless(c[6 + m]) /\ Harmless(c[7 + m]) /\ Harmless(c[8 + m]) /\ Harmless(c[9 + m])
      /\ m = 1 => Harmless(c[6])
  BY <1>1, <1>2, <1>a, IfaceValues, RadioValues, SettingsAreHarmless
<1>4. \A k \in 1 .. 9 + m : \/ k \in 1 .. 5 \/ (m = 1 /\ k = 6) \/ k = 6 + m \/ k = 7 + m \/ k = 8 + m \/ k = 9 + m
  OBVIOUS
<1>b. \A k \in 1 .. 5 : k = 1 \/ k = 2 \/ k = 3 \/ k = 4 \/ k = 5
  OBVIOUS
<1>5. HarmlessPlan(c)
  BY <1>1, <1>3, <1>4, <1>b DEF HarmlessPlan
<1>6. /\ c[2].opt = "key" /\ c[3].opt = "sae" /\ c[4].opt = "hidden" /\ c[5].op = "dev" /\ c[5].opt = "channel"
      /\ c[6 + m].op = "dev" /\ c[6 + m].opt = "ht" /\ c[7 + m].op = "ifc" /\ c[7 + m].opt = "network"
      /\ c[8 + m].op = "commit" /\ c[9 + m].op = "reload" /\ (m = 1 => c[6].op = "dev" /\ c[6].opt = "require")
  BY <1>1, <1>a, FieldsOfCommands
<1>7. IfLast(c, 1, r.name, "enc", ev.enc)
  <2>1. \A k \in 1 + 1 .. Len(c) : \/ k = 2 \/ k = 3 \/ k = 4 \/ k = 5 \/ (m = 1 /\ k = 6)
                                   \/ k = 6 + m \/ k = 7 + m \/ k = 8 + m \/ k = 9 + m
    BY <1>0, <1>1
  <2> QED BY <1>1, <1>6, <2>1, IfaceValues DEF IfLast, AboutIf
<1>8. IfLast(c, 2, r.name, "key", r.key)
  <2>1. \A k \in 2 + 1 .. Len(c) : \/ k = 3 \/ k = 4 \/ k = 5 \/ (m = 1 /\ k = 6)
                                   \/ k = 6 + m \/ k = 7 + m \/ k = 8 + m \/ k = 9 + m
    BY <1>0, <1>1
  <2> QED BY <1>1, <1>6, <2>1, IfaceValues DEF IfLast, AboutIf
<1>9. IfLast(c, 3, r.name, "sae", ev.sae)
  <2>1. \A k \in 3 + 1 .. Len(c) : k = 4 \/ k = 5 \/ (m = 1 /\ k = 6) \/ k = 6 + m \/ k = 7 + m \/ k = 8 + m \/ k = 9 + m
    BY <1>0, <1>1
  <2> QED BY <1>1, <1>6, <2>1, IfaceValues DEF IfLast, AboutIf
<1>10. IfLast(c, 4, r.name, "hidden", r.hidden)
  <2>1. \A k \in 4 + 1 .. Len(c) : k = 5 \/ (m = 1 /\ k = 6) \/ k = 6 + m \/ k = 7 + m \/ k = 8 + m \/ k = 9 + m
    BY <1>0, <1>1
  <2> QED BY <1>1, <1>6, <2>1, IfaceValues DEF IfLast, AboutIf
<1>11. IfLast(c, 7 + m, r.name, "network", r.network)
  <2>1. \A k \in 7 + m + 1 .. Len(c) : k = 8 + m \/ k = 9 + m
    BY <1>0, <1>1
  <2> QED BY <1>1, <1>6, <2>1, RadioValues DEF IfLast, AboutIf
<1>12. DevLast(c, 5, b, "channel", r.channel)
  <2>1. \A k \in 5 + 1 .. Len(c) : (m = 1 /\ k = 6) \/ k = 6 + m \/ k = 7 + m \/ k = 8 + m \/ k = 9 + m
    BY <1>0, <1>1
  <2> QED BY <1>1, <1>6, <2>1, RadioValues DEF DevLast, AboutDev
<1>13. DevLast(c, 6 + m, b, "ht", Width(r.ht))
  <2>1. \A k \in 6 + m + 1 .. Len(c) : k = 7 + m \/ k = 8 + m \/ k = 9 + m
    BY <1>0, <1>1
  <2> QED BY <1>1, <1>6, <2>1, RadioValues DEF DevLast, AboutDev
<1>14. ASSUME m = 1 PROVE DevLast(c, 6, b, "require", q)
  <2>1. \A k \in 6 + 1 .. Len(c) : k = 6 + m \/ k = 7 + m \/ k = 8 + m \/ k = 9 + m
    BY <1>1, <1>14
  <2> QED BY <1>1, <1>6, <1>a, <1>14, <2>1, RadioValues DEF DevLast, AboutDev
<1> QED BY <1>5, <1>7, <1>8, <1>9, <1>10, <1>11, <1>12, <1>13, <1>14 DEF b

LEMMA HarmlessAlong ==
  ASSUME NEW s, WifiUp(s), NEW cmds, HarmlessPlan(cmds)
  PROVE  WifiAlong(s, cmds)
<1>1. Len(cmds) \in Nat /\ Len(cmds) \in 0 .. Len(cmds) /\ \A k \in 1 .. Len(cmds) : Harmless(cmds[k])
  BY DEF HarmlessPlan
<1> QED BY <1>1, HarmlessRun DEF WifiAlong

\* What the file and the radio have at the end of an edit.
LEMMA GuestEditDone ==
  ASSUME NEW s, WifiUp(s), NEW c, NEW r, NEW ev, EditOK(r, ev), GuestList(c, r, ev)
  PROVE  /\ WifiAlong(s, c)
         /\ Current(WifiRun(s, c)[Len(c)]) /\ IfaceSays(WifiRun(s, c)[Len(c)].file, r, ev)
<1> DEFINE u == WifiRun(s, c)[Len(c)]
<1>1. HarmlessPlan(c) /\ r.name \in Ifaces /\ Len(c) = 6
  BY GuestListHarmless DEF EditOK, GuestList
<1>2. WifiAlong(s, c)
  BY <1>1, HarmlessAlong
<1>3. Saved(u) /\ Current(u)
  <2>1. c[5] = WifiCommit("wireless") /\ c[6] = ReloadCommand
    BY DEF GuestList
  <2>2. 6 \in Nat /\ 6 >= 2 /\ 6 - 1 = 5
    OBVIOUS
  <2> QED BY <1>1, <1>2, <2>1, <2>2, CommittedAndReloaded
<1>4. /\ u.staged.ifc[r.name]["enc"] = ev.enc /\ u.staged.ifc[r.name]["key"] = r.key
      /\ u.staged.ifc[r.name]["sae"] = ev.sae /\ u.staged.ifc[r.name]["hidden"] = r.hidden
  <2>1. 1 \in 1 .. Len(c) /\ 2 \in 1 .. Len(c) /\ 3 \in 1 .. Len(c) /\ 4 \in 1 .. Len(c)
    BY <1>1
  <2>2. /\ IfLast(c, 1, r.name, "enc", ev.enc) /\ IfLast(c, 2, r.name, "key", r.key)
        /\ IfLast(c, 3, r.name, "sae", ev.sae) /\ IfLast(c, 4, r.name, "hidden", r.hidden)
    BY GuestListHarmless
  <2>3. HarmlessPlan(c) /\ r.name \in Ifaces
    BY <1>1
  <2> QED BY <2>1, <2>2, <2>3, IfLastCounts
<1> HIDE DEF u
<1>5. IfaceSays(u.file, r, ev)
  BY <1>3, <1>4 DEF IfaceSays, Saved
<1> QED BY <1>2, <1>3, <1>5 DEF u

LEMMA EditDone ==
  ASSUME NEW s, WifiUp(s), NEW c, NEW r, NEW ev, EditOK(r, ev), RadioOK(r), NEW m \in {0, 1}, EditList(c, r, ev, m),
         NEW q \in Requires, m = 1 => c[6] = SetDev(BandOf(r.name), "require", q)
  PROVE  /\ WifiAlong(s, c)
         /\ Current(WifiRun(s, c)[Len(c)]) /\ IfaceSays(WifiRun(s, c)[Len(c)].file, r, ev)
         /\ RadioSays(WifiRun(s, c)[Len(c)].file, r) /\ (m = 1 => RequireSays(WifiRun(s, c)[Len(c)].file, r, q))
<1> DEFINE u == WifiRun(s, c)[Len(c)]
           b == BandOf(r.name)
<1>1. HarmlessPlan(c) /\ r.name \in Ifaces /\ b \in Bands /\ Len(c) = 9 + m
  <2>1. HarmlessPlan(c)
    BY EditListHarmless
  <2>2. r.name \in Ifaces /\ Len(c) = 9 + m
    BY DEF EditOK, EditList
  <2> QED BY <2>1, <2>2, GuestsAre
<1>2. WifiAlong(s, c)
  BY <1>1, HarmlessAlong
<1>3. Saved(u) /\ Current(u)
  <2>1. c[8 + m] = WifiCommit("wireless") /\ c[9 + m] = ReloadCommand
    BY DEF EditList
  <2>2. 9 + m \in Nat /\ 9 + m >= 2 /\ (9 + m) - 1 = 8 + m
    OBVIOUS
  <2> QED BY <1>1, <1>2, <2>1, <2>2, CommittedAndReloaded
<1>4. /\ u.staged.ifc[r.name]["enc"] = ev.enc /\ u.staged.ifc[r.name]["key"] = r.key
      /\ u.staged.ifc[r.name]["sae"] = ev.sae /\ u.staged.ifc[r.name]["hidden"] = r.hidden
      /\ u.staged.ifc[r.name]["network"] = r.network
  <2>1. 1 \in 1 .. Len(c) /\ 2 \in 1 .. Len(c) /\ 3 \in 1 .. Len(c) /\ 4 \in 1 .. Len(c) /\ 7 + m \in 1 .. Len(c)
    BY <1>1
  <2>2. /\ IfLast(c, 1, r.name, "enc", ev.enc) /\ IfLast(c, 2, r.name, "key", r.key)
        /\ IfLast(c, 3, r.name, "sae", ev.sae) /\ IfLast(c, 4, r.name, "hidden", r.hidden)
        /\ IfLast(c, 7 + m, r.name, "network", r.network)
    BY EditListHarmless
  <2> QED BY <1>1, <2>1, <2>2, IfLastCounts
<1>5. /\ u.staged.dev[b]["channel"] = r.channel /\ u.staged.dev[b]["ht"] = Width(r.ht)
      /\ m = 1 => u.staged.dev[b]["require"] = q
  <2>1. 5 \in 1 .. Len(c) /\ 6 + m \in 1 .. Len(c) /\ 6 \in 1 .. Len(c)
    BY <1>1
  <2>2. /\ DevLast(c, 5, b, "channel", r.channel) /\ DevLast(c, 6 + m, b, "ht", Width(r.ht))
        /\ m = 1 => DevLast(c, 6, b, "require", q)
    BY EditListHarmless
  <2> QED BY <1>1, <2>1, <2>2, DevLastCounts
<1> HIDE DEF u
<1>6. IfaceSays(u.file, r, ev) /\ RadioSays(u.file, r) /\ (m = 1 => RequireSays(u.file, r, q))
  BY <1>3, <1>4, <1>5 DEF IfaceSays, RadioSays, RequireSays, Saved
<1> QED BY <1>2, <1>3, <1>6 DEF u

-----------------------------------------------------------------------------
(* Wireless: the drivers' conversions and back                             *)

IsDriver(w) == w = NewGLinetMT3000Wifi \/ w = NewQcaWifi \/ w = NewZX30000Wifi
IsQca(w) == w.type = "qcawificfg80211"

LEMMA DriversAre ==
  /\ Len(Drivers) = 3 /\ \A n \in 1 .. Len(Drivers) : IsDriver(Drivers[n])
  /\ NewQcaWifi.type = "qcawificfg80211" /\ NewZX30000Wifi.type = "mt7981" /\ NewGLinetMT3000Wifi.type = "mtk"
<1>1. NewQcaWifi.type = "qcawificfg80211" /\ NewZX30000Wifi.type = "mt7981" /\ NewGLinetMT3000Wifi.type = "mtk"
  BY DEF NewQcaWifi, NewZX30000Wifi, NewGLinetMT3000Wifi
<1>2. Len(Drivers) = 3 /\ Drivers[1] = NewGLinetMT3000Wifi /\ Drivers[2] = NewQcaWifi /\ Drivers[3] = NewZX30000Wifi
  BY DEF Drivers
<1>3. \A n \in 1 .. Len(Drivers) : n = 1 \/ n = 2 \/ n = 3
  BY <1>2
<1> QED BY <1>1, <1>2, <1>3 DEF IsDriver

LEMMA IndexIs ==
  ASSUME NEW seq, NEW x, DOMAIN seq \subseteq Nat \ {0}
  PROVE  /\ IndexOf(seq, x) # 0 => IndexOf(seq, x) \in DOMAIN seq /\ seq[IndexOf(seq, x)] = x
         /\ IndexOf(seq, x) = 0 => \A n \in DOMAIN seq : seq[n] # x
<1>1. CASE \E n \in DOMAIN seq : seq[n] = x
  <2> DEFINE k == CHOOSE n \in DOMAIN seq : seq[n] = x
  <2>1. IndexOf(seq, x) = k
    BY <1>1 DEF IndexOf
  <2>2. k \in DOMAIN seq /\ seq[k] = x
    BY <1>1
  <2> HIDE DEF k
  <2> QED BY <2>1, <2>2
<1>2. CASE ~\E n \in DOMAIN seq : seq[n] = x
  <2>1. IndexOf(seq, x) = 0
    BY <1>2 DEF IndexOf
  <2> QED BY <1>2, <2>1
<1> QED BY <1>1, <1>2

\* The values of the drivers' tables.
LEMMA EncValuesAre ==
  /\ \A w : IsDriver(w) => \A k \in DOMAIN w.vals : w.vals[k] \in EncValues
  /\ {"none", "psk2+ccmp", "psk-mixed+ccmp", "ccmp"} \subseteq EncValues
<1>1. Drivers[1] = NewGLinetMT3000Wifi /\ Drivers[2] = NewQcaWifi /\ Drivers[3] = NewZX30000Wifi
  BY DEF Drivers
<1>2. \A n \in 1 .. Len(Drivers) : \A k \in DOMAIN Drivers[n].vals : Drivers[n].vals[k] \in EncValues
  BY DEF EncValues
<1>3. 1 \in 1 .. Len(Drivers) /\ 2 \in 1 .. Len(Drivers) /\ 3 \in 1 .. Len(Drivers)
  BY DriversAre
<1>4. \A w : IsDriver(w) => \A k \in DOMAIN w.vals : w.vals[k] \in EncValues
  BY <1>1, <1>2, <1>3 DEF IsDriver
<1> DEFINE v == NewQcaWifi.vals
<1>5. v = <<"none", "psk2+ccmp", "psk-mixed+ccmp", "ccmp">>
  BY DEF NewQcaWifi
<1>6. \A k \in DOMAIN v : v[k] \in EncValues
  BY <1>4 DEF IsDriver
<1> HIDE DEF v
<1>7. 1 \in DOMAIN v /\ 2 \in DOMAIN v /\ 3 \in DOMAIN v /\ 4 \in DOMAIN v
  BY <1>5
<1>8. v[1] = "none" /\ v[2] = "psk2+ccmp" /\ v[3] = "psk-mixed+ccmp" /\ v[4] = "ccmp"
  BY <1>5
<1>9. {"none", "psk2+ccmp", "psk-mixed+ccmp", "ccmp"} \subseteq EncValues
  BY <1>6, <1>7, <1>8
<1> QED BY <1>4, <1>9

\* A table from titles to values and back.
Table(w) ==
  /\ \E n \in Nat : DOMAIN w.titles = 1 .. n /\ DOMAIN w.vals = 1 .. n
  /\ \A i, j \in DOMAIN w.vals : w.vals[i] = w.vals[j] => i = j
  /\ \A i \in DOMAIN w.vals : w.vals[i] \in EncValues

LEMMA MtkTables == Table(NewGLinetMT3000Wifi) /\ Table(NewZX30000Wifi)
<1>1. Table(NewZX30000Wifi)
  <2> DEFINE t == NewZX30000Wifi.titles
             v == NewZX30000Wifi.vals
  <2>1. t = <<"OPEN", "WPA/WPA2-PSK", "WPA2-PSK/WPA3-SEA">> /\ v = <<"none", "mixed-psk", "wpa2pskwpa3psk">>
    BY DEF NewZX30000Wifi
  <2> HIDE DEF t, v
  <2>2. DOMAIN t = 1 .. 3 /\ DOMAIN v = 1 .. 3
    BY <2>1
  <2>3. \A i \in 1 .. 3 : i = 1 \/ i = 2 \/ i = 3
    OBVIOUS
  <2>4. v[1] = "none" /\ v[2] = "mixed-psk" /\ v[3] = "wpa2pskwpa3psk"
    BY <2>1
  <2>5. \A i, j \in 1 .. 3 : v[i] = v[j] => i = j
    BY <2>3, <2>4
  <2>6. \A i \in 1 .. 3 : v[i] \in EncValues
    BY <2>2, EncValuesAre DEF IsDriver, v
  <2>7. 3 \in Nat
    OBVIOUS
  <2> QED BY <2>2, <2>5, <2>6, <2>7 DEF Table, t, v
<1>2. Table(NewGLinetMT3000Wifi)
  <2> DEFINE t == NewGLinetMT3000Wifi.titles
             v == NewGLinetMT3000Wifi.vals
  <2>1. /\ t = <<"OPEN", "WPA2-PSK", "WPA/WPA2-PSK", "WPA3-SAE", "WPA2-PSK/WPA3-SEA">>
        /\ v = <<"none", "psk2", "psk-mixed", "sae", "sae-mixed">>
    BY DEF NewGLinetMT3000Wifi
  <2> HIDE DEF t, v
  <2>2. DOMAIN t = 1 .. 5 /\ DOMAIN v = 1 .. 5
    BY <2>1
  <2>3. \A i \in 1 .. 5 : i = 1 \/ i = 2 \/ i = 3 \/ i = 4 \/ i = 5
    OBVIOUS
  <2>4. v[1] = "none" /\ v[2] = "psk2" /\ v[3] = "psk-mixed" /\ v[4] = "sae" /\ v[5] = "sae-mixed"
    BY <2>1
  <2>5. \A i, j \in 1 .. 5 : v[i] = v[j] => i = j
    BY <2>3, <2>4
  <2>6. \A i \in 1 .. 5 : v[i] \in EncValues
    BY <2>2, EncValuesAre DEF IsDriver, v
  <2>7. 5 \in Nat
    OBVIOUS
  <2> QED BY <2>2, <2>5, <2>6, <2>7 DEF Table, t, v
<1> QED BY <1>1, <1>2

\* The value of a title is shown as that title.
LEMMA MtkTitleBack ==
  ASSUME NEW w, Table(w), NEW t
  PROVE  /\ IndexOf(w.titles, t) # 0 => MtkValue2Title(w, MtkTitle2Value(w, t).enc) = t
         /\ MtkTitle2Value(w, t).enc \in EncValues /\ MtkTitle2Value(w, t).sae \in BOOLEAN
<1>0. PICK n \in Nat : DOMAIN w.titles = 1 .. n /\ DOMAIN w.vals = 1 .. n
  BY DEF Table
<1> DEFINE i == IndexOf(w.titles, t)
           e == MtkTitle2Value(w, t).enc
<1>1. MtkTitle2Value(w, t).sae \in BOOLEAN /\ e = IF i = 0 THEN "none" ELSE w.vals[i]
  BY DEF MtkTitle2Value
<1>2. i # 0 => i \in 1 .. n /\ w.titles[i] = t
  BY <1>0, IndexIs
<1>3. e \in EncValues
  <2>1. CASE i = 0
    BY <1>1, <2>1, EncValuesAre
  <2>2. CASE i # 0
    BY <1>0, <1>1, <1>2, <2>2 DEF Table
  <2> QED BY <2>1, <2>2
<1> HIDE DEF e, i
<1>4. ASSUME i # 0 PROVE MtkValue2Title(w, e) = t
  <2> DEFINE k == IndexOf(w.vals, e)
  <2>1. i \in 1 .. n /\ e = w.vals[i]
    BY <1>1, <1>2, <1>4
  <2>2. k # 0 /\ k \in 1 .. n /\ w.vals[k] = e
    BY <1>0, <2>1, IndexIs
  <2>3. MtkValue2Title(w, e) = w.titles[k]
    BY <2>2 DEF MtkValue2Title
  <2> HIDE DEF k
  <2>4. k = i
    BY <1>0, <2>1, <2>2 DEF Table
  <2> QED BY <1>2, <1>4, <2>3, <2>4
<1> QED BY <1>1, <1>3, <1>4 DEF e, i

QcaValue(e, b) == [enc |-> e, sae |-> b]

LEMMA QcaValueIs ==
  ASSUME NEW e, NEW b \in BOOLEAN
  PROVE  QcaValue(e, b).enc = e /\ QcaValue(e, b).sae = b
BY DEF QcaValue

LEMMA QcaValues ==
  /\ QcaEncryptTitle2Value("WPA2-PSK") = QcaValue("psk2+ccmp", FALSE)
  /\ QcaEncryptTitle2Value("WPA/WPA2-PSK") = QcaValue("psk-mixed+ccmp", FALSE)
  /\ QcaEncryptTitle2Value("WPA3-SAE") = QcaValue("ccmp", TRUE)
  /\ QcaEncryptTitle2Value("WPA2-PSK/WPA3-SEA") = QcaValue("psk2+ccmp", TRUE)
  /\ \A t : t \notin {"WPA2-PSK", "WPA/WPA2-PSK", "WPA3-SAE", "WPA2-PSK/WPA3-SEA"} =>
        QcaEncryptTitle2Value(t) = QcaValue("none", FALSE)
<1>1. QcaEncryptTitle2Value("WPA2-PSK") = QcaValue("psk2+ccmp", FALSE)
  BY Zenon DEF QcaEncryptTitle2Value, QcaValue
<1>2. QcaEncryptTitle2Value("WPA/WPA2-PSK") = QcaValue("psk-mixed+ccmp", FALSE)
  BY Zenon DEF QcaEncryptTitle2Value, QcaValue
<1>3. QcaEncryptTitle2Value("WPA3-SAE") = QcaValue("ccmp", TRUE)
  BY Zenon DEF QcaEncryptTitle2Value, QcaValue
<1>4. QcaEncryptTitle2Value("WPA2-PSK/WPA3-SEA") = QcaValue("psk2+ccmp", TRUE)
  BY Zenon DEF QcaEncryptTitle2Value, QcaValue
<1>5. \A t : t \notin {"WPA2-PSK", "WPA/WPA2-PSK", "WPA3-SAE", "WPA2-PSK/WPA3-SEA"} =>
        QcaEncryptTitle2Value(t) = QcaValue("none", FALSE)
  BY Zenon DEF QcaEncryptTitle2Value, QcaValue
<1> QED BY <1>1, <1>2, <1>3, <1>4, <1>5, Zenon

LEMMA QcaTitleBack ==
  ASSUME NEW t
  PROVE  /\ IndexOf(NewQcaWifi.titles, t) # 0 =>
              QcaEncryptValue2Title(QcaEncryptTitle2Value(t).enc, QcaEncryptTitle2Value(t).sae) = t
         /\ QcaEncryptTitle2Value(t).enc \in EncValues /\ QcaEncryptTitle2Value(t).sae \in BOOLEAN
<1> DEFINE s == NewQcaWifi.titles
<1>1. s = <<"OPEN", "WPA2-PSK", "WPA/WPA2-PSK", "WPA3-SAE", "WPA2-PSK/WPA3-SEA">>
  BY DEF NewQcaWifi
<1> HIDE DEF s
<1>3. ASSUME IndexOf(s, t) # 0 PROVE t \in {"OPEN", "WPA2-PSK", "WPA/WPA2-PSK", "WPA3-SAE", "WPA2-PSK/WPA3-SEA"}
  <2>1. DOMAIN s = 1 .. 5
    BY <1>1
  <2>2. PICK n \in 1 .. 5 : s[n] = t
    BY <1>3, <2>1, IndexIs
  <2>3. n = 1 \/ n = 2 \/ n = 3 \/ n = 4 \/ n = 5
    OBVIOUS
  <2> QED BY <1>1, <2>2, <2>3
\* A title whose value is e with the flag as it is.
<1> DEFINE Has(e, x) == QcaEncryptTitle2Value(t) = QcaValue(e, x) /\ (IndexOf(s, t) # 0 => QcaEncryptValue2Title(e, x) = t)
<1>4. ASSUME NEW e \in EncValues, NEW x \in BOOLEAN, Has(e, x)
      PROVE  /\ IndexOf(s, t) # 0 => QcaEncryptValue2Title(QcaEncryptTitle2Value(t).enc, QcaEncryptTitle2Value(t).sae) = t
             /\ QcaEncryptTitle2Value(t).enc \in EncValues /\ QcaEncryptTitle2Value(t).sae \in BOOLEAN
  BY <1>4, QcaValueIs
<1>5. CASE t = "WPA2-PSK"
  <2>1. Has("psk2+ccmp", FALSE)
    BY <1>5, QcaValues, Zenon DEF QcaEncryptValue2Title
  <2>2. FALSE \in BOOLEAN /\ "psk2+ccmp" \in EncValues
    BY EncValuesAre
  <2> HIDE DEF Has
  <2> QED BY <1>4, <2>1, <2>2, Zenon DEF s
<1>6. CASE t = "WPA/WPA2-PSK"
  <2>1. Has("psk-mixed+ccmp", FALSE)
    BY <1>6, QcaValues, Zenon DEF QcaEncryptValue2Title
  <2>2. FALSE \in BOOLEAN /\ "psk-mixed+ccmp" \in EncValues
    BY EncValuesAre
  <2> HIDE DEF Has
  <2> QED BY <1>4, <2>1, <2>2, Zenon DEF s
<1>7. CASE t = "WPA3-SAE"
  <2>1. Has("ccmp", TRUE)
    BY <1>7, QcaValues, Zenon DEF QcaEncryptValue2Title
  <2>2. TRUE \in BOOLEAN /\ "ccmp" \in EncValues
    BY EncValuesAre
  <2> HIDE DEF Has
  <2> QED BY <1>4, <2>1, <2>2, Zenon DEF s
<1>8. CASE t = "WPA2-PSK/WPA3-SEA"
  <2>1. Has("psk2+ccmp", TRUE)
    BY <1>8, QcaValues, Zenon DEF QcaEncryptValue2Title
  <2>2. TRUE \in BOOLEAN /\ "psk2+ccmp" \in EncValues
    BY EncValuesAre
  <2> HIDE DEF Has
  <2> QED BY <1>4, <2>1, <2>2, Zenon DEF s
<1>9. CASE t \notin {"WPA2-PSK", "WPA/WPA2-PSK", "WPA3-SAE", "WPA2-PSK/WPA3-SEA"}
  <2>1. QcaEncryptTitle2Value(t) = QcaValue("none", FALSE)
    BY <1>9, QcaValues, Zenon
  <2>2. IndexOf(s, t) # 0 => t = "OPEN"
    BY <1>3, <1>9
  <2>3. \A x \in BOOLEAN : QcaEncryptValue2Title("none", x) = "OPEN"
    BY DEF QcaEncryptValue2Title
  <2>4. FALSE \in BOOLEAN /\ "none" \in EncValues
    BY EncValuesAre
  <2>5. Has("none", FALSE)
    BY <2>1, <2>2, <2>3, <2>4, Zenon
  <2> HIDE DEF Has
  <2> QED BY <1>4, <2>4, <2>5, Zenon DEF s
<1>10. t \in {"WPA2-PSK", "WPA/WPA2-PSK", "WPA3-SAE", "WPA2-PSK/WPA3-SEA"} =>
         t = "WPA2-PSK" \/ t = "WPA/WPA2-PSK" \/ t = "WPA3-SAE" \/ t = "WPA2-PSK/WPA3-SEA"
  OBVIOUS
<1> QED BY <1>5, <1>6, <1>7, <1>8, <1>9, <1>10, Zenon

\* The hardware mode, as what it requires and back.
LEMMA HwBack ==
  ASSUME NEW b \in Bands, NEW h
  PROVE  /\ title2Hw2G(h) \in Requires /\ title2Hw5G(h) \in Requires
         /\ IndexOf(NewQcaWifi.hw[b], h) # 0 /\ b = "2g" => hw2G2Title(title2Hw2G(h)) = h
         /\ IndexOf(NewQcaWifi.hw[b], h) # 0 /\ b # "2g" => hw5G2Title(title2Hw5G(h)) = h
<1> DEFINE s == NewQcaWifi.hw[b]
<1>0. EmptyText # "ax" /\ EmptyText # "ac"
  BY Zenon DEF EmptyText
<1>1. title2Hw2G(h) \in Requires /\ title2Hw5G(h) \in Requires
  BY DEF title2Hw2G, title2Hw5G, Requires
<1>2. s = IF b = "2g" THEN <<"11ax/be", "11b/g/n/ax/be">> ELSE <<"11ax/be", "11ac/ax/be", "11a/n/ac/ax/be">>
  BY DEF NewQcaWifi
<1> HIDE DEF s
<1>3. ASSUME IndexOf(s, h) # 0, b = "2g" PROVE hw2G2Title(title2Hw2G(h)) = h
  <2>1. s = <<"11ax/be", "11b/g/n/ax/be">>
    BY <1>2, <1>3
  <2>2. DOMAIN s = 1 .. 2
    BY <2>1
  <2>3. PICK n \in 1 .. 2 : s[n] = h
    BY <1>3, <2>2, IndexIs
  <2>4. n = 1 \/ n = 2
    OBVIOUS
  <2>5. h = "11ax/be" \/ h = "11b/g/n/ax/be"
    BY <2>1, <2>3, <2>4
  <2> QED BY <1>0, <2>5 DEF title2Hw2G, hw2G2Title
<1>4. ASSUME IndexOf(s, h) # 0, b # "2g" PROVE hw5G2Title(title2Hw5G(h)) = h
  <2>1. s = <<"11ax/be", "11ac/ax/be", "11a/n/ac/ax/be">>
    BY <1>2, <1>4
  <2>2. DOMAIN s = 1 .. 3
    BY <2>1
  <2>3. PICK n \in 1 .. 3 : s[n] = h
    BY <1>4, <2>2, IndexIs
  <2>4. n = 1 \/ n = 2 \/ n = 3
    OBVIOUS
  <2>5. h = "11ax/be" \/ h = "11ac/ax/be" \/ h = "11a/n/ac/ax/be"
    BY <2>1, <2>3, <2>4
  <2> QED BY <1>0, <2>5 DEF title2Hw5G, hw5G2Title
<1> QED BY <1>1, <1>3, <1>4 DEF s

\* The other drivers have one mode for each band.
LEMMA OneMode ==
  ASSUME NEW w, w = NewGLinetMT3000Wifi \/ w = NewZX30000Wifi, NEW b \in Bands, NEW h, IndexOf(w.hw[b], h) # 0
  PROVE  Head(w.hw[b]) = h
<1>1. \E x : w.hw[b] = <<x>>
  <2>1. \E x : NewZX30000Wifi.hw[b] = <<x>>
    BY DEF NewZX30000Wifi
  <2>2. \E x : NewGLinetMT3000Wifi.hw[b] = <<x>>
    BY DEF NewGLinetMT3000Wifi
  <2> QED BY <2>1, <2>2
<1>2. PICK x : w.hw[b] = <<x>>
  BY <1>1
<1>3. DOMAIN <<x>> = 1 .. 1 /\ <<x>>[1] = x /\ Head(<<x>>) = x
  OBVIOUS
<1> DEFINE s == <<x>>
<1> HIDE DEF s
<1>4. \E n \in 1 .. 1 : s[n] = h
  BY <1>2, <1>3, IndexIs DEF s
<1>5. \A n \in 1 .. 1 : n = 1
  OBVIOUS
<1>6. s[1] = h
  BY <1>4, <1>5
<1> QED BY <1>2, <1>3, <1>6 DEF s

\* The power that is asked for, in the driver's unit and back.
LEMMA PowerBack ==
  ASSUME NEW p \in {30, 50, 70, 100}
  PROVE  /\ webPowerVal2UciPowerVal(p) \in 1 .. 100 /\ uciPowerVal2WebPowerVal(webPowerVal2UciPowerVal(p)) = p
BY DEF webPowerVal2UciPowerVal, uciPowerVal2WebPowerVal

-----------------------------------------------------------------------------
(* Wireless: what is shown                                                 *)

TitleShown(w, i) == IF IsQca(w) THEN QcaEncryptValue2Title(i.enc, i.sae) ELSE MtkValue2Title(w, i.enc)
HwShown(w, b, d) ==
  IF IsQca(w) THEN IF b = "2g" THEN hw2G2Title(d.require) ELSE hw5G2Title(d.require) ELSE Head(w.hw[b])
PowerShown(w, d) ==
  LET p == IF d.power <= 0 \/ d.power > 100 THEN 100 ELSE d.power
  IN  IF IsQca(w) THEN uciPowerVal2WebPowerVal(p) ELSE p

LEMMA ShownIs ==
  \A s, i, title, ht, hw, power, off :
    /\ Shown(s, i, title, ht, hw, power, off).name = i
    /\ Shown(s, i, title, ht, hw, power, off).key = s.ifc[i].key
    /\ Shown(s, i, title, ht, hw, power, off).enc = title
    /\ Shown(s, i, title, ht, hw, power, off).hidden = (s.ifc[i].there /\ s.ifc[i].hidden)
    /\ Shown(s, i, title, ht, hw, power, off).network = IF s.ifc[i].there THEN s.ifc[i].network ELSE "lan"
    /\ Shown(s, i, title, ht, hw, power, off).channel = s.dev[BandOf(i)].channel
    /\ Shown(s, i, title, ht, hw, power, off).ht = ht
    /\ Shown(s, i, title, ht, hw, power, off).hw = hw
    /\ Shown(s, i, title, ht, hw, power, off).power = power
    /\ Shown(s, i, title, ht, hw, power, off).off = off
    /\ DOMAIN Shown(s, i, title, ht, hw, power, off)
         = {"name", "key", "enc", "hidden", "network", "channel", "ht", "hw", "power", "off"}
BY DEF Shown

\* Each driver shows an interface this way, with a title, a mode and a power of its own.
LEMMA InfoIs ==
  ASSUME NEW w, IsDriver(w), NEW s, NEW i
  PROVE  \E title, hw, power, off :
           /\ WirelessInfo(w, s, i) = Shown(s, i, title, ShownHt(s, BandOf(i)), hw, power, off)
           /\ s.ifc[i].there => title = TitleShown(w, s.ifc[i])
           /\ hw = HwShown(w, BandOf(i), s.dev[BandOf(i)])
           /\ power = PowerShown(w, s.dev[BandOf(i)])
<1>1. CASE w = NewQcaWifi
  <2>1. WirelessInfo(w, s, i) = QcaWirelessInfo(s, i) /\ IsQca(w)
    BY <1>1, DriversAre DEF WirelessInfo, IsQca
  <2>2. \E title, hw, power, off :
           /\ QcaWirelessInfo(s, i) = Shown(s, i, title, ShownHt(s, BandOf(i)), hw, power, off)
           /\ s.ifc[i].there => title = TitleShown(w, s.ifc[i])
           /\ hw = HwShown(w, BandOf(i), s.dev[BandOf(i)])
           /\ power = PowerShown(w, s.dev[BandOf(i)])
    <3> HIDE DEF IsQca
    <3> QED BY <2>1, Zenon DEF QcaWirelessInfo, TitleShown, HwShown, PowerShown
  <2> QED BY <2>1, <2>2
<1>2. ASSUME NEW v, v = NewZX30000Wifi \/ v = NewGLinetMT3000Wifi, w = v
      PROVE  \E title, hw, power, off :
           /\ WirelessInfo(w, s, i) = Shown(s, i, title, ShownHt(s, BandOf(i)), hw, power, off)
           /\ s.ifc[i].there => title = TitleShown(w, s.ifc[i])
           /\ hw = HwShown(w, BandOf(i), s.dev[BandOf(i)])
           /\ power = PowerShown(w, s.dev[BandOf(i)])
  <2>1. ~IsQca(w)
    BY <1>2, DriversAre DEF IsQca
  <2> DEFINE title == IF s.ifc[i].there THEN MtkValue2Title(w, s.ifc[i].enc) ELSE None
             d == s.dev[BandOf(i)]
             power == IF d.power <= 0 \/ d.power > 100 THEN 100 ELSE d.power
             off == ~s.ifc[i].there \/ IfaceOff(s, i)
  <2>2. WirelessInfo(w, s, i) = Shown(s, i, title, ShownHt(s, BandOf(i)), Head(w.hw[BandOf(i)]), power, off)
    <3>1. CASE w = NewZX30000Wifi
      <4>1. WirelessInfo(w, s, i) = ZXWirelessInfo(s, i)
        BY <3>1, DriversAre DEF WirelessInfo
      <4> QED BY <3>1, <4>1, Zenon DEF ZXWirelessInfo, MtkWirelessInfo, ZXEncryptValue2Title
    <3>2. CASE w = NewGLinetMT3000Wifi
      <4>1. WirelessInfo(w, s, i) = MTWirelessInfo(s, i)
        BY <3>2, DriversAre DEF WirelessInfo
      <4> QED BY <3>2, <4>1, Zenon DEF MTWirelessInfo, MtkWirelessInfo, MTEncryptValue2Title
    <3> QED BY <1>2, <3>1, <3>2
  <2>3. /\ s.ifc[i].there => title = TitleShown(w, s.ifc[i])
        /\ Head(w.hw[BandOf(i)]) = HwShown(w, BandOf(i), s.dev[BandOf(i)])
        /\ power = PowerShown(w, s.dev[BandOf(i)])
    BY <2>1, Zenon DEF TitleShown, HwShown, PowerShown
  <2> HIDE DEF title, power, off
  <2> QED BY <2>2, <2>3, Zenon
<1> QED BY <1>1, <1>2 DEF IsDriver

\* The form: what the page can send of an interface that is there.
FormOK(r) ==
  /\ r.name \in Ifaces /\ r.key \in WifiKeys /\ r.hidden \in BOOLEAN
  /\ r.channel \in {"auto", "6"} /\ r.network \in {"lan", "guest"}

LEMMA ShownOK ==
  ASSUME NEW w, IsDriver(w), NEW s \in Config, NEW i \in Ifaces
  PROVE  /\ FormOK(WirelessInfo(w, s, i)) /\ WirelessInfo(w, s, i).name = i
         /\ DOMAIN WirelessInfo(w, s, i) = {"name", "key", "enc", "hidden", "network", "channel", "ht", "hw", "power", "off"}
<1>1. PICK title, hw, power, off : WirelessInfo(w, s, i) = Shown(s, i, title, ShownHt(s, BandOf(i)), hw, power, off)
  BY InfoIs
<1>2. BandOf(i) \in Bands
  BY GuestsAre
<1>3. s.ifc[i] \in IfRec /\ s.dev[BandOf(i)] \in DevRec
  BY <1>2, CfgIs DEF WDev, WIfc
<1>4. s.ifc[i].key \in WifiKeys /\ s.ifc[i].hidden \in BOOLEAN /\ s.ifc[i].there \in BOOLEAN /\ s.ifc[i].network \in {"lan", "guest"}
  BY <1>3 DEF IfRec
<1>5. s.dev[BandOf(i)].channel \in {"auto", "6"} /\ s.dev[BandOf(i)].ht \in {"20", "40", "80", "160"}
  BY <1>3 DEF DevRec
<1> DEFINE x == WirelessInfo(w, s, i)
<1>7. /\ x.name = i /\ x.key = s.ifc[i].key /\ x.hidden = (s.ifc[i].there /\ s.ifc[i].hidden)
      /\ x.network = (IF s.ifc[i].there THEN s.ifc[i].network ELSE "lan") /\ x.channel = s.dev[BandOf(i)].channel
      /\ DOMAIN x = {"name", "key", "enc", "hidden", "network", "channel", "ht", "hw", "power", "off"}
  <2> DEFINE y == Shown(s, i, title, ShownHt(s, BandOf(i)), hw, power, off)
  <2>1. /\ y.name = i /\ y.key = s.ifc[i].key /\ y.enc = title /\ y.hidden = (s.ifc[i].there /\ s.ifc[i].hidden)
        /\ y.network = (IF s.ifc[i].there THEN s.ifc[i].network ELSE "lan") /\ y.channel = s.dev[BandOf(i)].channel
        /\ y.ht = ShownHt(s, BandOf(i)) /\ y.hw = hw
        /\ DOMAIN y = {"name", "key", "enc", "hidden", "network", "channel", "ht", "hw", "power", "off"}
    BY ShownIs
  <2>2. x = y
    BY <1>1
  <2> HIDE DEF x, y
  <2> QED BY <2>1, <2>2
<1> HIDE DEF x
<1>8. x.hidden \in BOOLEAN /\ x.network \in {"lan", "guest"}
  BY <1>4, <1>7
<1> QED BY <1>4, <1>5, <1>7, <1>8 DEF FormOK, x

\* What is in the file is shown.
LEMMA ShowsFile ==
  ASSUME NEW w, IsDriver(w), NEW s \in Config, NEW i \in Ifaces, s.ifc[i].there
  PROVE  LET x == WirelessInfo(w, s, i)
         IN  /\ x.enc = TitleShown(w, s.ifc[i]) /\ x.key = s.ifc[i].key /\ x.hidden = s.ifc[i].hidden
             /\ Width(x.ht) = s.dev[BandOf(i)].ht /\ x.hw = HwShown(w, BandOf(i), s.dev[BandOf(i)])
             /\ x.channel = s.dev[BandOf(i)].channel /\ x.network = s.ifc[i].network
<1>1. PICK title, hw, power, off : /\ WirelessInfo(w, s, i) = Shown(s, i, title, ShownHt(s, BandOf(i)), hw, power, off)
                                   /\ title = TitleShown(w, s.ifc[i])
                                   /\ hw = HwShown(w, BandOf(i), s.dev[BandOf(i)])
  BY InfoIs
<1> DEFINE x == WirelessInfo(w, s, i)
<1>7. /\ x.key = s.ifc[i].key /\ x.hidden = (s.ifc[i].there /\ s.ifc[i].hidden)
      /\ x.network = (IF s.ifc[i].there THEN s.ifc[i].network ELSE "lan") /\ x.channel = s.dev[BandOf(i)].channel
      /\ x.ht = ShownHt(s, BandOf(i)) /\ x.enc = title /\ x.hw = hw
  <2> DEFINE y == Shown(s, i, title, ShownHt(s, BandOf(i)), hw, power, off)
  <2>1. /\ y.name = i /\ y.key = s.ifc[i].key /\ y.enc = title /\ y.hidden = (s.ifc[i].there /\ s.ifc[i].hidden)
        /\ y.network = (IF s.ifc[i].there THEN s.ifc[i].network ELSE "lan") /\ y.channel = s.dev[BandOf(i)].channel
        /\ y.ht = ShownHt(s, BandOf(i)) /\ y.hw = hw
        /\ DOMAIN y = {"name", "key", "enc", "hidden", "network", "channel", "ht", "hw", "power", "off"}
    BY ShownIs
  <2>2. x = y
    BY <1>1
  <2> HIDE DEF x, y
  <2> QED BY <2>1, <2>2
<1> HIDE DEF x
<1>2. s.ifc[i] \in IfRec /\ s.dev[BandOf(i)] \in DevRec
  BY GuestsAre, CfgIs DEF WDev, WIfc
<1>3. s.ifc[i].hidden \in BOOLEAN /\ s.dev[BandOf(i)].ht \in {"20", "40", "80", "160"}
  BY <1>2 DEF IfRec, DevRec
<1>4. Width(ShownHt(s, BandOf(i))) = s.dev[BandOf(i)].ht
  BY <1>3 DEF Width, ShownHt
<1>5. x.hidden = s.ifc[i].hidden /\ x.network = s.ifc[i].network
  BY <1>3, <1>7
<1> QED BY <1>1, <1>4, <1>5, <1>7 DEF x

LEMMA ShowsPower ==
  ASSUME NEW w, IsDriver(w), NEW s, NEW i
  PROVE  WirelessInfo(w, s, i).power = PowerShown(w, s.dev[BandOf(i)])
<1>1. PICK title, hw, power, off : /\ WirelessInfo(w, s, i) = Shown(s, i, title, ShownHt(s, BandOf(i)), hw, power, off)
                                   /\ power = PowerShown(w, s.dev[BandOf(i)])
  BY InfoIs
<1> QED BY <1>1, ShownIs

-----------------------------------------------------------------------------
(* Wireless: the plans of the drivers                                      *)

LEMMA WifiPlansAre ==
  /\ \A c : Planned(c).cmds = c /\ Planned(c).ok
  /\ Refused.cmds = <<>> /\ ~Refused.ok
BY Zenon DEF Planned, Refused

\* The value, with its flag, of the title that is asked for.
ValueOf(w, r, ev) ==
  /\ ev.enc \in EncValues /\ ev.sae \in BOOLEAN
  /\ IndexOf(w.titles, r.enc) # 0 => \A i : i.enc = ev.enc /\ i.sae = ev.sae => TitleShown(w, i) = r.enc
\* c is the plan of an edit; m, q: what the driver keeps of the hardware mode.
EditOf(w, s, r, c, ev, m, q) ==
  /\ ValueOf(w, r, ev) /\ s.ifc[r.name].there /\ r.ht \in Htmodes
  /\ m \in {0, 1} /\ q \in Requires /\ EditList(c, r, ev, m)
  /\ m = 1 => c[6] = SetDev(BandOf(r.name), "require", q)
  /\ \A d : (m = 1 => d.require = q) => HwShown(w, BandOf(r.name), d) = r.hw

LEMMA ValuesAre ==
  ASSUME NEW r
  PROVE  /\ ValueOf(NewQcaWifi, r, QcaEncryptTitle2Value(r.enc))
         /\ ValueOf(NewZX30000Wifi, r, MtkTitle2Value(NewZX30000Wifi, r.enc))
         /\ ValueOf(NewGLinetMT3000Wifi, r, MtkTitle2Value(NewGLinetMT3000Wifi, r.enc))
<1>1. ValueOf(NewQcaWifi, r, QcaEncryptTitle2Value(r.enc))
  <2> DEFINE ev == QcaEncryptTitle2Value(r.enc)
  <2>1. /\ ev.enc \in EncValues /\ ev.sae \in BOOLEAN
        /\ IndexOf(NewQcaWifi.titles, r.enc) # 0 => QcaEncryptValue2Title(ev.enc, ev.sae) = r.enc
    BY QcaTitleBack
  <2>2. IsQca(NewQcaWifi)
    BY DriversAre DEF IsQca
  <2> HIDE DEF ev
  <2>3. \A i : i.enc = ev.enc /\ i.sae = ev.sae => TitleShown(NewQcaWifi, i) = QcaEncryptValue2Title(ev.enc, ev.sae)
    BY <2>2 DEF TitleShown
  <2>4. ValueOf(NewQcaWifi, r, ev)
    BY <2>1, <2>3 DEF ValueOf
  <2> QED BY <2>4 DEF ev
<1>2. ASSUME NEW w, w = NewZX30000Wifi \/ w = NewGLinetMT3000Wifi PROVE ValueOf(w, r, MtkTitle2Value(w, r.enc))
  <2> DEFINE ev == MtkTitle2Value(w, r.enc)
  <2>0. Table(w)
    BY <1>2, MtkTables
  <2>1. /\ ev.enc \in EncValues /\ ev.sae \in BOOLEAN
        /\ IndexOf(w.titles, r.enc) # 0 => MtkValue2Title(w, ev.enc) = r.enc
    BY <2>0, MtkTitleBack
  <2>2. ~IsQca(w)
    BY <1>2, DriversAre DEF IsQca
  <2> HIDE DEF ev
  <2>3. \A i : i.enc = ev.enc /\ i.sae = ev.sae => TitleShown(w, i) = MtkValue2Title(w, ev.enc)
    BY <2>2 DEF TitleShown
  <2>4. ValueOf(w, r, ev)
    BY <2>1, <2>3 DEF ValueOf
  <2> QED BY <2>4 DEF ev
<1> QED BY <1>1, <1>2

LEMMA MtkEditIs ==
  ASSUME NEW w, w = NewGLinetMT3000Wifi \/ w = NewZX30000Wifi, NEW s, NEW r, r.name \in Ifaces
  PROVE  /\ MtkEditOneIface(w, s, r).ok => \E ev, m, q : EditOf(w, s, r, MtkEditOneIface(w, s, r).cmds, ev, m, q)
         /\ ~MtkEditOneIface(w, s, r).ok => MtkEditOneIface(w, s, r).cmds = <<>>
<1> DEFINE b == BandOf(r.name)
           c == EditCommands(r, MtkTitle2Value(w, r.enc), <<>>)
           refuse == r.ht \notin Htmodes \/ IndexOf(w.hw[b], r.hw) = 0 \/ ~s.ifc[r.name].there
<1>1. CASE refuse
  <2>1. MtkEditOneIface(w, s, r) = Refused
    BY <1>1, Zenon DEF MtkEditOneIface
  <2> QED BY <2>1, WifiPlansAre
<1>2. CASE ~refuse
  <2>1. MtkEditOneIface(w, s, r) = Planned(c)
    BY <1>2, Zenon DEF MtkEditOneIface
  <2>2. ValueOf(w, r, MtkTitle2Value(w, r.enc))
    BY ValuesAre
  <2>3. EditList(c, r, MtkTitle2Value(w, r.enc), 0)
    BY TuplesAre, EditListIs
  <2>4. b \in Bands
    BY GuestsAre
  <2>5. Head(w.hw[b]) = r.hw
    BY <1>2, <2>4, OneMode
  <2>6. ~IsQca(w)
    BY DriversAre DEF IsQca
  <2>7. \A d : HwShown(w, b, d) = r.hw
    BY <2>5, <2>6 DEF HwShown
  <2> HIDE DEF c
  <2>8. EditOf(w, s, r, c, MtkTitle2Value(w, r.enc), 0, EmptyText)
    BY <1>2, <2>2, <2>3, <2>7 DEF EditOf, Requires
  <2> QED BY <2>1, <2>8, WifiPlansAre
<1> QED BY <1>1, <1>2

LEMMA QcaEditIs ==
  ASSUME NEW s, NEW r, r.name \in Ifaces
  PROVE  /\ QcaEditOneIface(s, r).ok => \E ev, m, q : EditOf(NewQcaWifi, s, r, QcaEditOneIface(s, r).cmds, ev, m, q)
         /\ ~QcaEditOneIface(s, r).ok => QcaEditOneIface(s, r).cmds = <<>>
<1> DEFINE b == BandOf(r.name)
           q == IF b = "2g" THEN title2Hw2G(r.hw) ELSE title2Hw5G(r.hw)
           ev == QcaEncryptTitle2Value(r.enc)
           hw == <<SetDev(b, "require", q)>>
           c == EditCommands(r, ev, hw)
           refuse == r.ht \notin Htmodes \/ IndexOf(NewQcaWifi.hw[b], r.hw) = 0 \/ ~s.ifc[r.name].there
<1>1. CASE refuse
  <2>1. QcaEditOneIface(s, r) = Refused
    BY <1>1, Zenon DEF QcaEditOneIface
  <2> QED BY <2>1, WifiPlansAre
<1>2. CASE ~refuse
  <2>1. QcaEditOneIface(s, r) = Planned(c)
    BY <1>2, Zenon DEF QcaEditOneIface
  <2>2. ValueOf(NewQcaWifi, r, ev)
    BY ValuesAre
  <2>3. IsSeq(hw) /\ Len(hw) = 1 /\ hw[1] = SetDev(b, "require", q)
    BY TuplesAre
  <2>4. EditList(c, r, ev, 1) /\ c[6] = SetDev(b, "require", q)
    <3> HIDE DEF hw, ev, q
    <3> QED BY <2>3, EditListIs
  <2>5. b \in Bands
    BY GuestsAre
  <2>6. q \in Requires
    BY <2>5, HwBack
  <2>7. IsQca(NewQcaWifi)
    BY DriversAre DEF IsQca
  <2>8. \A d : d.require = q => HwShown(NewQcaWifi, b, d) = r.hw
    <3>1. CASE b = "2g"
      BY <1>2, <2>5, <2>7, <3>1, HwBack DEF HwShown
    <3>2. CASE b # "2g"
      BY <1>2, <2>5, <2>7, <3>2, HwBack DEF HwShown
    <3> QED BY <3>1, <3>2
  <2> HIDE DEF c, q, ev
  <2>9. EditOf(NewQcaWifi, s, r, c, ev, 1, q)
    BY <1>2, <2>2, <2>4, <2>6, <2>8 DEF EditOf
  <2> QED BY <2>1, <2>9, WifiPlansAre
<1> QED BY <1>1, <1>2

LEMMA EditOneIs ==
  ASSUME NEW w, IsDriver(w), NEW s, NEW r, r.name \in Ifaces
  PROVE  /\ EditOneIface(w, s, r).ok => \E ev, m, q : EditOf(w, s, r, EditOneIface(w, s, r).cmds, ev, m, q)
         /\ ~EditOneIface(w, s, r).ok => EditOneIface(w, s, r).cmds = <<>>
<1>1. CASE w = NewQcaWifi
  <2>1. EditOneIface(w, s, r) = QcaEditOneIface(s, r)
    BY <1>1, DriversAre DEF EditOneIface
  <2> QED BY <1>1, <2>1, QcaEditIs
<1>2. CASE w = NewZX30000Wifi
  <2>1. EditOneIface(w, s, r) = MtkEditOneIface(w, s, r)
    BY <1>2, DriversAre DEF EditOneIface, ZXEditOneIface
  <2> QED BY <1>2, <2>1, MtkEditIs
<1>3. CASE w = NewGLinetMT3000Wifi
  <2>1. EditOneIface(w, s, r) = MtkEditOneIface(w, s, r)
    BY <1>3, DriversAre DEF EditOneIface, MTEditOneIface
  <2> QED BY <1>3, <2>1, MtkEditIs
<1> QED BY <1>1, <1>2, <1>3 DEF IsDriver

\* An edit of the page is refused, one of a guest's own options, or one of an interface and its radio.
LEMMA EditIfaceIs ==
  ASSUME NEW w, IsDriver(w), NEW s, NEW r, r.name \in Ifaces
  PROVE  LET p == EditIface(w, s, r)
         IN  /\ ~p.ok => p.cmds = <<>>
             /\ p.ok => IndexOf(w.titles, r.enc) # 0
             /\ p.ok /\ IsGuest(r.name) => \E ev : ValueOf(w, r, ev) /\ s.ifc[r.name].there /\ GuestList(p.cmds, r, ev)
             /\ p.ok /\ ~IsGuest(r.name) => \E ev, m, q : EditOf(w, s, r, p.cmds, ev, m, q)
<1> DEFINE p == EditIface(w, s, r)
<1>1. \E ev : /\ ValueOf(w, r, ev)
              /\ p = IF IndexOf(w.titles, r.enc) = 0 THEN Refused
                     ELSE IF IsGuest(r.name) THEN EditGuest(s, r, ev) ELSE EditOneIface(w, s, r)
  <2>1. CASE w = NewQcaWifi
    <3>1. p = QcaWirelessEditIface(s, r) /\ EditOneIface(w, s, r) = QcaEditOneIface(s, r)
      BY <2>1, DriversAre DEF EditIface, EditOneIface
    <3>2. ValueOf(w, r, QcaEncryptTitle2Value(r.enc))
      BY <2>1, ValuesAre
    <3> QED BY <2>1, <3>1, <3>2, Zenon DEF QcaWirelessEditIface
  <2>2. CASE w = NewZX30000Wifi
    <3>1. p = ZXWirelessEditIface(s, r) /\ EditOneIface(w, s, r) = ZXEditOneIface(s, r)
      BY <2>2, DriversAre DEF EditIface, EditOneIface
    <3>2. ValueOf(w, r, ZXEncryptTitle2Value(r.enc))
      BY <2>2, ValuesAre DEF ZXEncryptTitle2Value
    <3> QED BY <2>2, <3>1, <3>2, Zenon DEF ZXWirelessEditIface
  <2>3. CASE w = NewGLinetMT3000Wifi
    <3>1. p = MTWirelessEditIface(s, r) /\ EditOneIface(w, s, r) = MTEditOneIface(s, r)
      BY <2>3, DriversAre DEF EditIface, EditOneIface
    <3>2. ValueOf(w, r, MTEncryptTitle2Value(r.enc))
      BY <2>3, ValuesAre DEF MTEncryptTitle2Value
    <3> QED BY <2>3, <3>1, <3>2, Zenon DEF MTWirelessEditIface
  <2> QED BY <2>1, <2>2, <2>3 DEF IsDriver
<1>2. PICK ev : /\ ValueOf(w, r, ev)
                /\ p = IF IndexOf(w.titles, r.enc) = 0 THEN Refused
                       ELSE IF IsGuest(r.name) THEN EditGuest(s, r, ev) ELSE EditOneIface(w, s, r)
  BY <1>1
<1> DEFINE g == EditGuest(s, r, ev)
<1>3. /\ ~g.ok => g.cmds = <<>>
      /\ g.ok => s.ifc[r.name].there /\ GuestList(g.cmds, r, ev)
  <2>1. CASE ~s.ifc[r.name].there
    <3>1. g = Refused
      BY <2>1, Zenon DEF EditGuest
    <3> QED BY <3>1, WifiPlansAre
  <2>2. CASE s.ifc[r.name].there
    <3>1. g = Planned(IfaceCommands(r, ev) \o <<WifiCommit("wireless"), ReloadCommand>>)
      BY <2>2, Zenon DEF EditGuest
    <3>2. GuestList(IfaceCommands(r, ev) \o <<WifiCommit("wireless"), ReloadCommand>>, r, ev)
      BY TuplesAre, EditListIs
    <3> QED BY <2>2, <3>1, <3>2, WifiPlansAre
  <2> QED BY <2>1, <2>2
<1> HIDE DEF p, g
<1>4. CASE IndexOf(w.titles, r.enc) = 0
  <2>1. p = Refused
    BY <1>2, <1>4, Zenon
  <2> QED BY <2>1, WifiPlansAre DEF p
<1>5. CASE IndexOf(w.titles, r.enc) # 0 /\ IsGuest(r.name)
  <2>1. p = g
    BY <1>2, <1>5, Zenon DEF g
  <2> QED BY <1>2, <1>3, <1>5, <2>1 DEF p
<1>6. CASE IndexOf(w.titles, r.enc) # 0 /\ ~IsGuest(r.name)
  <2>1. p = EditOneIface(w, s, r)
    BY <1>2, <1>6, Zenon
  <2> QED BY <1>6, <2>1, EditOneIs DEF p
<1> QED BY <1>4, <1>5, <1>6

-----------------------------------------------------------------------------
(* Wireless: what the plans leave                                          *)

\* What a request leaves that is answered with success, in the file.
EditShown(w, c, name, r) ==
  LET info == WirelessInfo(w, c, name)
  IN  /\ info.enc = r.enc /\ info.key = r.key /\ info.hidden = r.hidden
      /\ ~IsGuest(name) =>
           /\ Width(info.ht) = Width(r.ht) /\ info.hw = r.hw /\ info.channel = r.channel /\ info.network = r.network

LEMMA SidesOK ==
  ASSUME NEW s, WifiUp(s)
  PROVE  /\ s.file \in Config /\ s.staged \in Config /\ s.live \in Config
         /\ Guarded(s.live, s.file.guest) /\ Together(s.file, s.staged)
BY SidesAre DEF WifiUp

\* No request puts an interface there or takes it away.
SameThere(s, u) == \A i \in Ifaces : u.file.ifc[i].there = s.file.ifc[i].there

LEMMA ThereStays ==
  ASSUME NEW s, WifiUp(s), NEW cmds, HarmlessPlan(cmds)
  PROVE  SameThere(s, WifiRun(s, cmds)[Len(cmds)])
<1> DEFINE f == WifiRun(s, cmds)
           n == Len(cmds)
<1>0. n \in Nat /\ f[0] = s /\ (\A k \in 1 .. n : f[k] = RunCommand(f[k - 1], cmds[k])) /\ \A k \in 1 .. n : Harmless(cmds[k])
  BY WifiRunIs DEF HarmlessPlan
<1>1. \A k \in 0 .. n : WifiUp(f[k])
  BY <1>0, HarmlessRun
<1> HIDE DEF f, n
<1>2. SUFFICES ASSUME NEW i \in Ifaces PROVE f[n].file.ifc[i].there = s.file.ifc[i].there
  BY DEF f, n, SameThere
<1>a. \A u : WifiUp(u) => u.staged.ifc[i].there = u.file.ifc[i].there
  BY SidesOK DEF Together
<1> DEFINE G == {k \in Nat : f[k].staged.ifc[i]["there"] = s.file.ifc[i].there}
<1>3. 0 \in G
  BY <1>0, <1>a
<1>4. ASSUME NEW k \in 0 .. n - 1, k \in G PROVE k + 1 \in G
  <2>1. k + 1 \in 1 .. n /\ (k + 1) - 1 = k /\ k + 1 \in Nat /\ k \in 0 .. n
    BY <1>0
  <2>2. f[k + 1] = RunCommand(f[k], cmds[k + 1]) /\ WifiUp(f[k]) /\ Harmless(cmds[k + 1])
    BY <1>0, <1>1, <2>1
  <2>3. ~AboutIf(cmds[k + 1], i, "there")
    <3>1. ASSUME NEW b, NEW o, NEW v, cmds[k + 1] = SetDev(b, o, v) PROVE ~AboutIf(cmds[k + 1], i, "there")
      BY <3>1, FieldsOfCommands DEF AboutIf
    <3>2. ASSUME NEW x, NEW o, NEW v, IfValue(o, v), cmds[k + 1] = SetIf(x, o, v) PROVE ~AboutIf(cmds[k + 1], i, "there")
      BY <3>2, FieldsOfCommands, FieldsAre DEF AboutIf
    <3>3. CASE TailCommand(cmds[k + 1])
      BY <3>3, FieldsOfCommands DEF TailCommand, AboutIf
    <3> QED BY <2>2, <3>1, <3>2, <3>3 DEF Harmless, DevCommand, IfCommand
  <2>4. "there" \in IfFields
    BY DEF IfFields
  <2>5. f[k + 1].staged.ifc[i]["there"] = f[k].staged.ifc[i]["there"]
    BY <2>2, <2>3, <2>4, IfLeft
  <2> QED BY <1>4, <2>1, <2>5
<1>5. n \in G
  <2>1. n \in Nat /\ 0 \in Nat /\ n \in 0 .. n
    BY <1>0
  <2>2. \A k \in 0 .. n - 1 : k \in G => k + 1 \in G
    BY <1>4
  <2> HIDE DEF G
  <2>3. \A k \in 0 .. n : k \in G
    BY <1>3, <2>1, <2>2, GoesOn, Zenon
  <2> QED BY <2>1, <2>3
<1> QED BY <1>0, <1>1, <1>5, <1>a

\* A plan of three commands: a setting, the commit, the reload.
ThreeList(c, x) == IsSeq(c) /\ Len(c) = 3 /\ c[1] = x /\ c[2] = WifiCommit("wireless") /\ c[3] = ReloadCommand

LEMMA ThreeIs == \A x : ThreeList(<<x, WifiCommit("wireless"), ReloadCommand>>, x)
BY TuplesAre DEF ThreeList

LEMMA ThreeHarmless ==
  ASSUME NEW c, NEW x, Harmless(x), ThreeList(c, x), NEW s, WifiUp(s)
  PROVE  /\ HarmlessPlan(c) /\ WifiAlong(s, c) /\ Saved(WifiRun(s, c)[3]) /\ Current(WifiRun(s, c)[3])
         /\ WifiRun(s, c)[1] = RunCommand(s, x) /\ SameStaged(RunCommand(s, x), WifiRun(s, c)[3])
<1>1. c[1] = x /\ c[2] = WifiCommit("wireless") /\ c[3] = ReloadCommand /\ Len(c) = 3
  BY DEF ThreeList
<1>2. \A k \in 1 .. 3 : k = 1 \/ k = 2 \/ k = 3
  OBVIOUS
<1>3. HarmlessPlan(c)
  BY <1>1, <1>2, SettingsAreHarmless DEF HarmlessPlan
<1>4. WifiAlong(s, c)
  BY <1>3, HarmlessAlong
<1>5. 3 \in Nat /\ 3 >= 2 /\ 3 - 1 = 2 /\ 3 - 2 = 1 /\ 1 \in 1 .. 3 /\ 1 - 1 = 0
  OBVIOUS
<1>6. WifiRun(s, c)[0] = s /\ \A k \in 1 .. 3 : WifiRun(s, c)[k] = RunCommand(WifiRun(s, c)[k - 1], c[k])
  <2>1. Len(c) \in Nat
    BY <1>1
  <2>2. WifiRun(s, c)[0] = s /\ \A k \in 1 .. Len(c) : WifiRun(s, c)[k] = RunCommand(WifiRun(s, c)[k - 1], c[k])
    BY <2>1, WifiRunIs
  <2> QED BY <1>1, <2>2
<1>7. WifiRun(s, c)[1] = RunCommand(s, x)
  BY <1>1, <1>5, <1>6
<1>8. Saved(WifiRun(s, c)[3]) /\ Current(WifiRun(s, c)[3]) /\ SameStaged(WifiRun(s, c)[1], WifiRun(s, c)[3])
  BY <1>1, <1>4, <1>5, CommittedAndReloaded
<1> QED BY <1>3, <1>4, <1>7, <1>8

\* The power, as the driver keeps it.
LEMMA PowerDone ==
  ASSUME NEW w, IsDriver(w), NEW s, WifiUp(s), NEW b \in Bands, NEW p \in {30, 50, 70, 100}
  PROVE  LET c == SetPower(w, b, p).cmds
         IN  /\ WifiAlong(s, c) /\ Current(WifiRun(s, c)[Len(c)])
             /\ WirelessInfo(w, WifiRun(s, c)[Len(c)].file, Main[b]).power = p
<1> DEFINE c == SetPower(w, b, p).cmds
<1>1. PICK v \in 1 .. 100 : /\ SetPower(w, b, p) = PowerCommands(b, v)
                            /\ \A d : d.power = v => PowerShown(w, d) = p
  <2>1. CASE w = NewQcaWifi
    <3>1. SetPower(w, b, p) = PowerCommands(b, webPowerVal2UciPowerVal(p)) /\ IsQca(w)
      BY <2>1, DriversAre DEF SetPower, QcaSetPower, IsQca
    <3> DEFINE v == webPowerVal2UciPowerVal(p)
    <3>2. v \in 1 .. 100 /\ uciPowerVal2WebPowerVal(v) = p
      BY PowerBack
    <3> HIDE DEF v
    <3>3. ~(v <= 0 \/ v > 100)
      BY <3>2
    <3>4. \A d : d.power = v => PowerShown(w, d) = p
      BY <3>1, <3>2, <3>3 DEF PowerShown
    <3>5. SetPower(w, b, p) = PowerCommands(b, v)
      BY <3>1 DEF v
    <3> QED BY <3>2, <3>4, <3>5
  <2>2. CASE w = NewZX30000Wifi \/ w = NewGLinetMT3000Wifi
    <3>1. SetPower(w, b, p) = PowerCommands(b, p) /\ ~IsQca(w)
      BY <2>2, DriversAre DEF SetPower, ZXSetPower, MTSetPower, IsQca
    <3>2. p \in 1 .. 100 /\ ~(p <= 0 \/ p > 100)
      OBVIOUS
    <3>3. \A d : d.power = p => PowerShown(w, d) = p
      BY <3>1, <3>2 DEF PowerShown
    <3> QED BY <3>1, <3>2, <3>3
  <2> QED BY <2>1, <2>2 DEF IsDriver
<1>2. ThreeList(c, SetDev(b, "power", v))
  BY <1>1, WifiPlansAre, ThreeIs DEF PowerCommands
<1>3. DevValue("power", v) /\ Harmless(SetDev(b, "power", v))
  <2>1. DevValue("power", v)
    BY DEF DevValue
  <2> QED BY <2>1, SettingsAreHarmless
<1> DEFINE u == WifiRun(s, c)[3]
<1> HIDE DEF c
<1>4. /\ WifiAlong(s, c) /\ Saved(u) /\ Current(u) /\ SameStaged(RunCommand(s, SetDev(b, "power", v)), u)
  BY <1>2, <1>3, ThreeHarmless
<1>5. RunCommand(s, SetDev(b, "power", v)).staged.dev = PutDev(s.staged.dev, b, "power", v)
  BY <1>3, DevCommandKeeps
<1>6. PutDev(s.staged.dev, b, "power", v)[b]["power"] = v
  <2>1. s.staged.dev \in WDev
    BY SidesOK, CfgIs
  <2> QED BY <1>3, <2>1, PutDevIs
<1> HIDE DEF u
<1>7. u.file.dev[b].power = v
  BY <1>4, <1>5, <1>6 DEF Saved, SameStaged
<1>8. BandOf(Main[b]) = b
  BY DEF BandOf, Main, Bands
<1>9. WirelessInfo(w, u.file, Main[b]).power = p
  BY <1>1, <1>7, <1>8, ShowsPower
<1>10. Len(c) = 3
  BY <1>2 DEF ThreeList
<1> QED BY <1>4, <1>9, <1>10 DEF u, c

-----------------------------------------------------------------------------
(* Wireless: switching interfaces on and off                               *)

LEMMA FirstCommand ==
  ASSUME NEW s, NEW c, Len(c) \in Nat
  PROVE  /\ WifiRun(s, c)[0] = s
         /\ Len(c) >= 1 => WifiRun(s, c)[1] = RunCommand(s, c[1])
         /\ Len(c) >= 2 => WifiRun(s, c)[2] = RunCommand(WifiRun(s, c)[1], c[2])
<1>1. WifiRun(s, c)[0] = s /\ \A k \in 1 .. Len(c) : WifiRun(s, c)[k] = RunCommand(WifiRun(s, c)[k - 1], c[k])
  BY WifiRunIs
<1>2. ASSUME Len(c) >= 1 PROVE WifiRun(s, c)[1] = RunCommand(s, c[1])
  <2>1. 1 \in 1 .. Len(c) /\ 1 - 1 = 0
    BY <1>2
  <2> QED BY <1>1, <2>1
<1>3. ASSUME Len(c) >= 2 PROVE WifiRun(s, c)[2] = RunCommand(WifiRun(s, c)[1], c[2])
  <2>1. 2 \in 1 .. Len(c) /\ 2 - 1 = 1
    BY <1>3
  <2> QED BY <1>1, <2>1
<1> QED BY <1>1, <1>2, <1>3

\* Only the reload.
LEMMA ReloadOnly ==
  ASSUME NEW s, WifiUp(s)
  PROVE  LET c == <<ReloadCommand>>
         IN  WifiAlong(s, c) /\ Len(c) = 1 /\ Current(WifiRun(s, c)[1]) /\ WifiRun(s, c)[1].file = s.file
<1> DEFINE c == <<ReloadCommand>>
<1>1. Len(c) = 1 /\ c[1] = ReloadCommand /\ \A k \in 1 .. 1 : k = 1
  BY TuplesAre
<1> HIDE DEF c
<1>2. HarmlessPlan(c)
  BY <1>1, SettingsAreHarmless DEF HarmlessPlan
<1>3. WifiRun(s, c)[1] = RunCommand(s, ReloadCommand)
  BY <1>1, FirstCommand
<1>4. Current(WifiRun(s, c)[1]) /\ WifiRun(s, c)[1].file = s.file
  BY <1>3, ReloadKeeps DEF Current
<1> QED BY <1>1, <1>2, <1>4, HarmlessAlong DEF c

\* The switch of an interface, not of a guest that is let in.
LEMMA SwitchDone ==
  ASSUME NEW s, WifiUp(s), NEW i \in Ifaces, NEW v \in BOOLEAN, IsGuest(i) => v, NEW c,
         ThreeList(c, SetIf(i, "off", v))
  PROVE  /\ WifiAlong(s, c) /\ Current(WifiRun(s, c)[3])
         /\ WifiRun(s, c)[3].file.ifc[i].off = v /\ WifiRun(s, c)[3].file.dev = s.staged.dev
<1> DEFINE x == SetIf(i, "off", v)
           u == WifiRun(s, c)[3]
<1>1. IfValue("off", v)
  BY DEF IfValue
<1>2. Harmless(x)
  BY <1>1 DEF Harmless, IfCommand
<1>3. /\ WifiAlong(s, c) /\ Saved(u) /\ Current(u) /\ SameStaged(RunCommand(s, x), u)
  BY <1>2, ThreeHarmless
<1>4. RunCommand(s, x).staged.ifc = PutIf(s.staged.ifc, i, "off", v) /\ RunCommand(s, x).staged.dev = s.staged.dev
  BY <1>1, IfCommandKeeps
<1>5. PutIf(s.staged.ifc, i, "off", v)[i]["off"] = v
  <2>1. s.staged.ifc \in WIfc
    BY SidesOK, CfgIs
  <2> QED BY <1>1, <2>1, PutIfIs
<1> HIDE DEF u, x
<1>6. u.file.ifc[i].off = v /\ u.file.dev = s.staged.dev
  BY <1>3, <1>4, <1>5 DEF Saved, SameStaged
<1> QED BY <1>3, <1>6 DEF u

\* The switch of a radio that is off, and then of its interface.
FourList(c, x, y) ==
  IsSeq(c) /\ Len(c) = 4 /\ c[1] = x /\ c[2] = y /\ c[3] = WifiCommit("wireless") /\ c[4] = ReloadCommand

LEMMA BothSwitchesDone ==
  ASSUME NEW s, WifiUp(s), NEW i \in Ifaces, NEW on \in BOOLEAN, on, NEW off \in BOOLEAN, ~off, ~IsGuest(i), NEW c,
         FourList(c, SetDev(BandOf(i), "off", off), SetIf(i, "off", ~on))
  PROVE  /\ WifiAlong(s, c) /\ Current(WifiRun(s, c)[4])
         /\ WifiRun(s, c)[4].file.ifc[i].off = ~on /\ ~WifiRun(s, c)[4].file.dev[BandOf(i)].off
<1> DEFINE b == BandOf(i)
           x == SetDev(b, "off", off)
           y == SetIf(i, "off", ~on)
           r1 == RunCommand(s, x)
           r2 == RunCommand(r1, y)
           u == WifiRun(s, c)[4]
<1>1. DevValue("off", off) /\ IfValue("off", ~on) /\ b \in Bands
  BY GuestsAre DEF DevValue, IfValue
<1>2. Harmless(x) /\ Harmless(y)
  BY <1>1 DEF Harmless, DevCommand, IfCommand
<1>3. c[1] = x /\ c[2] = y /\ c[3] = WifiCommit("wireless") /\ c[4] = ReloadCommand /\ Len(c) = 4
  BY DEF FourList
<1>4. HarmlessPlan(c)
  <2>1. \A k \in 1 .. 4 : k = 1 \/ k = 2 \/ k = 3 \/ k = 4
    OBVIOUS
  <2> HIDE DEF x, y
  <2> QED BY <1>2, <1>3, <2>1, SettingsAreHarmless DEF HarmlessPlan
<1>5. WifiAlong(s, c)
  BY <1>4, HarmlessAlong
<1>6. WifiRun(s, c)[2] = r2
  BY <1>3, FirstCommand
<1>7. Saved(u) /\ Current(u) /\ SameStaged(r2, u)
  <2>1. 4 \in Nat /\ 4 >= 2 /\ 4 - 1 = 3 /\ 4 - 2 = 2
    OBVIOUS
  <2> HIDE DEF r2
  <2> QED BY <1>3, <1>5, <1>6, <2>1, CommittedAndReloaded
<1>8. WifiUp(r1) /\ r1.staged.dev = PutDev(s.staged.dev, b, "off", off) /\ r1.staged.ifc = s.staged.ifc
  BY <1>1, DevCommandKeeps
<1> HIDE DEF r1
<1>9. r2.staged.dev = r1.staged.dev /\ r2.staged.ifc = PutIf(r1.staged.ifc, i, "off", ~on)
  BY <1>1, <1>8, IfCommandKeeps
<1> HIDE DEF r2, u
<1>10. s.staged.dev \in WDev /\ s.staged.ifc \in WIfc
  BY SidesOK, CfgIs
<1>11. u.staged.dev[b]["off"] = off
  BY <1>1, <1>7, <1>8, <1>9, <1>10, PutDevIs DEF SameStaged
<1>12. u.staged.ifc[i]["off"] = ~on
  BY <1>1, <1>7, <1>8, <1>9, <1>10, PutIfIs DEF SameStaged
<1>13. u.file.ifc[i].off = ~on /\ ~u.file.dev[b].off
  BY <1>7, <1>11, <1>12 DEF Saved
<1> QED BY <1>5, <1>7, <1>13 DEF u

\* An interface is on when neither its radio nor itself is off.
LEMMA Switches ==
  ASSUME NEW p \in BOOLEAN, NEW q \in BOOLEAN, NEW e \in BOOLEAN
  PROVE  /\ (p \/ (~p /\ q)) # e => (~p /\ ~q) = e
         /\ (e => ~p) /\ q = ~e => (~p /\ ~q) = e
OBVIOUS

\* An interface that is no guest: what was asked for is in the file, and on the air.
LEMMA EnableDone ==
  ASSUME NEW s, WifiUp(s), NEW i \in Ifaces, ~IsGuest(i), s.file.ifc[i].there, NEW enable \in BOOLEAN
  PROVE  LET c == enableIface(s.file, i, enable)
             u == WifiRun(s, c)[Len(c)]
         IN  /\ WifiAlong(s, c) /\ Current(u)
             /\ (~u.file.dev[BandOf(i)].off /\ ~u.file.ifc[i].off) = enable
<1> DEFINE b == BandOf(i)
           down == s.file.dev[b].off
           out == ~down /\ s.file.ifc[i].off
           c == enableIface(s.file, i, enable)
           u == WifiRun(s, c)[Len(c)]
<1>0. b \in Bands /\ s.file.dev[b].off \in BOOLEAN /\ s.file.ifc[i].off \in BOOLEAN
  <2>1. b \in Bands
    BY GuestsAre
  <2>2. s.file.dev[b] \in DevRec /\ s.file.ifc[i] \in IfRec
    BY <2>1, SidesOK, CfgIs DEF WDev, WIfc
  <2> QED BY <2>1, <2>2 DEF DevRec, IfRec
<1>1. c = Plan(i, enable, down, out)
  BY DEF enableIface, RadioOff, IfaceOff
<1>2. CASE (down \/ out) # enable
  <2>1. c = <<ReloadCommand>>
    BY <1>1, <1>2, Zenon DEF Plan
  <2>2. WifiAlong(s, c) /\ Len(c) = 1 /\ Current(WifiRun(s, c)[1]) /\ WifiRun(s, c)[1].file = s.file
    BY <2>1, ReloadOnly
  <2> HIDE DEF c
  <2>3. (~s.file.dev[b].off /\ ~s.file.ifc[i].off) = enable
    BY <1>0, <1>2, Switches
  <2>4. WifiAlong(s, c) /\ Current(u) /\ u.file = s.file
    BY <2>2
  <2> HIDE DEF u
  <2> QED BY <2>3, <2>4 DEF c, u
<1>3. CASE (down \/ out) = enable /\ ~(enable /\ down)
  <2>1. c = <<>> \o <<SetIf(i, "off", ~enable), WifiCommit("wireless"), ReloadCommand>>
    BY <1>1, <1>3, Zenon DEF Plan
  <2>2. ThreeList(c, SetIf(i, "off", ~enable))
    <3> DEFINE t == <<SetIf(i, "off", ~enable), WifiCommit("wireless"), ReloadCommand>>
    <3>1. IsSeq(t) /\ ThreeList(t, SetIf(i, "off", ~enable)) /\ IsSeq(<<>>) /\ Len(<<>>) = 0
      BY TuplesAre, ThreeIs
    <3> HIDE DEF t
    <3>2. Joined(<<>>, t, c)
      BY <2>1, <3>1, JoinedIs DEF t
    <3> HIDE DEF c
    <3>3. \A k \in 1 .. 3 : c[0 + k] = t[k]
      BY <3>1, <3>2 DEF Joined, ThreeList
    <3>4. c[1] = t[1] /\ c[2] = t[2] /\ c[3] = t[3]
      BY <3>3
    <3>5. Len(c) = 3 /\ IsSeq(c)
      BY <3>1, <3>2 DEF Joined, ThreeList
    <3> QED BY <3>1, <3>4, <3>5 DEF ThreeList
  <2>3. Len(c) = 3
    BY <2>2 DEF ThreeList
  <2> HIDE DEF c
  <2>4. /\ WifiAlong(s, c) /\ Current(WifiRun(s, c)[3])
        /\ WifiRun(s, c)[3].file.ifc[i].off = ~enable /\ WifiRun(s, c)[3].file.dev = s.staged.dev
    <3>1. PICK v \in BOOLEAN : v = ~enable
      BY Zenon
    <3>2. ThreeList(c, SetIf(i, "off", v))
      BY <2>2, <3>1
    <3>3. /\ WifiAlong(s, c) /\ Current(WifiRun(s, c)[3])
          /\ WifiRun(s, c)[3].file.ifc[i].off = v /\ WifiRun(s, c)[3].file.dev = s.staged.dev
      BY <3>2, SwitchDone
    <3> QED BY <3>1, <3>3
  <2>5. enable => ~s.staged.dev[b].off
    BY <1>0, <1>3, SidesOK DEF Together
  <2>6. WifiAlong(s, c) /\ Current(u) /\ u.file.ifc[i].off = ~enable /\ u.file.dev[b].off = s.staged.dev[b].off
    BY <2>3, <2>4
  <2>7. s.staged.dev[b].off \in BOOLEAN
    <3>1. s.staged.dev[b] \in DevRec
      BY <1>0, SidesOK, CfgIs DEF WDev
    <3> QED BY <3>1 DEF DevRec
  <2> HIDE DEF u
  <2>8. u.file.ifc[i].off \in BOOLEAN /\ u.file.dev[b].off \in BOOLEAN /\ (enable => ~u.file.dev[b].off)
    BY <2>5, <2>6, <2>7
  <2>9. (~u.file.dev[b].off /\ ~u.file.ifc[i].off) = enable
    BY <2>6, <2>8, Switches
  <2> QED BY <2>6, <2>9 DEF c, u
<1>4. CASE (down \/ out) = enable /\ enable /\ down
  <2>0. PICK off \in BOOLEAN : ~off /\ SetDev(b, "off", off) = SetDev(b, "off", FALSE)
    BY Zenon
  <2>1. c = <<SetDev(b, "off", off)>> \o <<SetIf(i, "off", ~enable), WifiCommit("wireless"), ReloadCommand>>
    BY <1>1, <1>4, <2>0, Zenon DEF Plan
  <2>2. FourList(c, SetDev(b, "off", off), SetIf(i, "off", ~enable))
    <3> DEFINE t == <<SetIf(i, "off", ~enable), WifiCommit("wireless"), ReloadCommand>>
               h == <<SetDev(b, "off", off)>>
    <3>1. IsSeq(t) /\ ThreeList(t, SetIf(i, "off", ~enable)) /\ IsSeq(h) /\ Len(h) = 1 /\ h[1] = SetDev(b, "off", off)
      BY TuplesAre, ThreeIs
    <3> HIDE DEF t, h
    <3>2. Joined(h, t, c)
      BY <2>1, <3>1, JoinedIs DEF t, h
    <3> HIDE DEF c
    <3>3. (\A k \in 1 .. 3 : c[1 + k] = t[k]) /\ (\A k \in 1 .. 1 : c[k] = h[k])
      BY <3>1, <3>2 DEF Joined, ThreeList
    <3>4. c[2] = t[1] /\ c[3] = t[2] /\ c[4] = t[3] /\ c[1] = h[1]
      BY <3>3
    <3>5. Len(c) = 4 /\ IsSeq(c)
      BY <3>1, <3>2 DEF Joined, ThreeList
    <3> QED BY <3>1, <3>4, <3>5 DEF ThreeList, FourList
  <2>3. Len(c) = 4
    BY <2>2 DEF FourList
  <2> HIDE DEF c
  <2>4. /\ WifiAlong(s, c) /\ Current(WifiRun(s, c)[4])
        /\ WifiRun(s, c)[4].file.ifc[i].off = ~enable /\ ~WifiRun(s, c)[4].file.dev[b].off
    BY <1>4, <2>0, <2>2, BothSwitchesDone
  <2>5. WifiAlong(s, c) /\ Current(u) /\ u.file.ifc[i].off = ~enable /\ ~u.file.dev[b].off
    BY <2>3, <2>4
  <2>6. u.file.ifc[i].off \in BOOLEAN
    BY <2>5
  <2>7. (~u.file.dev[b].off /\ ~u.file.ifc[i].off) = enable
    <3> HIDE DEF u
    <3> QED BY <1>4, <2>5, <2>6
  <2> HIDE DEF u
  <2> QED BY <2>5, <2>7 DEF c, u
<1>5. (down \/ out) \in BOOLEAN
  BY <1>0
<1> QED BY <1>2, <1>3, <1>4, <1>5

-----------------------------------------------------------------------------
(* Wireless: letting guests in                                             *)

\* Commands that make the parts P of the guest network that g does not have.
Makes(a, j, p) == j \in 1 .. Len(a) - 1 /\ a[j] = SetGuest(p) /\ a[j + 1] = WifiCommit(p)
MakesParts(a, P, g) ==
  /\ IsSeq(a) /\ HarmlessPlan(a)
  /\ \A p \in P : p \in g \/ \E j : Makes(a, j, p)

LEMMA PartsJoin ==
  ASSUME NEW a, NEW b, NEW P, NEW Q, NEW g, MakesParts(a, P, g), MakesParts(b, Q, g)
  PROVE  MakesParts(a \o b, P \union Q, g)
<1> DEFINE c == a \o b
           n == Len(a)
           m == Len(b)
<1>1. Joined(a, b, c)
  BY JoinedIs DEF MakesParts
<1>2. /\ n \in Nat /\ m \in Nat /\ IsSeq(c) /\ Len(c) = n + m
      /\ (\A k \in 1 .. n : c[k] = a[k]) /\ \A k \in 1 .. m : c[n + k] = b[k]
  BY <1>1 DEF Joined
<1>3. (\A k \in 1 .. n : Harmless(a[k])) /\ \A k \in 1 .. m : Harmless(b[k])
  BY DEF MakesParts, HarmlessPlan
<1> HIDE DEF c, n, m
<1>4. HarmlessPlan(c)
  <2>1. Len(c) \in Nat
    BY <1>2
  <2>2. SUFFICES ASSUME NEW k \in 1 .. n + m PROVE Harmless(c[k])
    BY <1>2, <2>1 DEF HarmlessPlan
  <2>3. CASE k <= n
    BY <1>2, <1>3, <2>3
  <2>4. CASE ~(k <= n)
    <3>1. k - n \in 1 .. m /\ n + (k - n) = k
      BY <1>2, <2>4
    <3>2. c[k] = b[k - n]
      BY <1>2, <3>1
    <3> QED BY <1>3, <3>1, <3>2
  <2> QED BY <2>3, <2>4
<1>5. ASSUME NEW p, NEW j, Makes(a, j, p) PROVE Makes(c, j, p)
  <2>1. j \in 1 .. n - 1 /\ a[j] = SetGuest(p) /\ a[j + 1] = WifiCommit(p)
    BY <1>5 DEF Makes, n
  <2>2. j \in 1 .. n /\ j + 1 \in 1 .. n /\ j \in 1 .. Len(c) - 1
    BY <1>2, <2>1
  <2> QED BY <1>2, <2>1, <2>2 DEF Makes
<1>6. ASSUME NEW p, NEW j, Makes(b, j, p) PROVE Makes(c, n + j, p)
  <2>1. j \in 1 .. m - 1 /\ b[j] = SetGuest(p) /\ b[j + 1] = WifiCommit(p)
    BY <1>6 DEF Makes, m
  <2>2. j \in 1 .. m /\ j + 1 \in 1 .. m /\ n + j \in 1 .. Len(c) - 1 /\ n + (j + 1) = (n + j) + 1
    BY <1>2, <2>1
  <2>3. c[n + j] = b[j] /\ c[n + (j + 1)] = b[j + 1]
    BY <1>2, <2>2
  <2> QED BY <2>1, <2>2, <2>3 DEF Makes
<1>7. \A p \in P \union Q : p \in g \/ \E j : Makes(c, j, p)
  BY <1>5, <1>6 DEF MakesParts
<1> QED BY <1>2, <1>4, <1>7 DEF MakesParts, c

\* No commands, or the two that make a part.
LEMMA PartMade ==
  ASSUME NEW p \in GuestParts, NEW g
  PROVE  /\ p \in g => MakesParts(<<>>, {p}, g)
         /\ MakesParts(<<SetGuest(p), WifiCommit(p)>>, {p}, g)
<1>1. ASSUME p \in g PROVE MakesParts(<<>>, {p}, g)
  <2>1. IsSeq(<<>>) /\ Len(<<>>) = 0
    BY TuplesAre
  <2> QED BY <1>1, <2>1 DEF MakesParts, HarmlessPlan
<1> DEFINE a == <<SetGuest(p), WifiCommit(p)>>
<1>2. IsSeq(a) /\ Len(a) = 2 /\ a[1] = SetGuest(p) /\ a[2] = WifiCommit(p)
  BY TuplesAre
<1> HIDE DEF a
<1>3. HarmlessPlan(a)
  <2>1. \A k \in 1 .. 2 : k = 1 \/ k = 2
    OBVIOUS
  <2> QED BY <1>2, <2>1, SettingsAreHarmless DEF HarmlessPlan
<1>4. Makes(a, 1, p)
  <2>1. 1 \in 1 .. Len(a) - 1 /\ 1 + 1 = 2
    BY <1>2
  <2> QED BY <1>2, <2>1 DEF Makes
<1>5. MakesParts(a, {p}, g)
  BY <1>2, <1>3, <1>4 DEF MakesParts
<1> QED BY <1>1, <1>5 DEF a

LEMMA GuestNetworkMade ==
  ASSUME NEW s
  PROVE  MakesParts(PlanNetworkCommands(s) \o PlanDHCPCommands(s) \o PlanFirewallCommands(s), GuestParts, s.guest)
<1>1. MakesParts(PlanNetworkCommands(s), {"network"}, s.guest)
  <2>1. "network" \in GuestParts
    BY DEF GuestParts
  <2>2. CASE "network" \in s.guest
    <3>1. PlanNetworkCommands(s) = <<>>
      BY <2>2, Zenon DEF PlanNetworkCommands
    <3> QED BY <2>1, <2>2, <3>1, PartMade
  <2>3. CASE "network" \notin s.guest
    <3>1. PlanNetworkCommands(s) = <<SetGuest("network"), WifiCommit("network")>>
      BY <2>3, Zenon DEF PlanNetworkCommands
    <3> QED BY <2>1, <3>1, PartMade
  <2> QED BY <2>2, <2>3
<1>2. MakesParts(PlanDHCPCommands(s), {"dhcp"}, s.guest)
  <2>1. "dhcp" \in GuestParts
    BY DEF GuestParts
  <2> QED BY <2>1, PartMade DEF PlanDHCPCommands
<1>3. MakesParts(PlanFirewallCommands(s), {"firewall"}, s.guest)
  <2>1. "firewall" \in GuestParts
    BY DEF GuestParts
  <2>2. CASE "firewall" \in s.guest
    <3>1. PlanFirewallCommands(s) = <<>>
      BY <2>2, Zenon DEF PlanFirewallCommands
    <3> QED BY <2>1, <2>2, <3>1, PartMade
  <2>3. CASE "firewall" \notin s.guest
    <3>1. PlanFirewallCommands(s) = <<SetGuest("firewall"), WifiCommit("firewall")>>
      BY <2>3, Zenon DEF PlanFirewallCommands
    <3> QED BY <2>1, <3>1, PartMade
  <2> QED BY <2>2, <2>3
<1>4. MakesParts(PlanNetworkCommands(s) \o PlanDHCPCommands(s), {"network"} \union {"dhcp"}, s.guest)
  BY <1>1, <1>2, PartsJoin
<1>5. MakesParts(PlanNetworkCommands(s) \o PlanDHCPCommands(s) \o PlanFirewallCommands(s),
                 ({"network"} \union {"dhcp"}) \union {"firewall"}, s.guest)
  BY <1>3, <1>4, PartsJoin
<1>6. ({"network"} \union {"dhcp"}) \union {"firewall"} = GuestParts
  BY DEF GuestParts
<1> QED BY <1>5, <1>6

\* The guests are let in behind the whole network, wherever the shell is killed.
LEMMA LetInDone ==
  ASSUME NEW s, WifiUp(s), NEW i \in Ifaces, NEW off \in BOOLEAN, ~off,
         NEW a, MakesParts(a, GuestParts, s.file.guest),
         NEW t, ThreeList(t, SetIf(i, "off", off))
  PROVE  /\ WifiAlong(s, a \o t) /\ Current(WifiRun(s, a \o t)[Len(a \o t)])
         /\ WifiRun(s, a \o t)[Len(a \o t)].file.ifc[i].off = off
<1> DEFINE c == a \o t
           m == Len(a)
           f == WifiRun(s, c)
           x == SetIf(i, "off", off)
<1>1. Joined(a, t, c)
  BY JoinedIs DEF MakesParts, ThreeList
<1>2. /\ m \in Nat /\ Len(c) = m + 3 /\ (\A k \in 1 .. m : c[k] = a[k]) /\ (\A k \in 1 .. 3 : c[m + k] = t[k])
      /\ t[1] = x /\ t[2] = WifiCommit("wireless") /\ t[3] = ReloadCommand
  BY <1>1 DEF Joined, ThreeList
<1>3. c[m + 1] = x /\ c[m + 2] = WifiCommit("wireless") /\ c[m + 3] = ReloadCommand
  BY <1>2
<1>4. \A k \in 1 .. m : Harmless(c[k])
  BY <1>2 DEF MakesParts, HarmlessPlan
<1>5. f[0] = s /\ \A k \in 1 .. m + 3 : f[k] = RunCommand(f[k - 1], c[k])
  <2>1. Len(c) \in Nat
    BY <1>2
  <2> HIDE DEF c
  <2>2. f[0] = s /\ \A k \in 1 .. Len(c) : f[k] = RunCommand(f[k - 1], c[k])
    BY <2>1, WifiRunIs
  <2> QED BY <1>2, <2>2
<1>6. \A k \in 0 .. m : WifiUp(f[k])
  <2>1. Len(c) \in Nat /\ m \in 0 .. Len(c)
    BY <1>2
  <2> QED BY <1>4, <2>1, HarmlessRun
<1>7. ASSUME NEW j \in 0 .. m, NEW p, p \in f[j].file.guest PROVE p \in f[m].file.guest
  <2>1. Len(c) \in Nat /\ m \in 0 .. Len(c)
    BY <1>2
  <2> QED BY <1>4, <1>6, <1>7, <2>1, PartStays
<1> HIDE DEF f, c, m
<1>8. ASSUME NEW p \in GuestParts PROVE p \in f[m].file.guest
  <2>1. CASE p \in s.file.guest
    <3>1. 0 \in 0 .. m /\ p \in f[0].file.guest
      BY <1>2, <1>5, <2>1
    <3> QED BY <1>7, <3>1
  <2>2. ASSUME NEW j, Makes(a, j, p) PROVE p \in f[m].file.guest
    <3>1. j \in 1 .. m - 1 /\ a[j] = SetGuest(p) /\ a[j + 1] = WifiCommit(p)
      BY <2>2 DEF Makes, m
    <3>2. /\ j \in 1 .. m /\ j + 1 \in 1 .. m /\ j \in 1 .. m + 3 /\ j + 1 \in 1 .. m + 3 /\ (j + 1) - 1 = j
          /\ j - 1 \in 0 .. m /\ j \in 0 .. m /\ j + 1 \in 0 .. m
      BY <1>2, <3>1
    <3>3. f[j] = RunCommand(f[j - 1], SetGuest(p)) /\ f[j + 1] = RunCommand(f[j], WifiCommit(p))
      BY <1>2, <1>5, <3>1, <3>2
    <3>4. p \in f[j].staged.guest
      BY <1>6, <3>2, <3>3, GuestPartKeeps
    <3>5. p \in f[j + 1].file.guest
      BY <1>6, <3>2, <3>3, <3>4, GuestCommitKeeps
    <3> QED BY <1>7, <3>2, <3>5
  <2> QED BY <2>1, <2>2 DEF MakesParts
<1>9. /\ f[m + 1] = RunCommand(f[m], x) /\ f[m + 2] = RunCommand(f[m + 1], WifiCommit("wireless"))
      /\ f[m + 3] = RunCommand(f[m + 2], ReloadCommand) /\ WifiUp(f[m])
  <2>1. /\ m + 1 \in 1 .. m + 3 /\ m + 2 \in 1 .. m + 3 /\ m + 3 \in 1 .. m + 3 /\ m \in 0 .. m
        /\ (m + 1) - 1 = m /\ (m + 2) - 1 = m + 1 /\ (m + 3) - 1 = m + 2
    BY <1>2
  <2>2. f[m + 1] = RunCommand(f[m], c[m + 1])
    BY <1>5, <2>1
  <2>3. f[m + 2] = RunCommand(f[m + 1], c[m + 2])
    BY <1>5, <2>1
  <2>4. f[m + 3] = RunCommand(f[m + 2], c[m + 3])
    BY <1>5, <2>1
  <2> QED BY <1>3, <1>6, <2>1, <2>2, <2>3, <2>4
<1>10. IfValue("off", off) /\ GuestParts \subseteq f[m].file.guest
  BY <1>8 DEF IfValue
<1>11. WifiUp(f[m + 1]) /\ f[m + 1].staged.ifc = PutIf(f[m].staged.ifc, i, "off", off)
  BY <1>9, <1>10, IfCommandKeeps
<1>12. WifiUp(f[m + 2]) /\ Saved(f[m + 2]) /\ SameStaged(f[m + 1], f[m + 2])
  BY <1>9, <1>11, WifiCommitKeeps
<1>13. WifiUp(f[m + 3]) /\ f[m + 3].file = f[m + 2].file /\ f[m + 3].live = f[m + 2].file
  BY <1>9, <1>12, ReloadKeeps
<1>14. PutIf(f[m].staged.ifc, i, "off", off)[i]["off"] = off
  <2>1. f[m].staged.ifc \in WIfc
    BY <1>9, SidesOK, CfgIs
  <2> QED BY <1>10, <2>1, PutIfIs
<1>15. f[m + 3].file.ifc[i].off = off
  BY <1>11, <1>12, <1>13, <1>14 DEF Saved, SameStaged
<1>16. \A k \in 0 .. m + 3 : WifiUp(f[k])
  <2>1. \A k \in 0 .. m + 3 : k \in 0 .. m \/ k = m + 1 \/ k = m + 2 \/ k = m + 3
    BY <1>2
  <2> QED BY <1>6, <1>11, <1>12, <1>13, <2>1
<1>17. WifiAlong(s, c)
  BY <1>2, <1>16 DEF WifiAlong, f
<1>18. Current(f[m + 3])
  BY <1>13 DEF Current
<1> QED BY <1>2, <1>15, <1>17, <1>18 DEF f, c

\* A guest interface: what was asked for is in the file, and on the air.
LEMMA EnableGuestDone ==
  ASSUME NEW s, WifiUp(s), NEW i \in Ifaces, IsGuest(i), NEW enable \in BOOLEAN
  PROVE  LET c == EnableGuestIface(s.file, i, enable)
             u == WifiRun(s, c)[Len(c)]
         IN  WifiAlong(s, c) /\ Current(u) /\ u.file.ifc[i].off = ~enable
<1> DEFINE c == EnableGuestIface(s.file, i, enable)
           u == WifiRun(s, c)[Len(c)]
<1>0. s.file.ifc[i].off \in BOOLEAN
  <2>1. s.file.ifc[i] \in IfRec
    BY SidesOK, CfgIs DEF WIfc
  <2> QED BY <2>1 DEF IfRec
<1>1. CASE s.file.ifc[i].off # enable
  <2>1. c = <<ReloadCommand>>
    BY <1>1, Zenon DEF EnableGuestIface
  <2>2. WifiAlong(s, c) /\ Len(c) = 1 /\ Current(WifiRun(s, c)[1]) /\ WifiRun(s, c)[1].file = s.file
    BY <2>1, ReloadOnly
  <2> HIDE DEF c
  <2>3. WifiAlong(s, c) /\ Current(u) /\ u.file = s.file
    BY <2>2
  <2> HIDE DEF u
  <2>4. u.file.ifc[i].off = ~enable
    BY <1>0, <1>1, <2>3
  <2> QED BY <2>3, <2>4 DEF c, u
<1>2. CASE s.file.ifc[i].off = enable /\ enable
  <2>0. PICK off \in BOOLEAN : ~off /\ SetIf(i, "off", off) = SetIf(i, "off", FALSE)
    BY Zenon
  <2> DEFINE a == PlanNetworkCommands(s.file) \o PlanDHCPCommands(s.file) \o PlanFirewallCommands(s.file)
             t == <<SetIf(i, "off", off), WifiCommit("wireless"), ReloadCommand>>
  <2>1. c = a \o t
    BY <1>2, <2>0, Zenon DEF EnableGuestIface
  <2>2. MakesParts(a, GuestParts, s.file.guest)
    BY GuestNetworkMade
  <2>3. ThreeList(t, SetIf(i, "off", off))
    BY ThreeIs
  <2> HIDE DEF a, t
  <2>4. /\ WifiAlong(s, a \o t) /\ Current(WifiRun(s, a \o t)[Len(a \o t)])
        /\ WifiRun(s, a \o t)[Len(a \o t)].file.ifc[i].off = off
    BY <2>0, <2>2, <2>3, LetInDone
  <2> HIDE DEF c
  <2>5. WifiAlong(s, c) /\ Current(u) /\ u.file.ifc[i].off = off
    BY <2>1, <2>4
  <2> HIDE DEF u
  <2>6. u.file.ifc[i].off = ~enable
    BY <1>2, <2>0, <2>5
  <2> QED BY <2>5, <2>6 DEF c, u
<1>3. CASE s.file.ifc[i].off = enable /\ ~enable
  <2>0. PICK off \in BOOLEAN : off /\ SetIf(i, "off", off) = SetIf(i, "off", TRUE)
    BY Zenon
  <2>1. c = <<SetIf(i, "off", off), WifiCommit("wireless"), ReloadCommand>>
    BY <1>3, <2>0, Zenon DEF EnableGuestIface
  <2>2. ThreeList(c, SetIf(i, "off", off))
    BY <2>1, ThreeIs
  <2>3. Len(c) = 3
    BY <2>2 DEF ThreeList
  <2> HIDE DEF c
  <2>4. WifiAlong(s, c) /\ Current(WifiRun(s, c)[3]) /\ WifiRun(s, c)[3].file.ifc[i].off = off
    BY <2>0, <2>2, SwitchDone
  <2>5. WifiAlong(s, c) /\ Current(u) /\ u.file.ifc[i].off = off
    BY <2>3, <2>4
  <2> HIDE DEF u
  <2>6. u.file.ifc[i].off = ~enable
    BY <1>3, <2>0, <2>5
  <2> QED BY <2>5, <2>6 DEF c, u
<1> QED BY <1>0, <1>1, <1>2, <1>3

-----------------------------------------------------------------------------
(* Wireless: edits                                                         *)

LEMMA EditOfOK ==
  ASSUME NEW w, NEW s, NEW r, FormOK(r), NEW c, NEW ev, NEW m, NEW q, EditOf(w, s, r, c, ev, m, q)
  PROVE  EditOK(r, ev) /\ RadioOK(r) /\ HarmlessPlan(c)
<1>1. EditOK(r, ev) /\ RadioOK(r)
  BY DEF EditOf, ValueOf, FormOK, EditOK, RadioOK
<1>2. m \in {0, 1} /\ q \in Requires /\ EditList(c, r, ev, m) /\ (m = 1 => c[6] = SetDev(BandOf(r.name), "require", q))
  BY DEF EditOf
<1>3. HarmlessPlan(c)
  BY <1>1, <1>2, EditListHarmless
<1> QED BY <1>1, <1>3

LEMMA RadioEditDone ==
  ASSUME NEW w, IsDriver(w), NEW s, WifiUp(s), NEW r, FormOK(r), NEW c, NEW ev, NEW m, NEW q,
         EditOf(w, s.file, r, c, ev, m, q), IndexOf(w.titles, r.enc) # 0
  PROVE  /\ WifiAlong(s, c) /\ Current(WifiRun(s, c)[Len(c)])
         /\ EditShown(w, WifiRun(s, c)[Len(c)].file, r.name, r)
<1> DEFINE u == WifiRun(s, c)[Len(c)]
           b == BandOf(r.name)
<1>1. EditOK(r, ev) /\ RadioOK(r) /\ HarmlessPlan(c) /\ r.name \in Ifaces
  BY EditOfOK DEF FormOK
<1>2. /\ m \in {0, 1} /\ q \in Requires /\ EditList(c, r, ev, m) /\ (m = 1 => c[6] = SetDev(b, "require", q))
      /\ ValueOf(w, r, ev) /\ s.file.ifc[r.name].there /\ \A d : (m = 1 => d.require = q) => HwShown(w, b, d) = r.hw
  BY DEF EditOf
<1>3. /\ WifiAlong(s, c) /\ Current(u) /\ IfaceSays(u.file, r, ev) /\ RadioSays(u.file, r)
      /\ (m = 1 => RequireSays(u.file, r, q))
  <2> HIDE DEF b
  <2>1. m = 1 => c[6] = SetDev(BandOf(r.name), "require", q)
    BY <1>2 DEF b
  <2> QED BY <1>1, <1>2, <2>1, EditDone
<1>4. SameThere(s, u)
  BY <1>1, ThereStays
<1>5. WifiUp(u)
  <2>1. Len(c) \in 0 .. Len(c)
    BY <1>1 DEF HarmlessPlan
  <2> QED BY <1>3, <2>1 DEF WifiAlong
<1> HIDE DEF u, b
<1>6. u.file \in Config /\ u.file.ifc[r.name].there
  BY <1>1, <1>2, <1>4, <1>5, SidesOK DEF SameThere
<1> DEFINE x == WirelessInfo(w, u.file, r.name)
           i == u.file.ifc[r.name]
           d == u.file.dev[b]
<1>7. /\ x.enc = TitleShown(w, i) /\ x.key = i.key /\ x.hidden = i.hidden
      /\ Width(x.ht) = d.ht /\ x.hw = HwShown(w, b, d) /\ x.channel = d.channel /\ x.network = i.network
  BY <1>1, <1>6, ShowsFile DEF b
<1>8. i.enc = ev.enc /\ i.key = r.key /\ i.sae = ev.sae /\ i.hidden = r.hidden
  BY <1>3 DEF IfaceSays
<1>9. d.channel = r.channel /\ d.ht = Width(r.ht) /\ i.network = r.network /\ (m = 1 => d.require = q)
  BY <1>3 DEF RadioSays, RequireSays, b
<1> HIDE DEF x, i, d
<1>10. TitleShown(w, i) = r.enc
  BY <1>2, <1>8 DEF ValueOf
<1>11. HwShown(w, b, d) = r.hw
  BY <1>2, <1>9
<1>12. EditShown(w, u.file, r.name, r)
  BY <1>7, <1>8, <1>9, <1>10, <1>11 DEF EditShown, x
<1> QED BY <1>3, <1>12 DEF u

LEMMA GuestFormDone ==
  ASSUME NEW w, IsDriver(w), NEW s, WifiUp(s), NEW r, FormOK(r), IsGuest(r.name), NEW c, NEW ev,
         ValueOf(w, r, ev), s.file.ifc[r.name].there, GuestList(c, r, ev), IndexOf(w.titles, r.enc) # 0
  PROVE  /\ WifiAlong(s, c) /\ Current(WifiRun(s, c)[Len(c)])
         /\ EditShown(w, WifiRun(s, c)[Len(c)].file, r.name, r)
<1> DEFINE u == WifiRun(s, c)[Len(c)]
<1>1. EditOK(r, ev) /\ r.name \in Ifaces
  BY DEF FormOK, EditOK, ValueOf
<1>2. HarmlessPlan(c)
  BY <1>1, GuestListHarmless
<1>3. WifiAlong(s, c) /\ Current(u) /\ IfaceSays(u.file, r, ev)
  BY <1>1, GuestEditDone
<1>4. SameThere(s, u)
  BY <1>2, ThereStays
<1>5. WifiUp(u)
  <2>1. Len(c) \in 0 .. Len(c)
    BY <1>2 DEF HarmlessPlan
  <2> QED BY <1>3, <2>1 DEF WifiAlong
<1> HIDE DEF u
<1>6. u.file \in Config /\ u.file.ifc[r.name].there
  BY <1>1, <1>4, <1>5, SidesOK DEF SameThere
<1> DEFINE x == WirelessInfo(w, u.file, r.name)
           i == u.file.ifc[r.name]
<1>7. x.enc = TitleShown(w, i) /\ x.key = i.key /\ x.hidden = i.hidden
  BY <1>1, <1>6, ShowsFile
<1>8. i.enc = ev.enc /\ i.key = r.key /\ i.sae = ev.sae /\ i.hidden = r.hidden
  BY <1>3 DEF IfaceSays
<1> HIDE DEF x, i
<1>9. TitleShown(w, i) = r.enc
  BY <1>8 DEF ValueOf
<1>10. EditShown(w, u.file, r.name, r)
  BY <1>7, <1>8, <1>9 DEF EditShown, x
<1> QED BY <1>3, <1>10 DEF u

\* Without commands nothing happens.
LEMMA NoCommands ==
  ASSUME NEW s, WifiUp(s)
  PROVE  WifiAlong(s, <<>>) /\ WifiRun(s, <<>>)[Len(<<>>)] = s
<1> DEFINE c == <<>>
<1>1. Len(c) = 0 /\ Len(c) \in Nat
  BY TuplesAre
<1>2. \A k \in 0 .. 0 : k = 0
  OBVIOUS
<1> HIDE DEF c
<1>3. WifiRun(s, c)[0] = s
  BY <1>1, FirstCommand
<1> QED BY <1>1, <1>2, <1>3 DEF WifiAlong, c

LEMMA EditIfaceDone ==
  ASSUME NEW w, IsDriver(w), NEW s, WifiUp(s), NEW r, FormOK(r)
  PROVE  LET p == EditIface(w, s.file, r)
         IN  /\ WifiAlong(s, p.cmds)
             /\ p.ok => /\ Current(WifiRun(s, p.cmds)[Len(p.cmds)])
                        /\ EditShown(w, WifiRun(s, p.cmds)[Len(p.cmds)].file, r.name, r)
<1> DEFINE p == EditIface(w, s.file, r)
<1>0. r.name \in Ifaces
  BY DEF FormOK
<1>1. /\ ~p.ok => p.cmds = <<>>
      /\ p.ok => IndexOf(w.titles, r.enc) # 0
      /\ p.ok /\ IsGuest(r.name) => \E ev : ValueOf(w, r, ev) /\ s.file.ifc[r.name].there /\ GuestList(p.cmds, r, ev)
      /\ p.ok /\ ~IsGuest(r.name) => \E ev, m, q : EditOf(w, s.file, r, p.cmds, ev, m, q)
  BY <1>0, EditIfaceIs
<1> HIDE DEF p
<1>2. CASE ~p.ok
  BY <1>1, <1>2, NoCommands DEF p
<1>3. CASE p.ok /\ IsGuest(r.name)
  <2>1. PICK ev : ValueOf(w, r, ev) /\ s.file.ifc[r.name].there /\ GuestList(p.cmds, r, ev)
    BY <1>1, <1>3
  <2> QED BY <1>1, <1>3, <2>1, GuestFormDone DEF p
<1>4. CASE p.ok /\ ~IsGuest(r.name)
  <2>1. PICK ev, m, q : EditOf(w, s.file, r, p.cmds, ev, m, q)
    BY <1>1, <1>4
  <2> QED BY <1>1, <1>4, <2>1, RadioEditDone DEF p
<1> QED BY <1>2, <1>3, <1>4

-----------------------------------------------------------------------------
(* Wireless: the quick setup                                               *)

LEMMA SetupForm ==
  ASSUME NEW i \in {"wifi2g", "wifi5g"}, NEW k \in WifiKeys
  PROVE  FormOK(NormalizeQuickSetupRequest(i, k)) /\ NormalizeQuickSetupRequest(i, k).name = i /\ NormalizeQuickSetupRequest(i, k).key = k
<1> DEFINE r == NormalizeQuickSetupRequest(i, k)
<1>1. r.hidden = FALSE
  BY Zenon DEF NormalizeQuickSetupRequest
<1>2. r.name = i /\ r.key = k /\ r.channel = "auto" /\ r.network = "lan"
  BY DEF NormalizeQuickSetupRequest
<1>3. i \in Ifaces
  BY DEF Ifaces
<1>4. r.hidden \in BOOLEAN
  BY <1>1
<1> HIDE DEF r
<1>5. FormOK(r)
  BY <1>2, <1>3, <1>4 DEF FormOK
<1> QED BY <1>2, <1>5 DEF r

\* The key is the second of the commands of an edit, and no command of the other
\* interface's edit is about it.
LEMMA KeyLast ==
  ASSUME NEW w, NEW s, NEW r, FormOK(r), NEW c, NEW ev, NEW m, NEW q, EditOf(w, s, r, c, ev, m, q)
  PROVE  /\ IsSeq(c) /\ IfLast(c, 2, r.name, "key", r.key) /\ 2 \in 1 .. Len(c) /\ Len(c) >= 9
         /\ c[Len(c) - 1] = WifiCommit("wireless") /\ c[Len(c)] = ReloadCommand
         /\ \A n, o : n # r.name => \A k \in 1 .. Len(c) : ~AboutIf(c[k], n, o)
<1>1. EditOK(r, ev) /\ RadioOK(r)
  BY EditOfOK
<1>2. m \in {0, 1} /\ q \in Requires /\ EditList(c, r, ev, m) /\ (m = 1 => c[6] = SetDev(BandOf(r.name), "require", q))
  BY DEF EditOf
<1>3. IfLast(c, 2, r.name, "key", r.key)
  BY <1>1, <1>2, EditListHarmless
<1>0. m = 0 \/ m = 1
  BY <1>2
<1>4. /\ c[1] = SetIf(r.name, "enc", ev.enc) /\ c[2] = SetIf(r.name, "key", r.key)
      /\ c[3] = SetIf(r.name, "sae", ev.sae) /\ c[4] = SetIf(r.name, "hidden", r.hidden)
      /\ c[5] = SetDev(BandOf(r.name), "channel", r.channel)
      /\ c[6 + m] = SetDev(BandOf(r.name), "ht", Width(r.ht)) /\ c[7 + m] = SetIf(r.name, "network", r.network)
      /\ c[8 + m] = WifiCommit("wireless") /\ c[9 + m] = ReloadCommand /\ Len(c) = 9 + m /\ IsSeq(c)
  BY <1>2 DEF EditList, IfacePart
<1>5. ASSUME NEW n, NEW o, n # r.name, NEW k \in 1 .. Len(c) PROVE ~AboutIf(c[k], n, o)
  <2>1. /\ c[1].at = r.name /\ c[2].at = r.name /\ c[3].at = r.name /\ c[4].at = r.name /\ c[5].op = "dev"
        /\ c[6 + m].op = "dev" /\ c[7 + m].at = r.name /\ c[8 + m].op = "commit" /\ c[9 + m].op = "reload"
        /\ (m = 1 => c[6].op = "dev")
    BY <1>2, <1>4, FieldsOfCommands
  <2>2. \/ k = 1 \/ k = 2 \/ k = 3 \/ k = 4 \/ k = 5 \/ (m = 1 /\ k = 6)
        \/ k = 6 + m \/ k = 7 + m \/ k = 8 + m \/ k = 9 + m
    <3>1. k \in 1 .. 9 + m
      BY <1>4
    <3> QED BY <1>0, <3>1
  <2> QED BY <1>5, <2>1, <2>2 DEF AboutIf
<1>6. c[Len(c) - 1] = WifiCommit("wireless") /\ c[Len(c)] = ReloadCommand
  <2>1. Len(c) - 1 = 8 + m
    BY <1>0, <1>4
  <2> QED BY <1>4, <2>1
<1>7. 2 \in 1 .. Len(c) /\ Len(c) >= 9
  BY <1>0, <1>4
<1> QED BY <1>3, <1>4, <1>5, <1>6, <1>7

LEMMA HarmlessJoined ==
  ASSUME NEW a, NEW b, NEW c, Joined(a, b, c), HarmlessPlan(a), HarmlessPlan(b)
  PROVE  HarmlessPlan(c)
<1> DEFINE n == Len(a)
           m == Len(b)
<1>1. /\ n \in Nat /\ m \in Nat /\ Len(c) = n + m
      /\ (\A k \in 1 .. n : c[k] = a[k]) /\ \A k \in 1 .. m : c[n + k] = b[k]
      /\ (\A k \in 1 .. n : Harmless(a[k])) /\ \A k \in 1 .. m : Harmless(b[k])
  BY DEF Joined, HarmlessPlan
<1> HIDE DEF n, m
<1>2. SUFFICES ASSUME NEW k \in 1 .. n + m PROVE Harmless(c[k])
  BY <1>1 DEF HarmlessPlan
<1>3. CASE k <= n
  BY <1>1, <1>3
<1>4. CASE ~(k <= n)
  <2>1. k - n \in 1 .. m /\ n + (k - n) = k
    BY <1>1, <1>4
  <2>2. c[k] = b[k - n]
    BY <1>1, <2>1
  <2> QED BY <1>1, <2>1, <2>2
<1> QED BY <1>3, <1>4

\* a is the plan of an edit with the form r.
Sets(w, f, r, a) == FormOK(r) /\ \E ev, m, q : EditOf(w, f, r, a, ev, m, q)

\* Both interfaces have their keys when all the commands have run.
KeysSet(s, c, r, t) ==
  /\ WifiAlong(s, c)
  /\ WifiRun(s, c)[Len(c)].file.ifc[r.name].key = r.key /\ WifiRun(s, c)[Len(c)].file.ifc[t.name].key = t.key

LEMMA BothKeys ==
  ASSUME NEW w, NEW f, NEW s, WifiUp(s), NEW r, NEW a, Sets(w, f, r, a), NEW t, NEW b, Sets(w, f, t, b), r.name # t.name
  PROVE  KeysSet(s, a \o b, r, t)
<1> DEFINE c == a \o b
           n == Len(a)
           m == Len(b)
           u == WifiRun(s, c)[Len(c)]
<1>0. FormOK(r) /\ FormOK(t)
  BY DEF Sets
<1>a. PICK ea, ma, qa : EditOf(w, f, r, a, ea, ma, qa)
  BY DEF Sets
<1>b. PICK eb, mb, qb : EditOf(w, f, t, b, eb, mb, qb)
  BY DEF Sets
<1>1. /\ IsSeq(a) /\ IfLast(a, 2, r.name, "key", r.key) /\ 2 \in 1 .. n
      /\ IsSeq(b) /\ IfLast(b, 2, t.name, "key", t.key) /\ 2 \in 1 .. m /\ m >= 9
      /\ b[m - 1] = WifiCommit("wireless") /\ b[m] = ReloadCommand
      /\ \A k \in 1 .. m : ~AboutIf(b[k], r.name, "key")
  BY <1>0, <1>a, <1>b, KeyLast
<1>2. Joined(a, b, c)
  BY <1>1, JoinedIs
<1>3. HarmlessPlan(c)
  BY <1>0, <1>a, <1>b, <1>2, EditOfOK, HarmlessJoined
<1>4. /\ n \in Nat /\ m \in Nat /\ Len(c) = n + m
      /\ (\A k \in 1 .. n : c[k] = a[k]) /\ \A k \in 1 .. m : c[n + k] = b[k]
  BY <1>2 DEF Joined
<1>5. r.name \in Ifaces /\ t.name \in Ifaces
  BY <1>0 DEF FormOK
<1>6. WifiAlong(s, c)
  BY <1>3, HarmlessAlong
<1>7. Saved(u)
  <2>1. /\ n + m \in Nat /\ n + m >= 2 /\ n + (m - 1) = (n + m) - 1 /\ m - 1 \in 1 .. m /\ m \in 1 .. m
    BY <1>1, <1>4
  <2>2. c[(n + m) - 1] = WifiCommit("wireless") /\ c[n + m] = ReloadCommand
    BY <1>1, <1>4, <2>1
  <2> HIDE DEF c
  <2> QED BY <1>4, <1>6, <2>1, <2>2, CommittedAndReloaded
<1> HIDE DEF c, n, m
<1>8. IfLast(c, 2, r.name, "key", r.key) /\ 2 \in 1 .. Len(c)
  <2>1. /\ a[2] = SetIf(r.name, "key", r.key) /\ IfValue("key", r.key) /\ \A k \in 2 + 1 .. n : ~AboutIf(a[k], r.name, "key")
    BY <1>1 DEF IfLast, n
  <2>2. 2 \in 1 .. Len(c) /\ c[2] = a[2]
    BY <1>1, <1>4
  <2>3. ASSUME NEW k \in 2 + 1 .. Len(c) PROVE ~AboutIf(c[k], r.name, "key")
    <3>1. CASE k <= n
      <4>1. k \in 2 + 1 .. n /\ k \in 1 .. n
        BY <1>4, <3>1
      <4> QED BY <1>4, <2>1, <4>1
    <3>2. CASE ~(k <= n)
      <4>1. k - n \in 1 .. m /\ n + (k - n) = k
        BY <1>4, <3>2
      <4>2. c[k] = b[k - n]
        BY <1>4, <4>1
      <4> QED BY <1>1, <4>1, <4>2
    <3> QED BY <3>1, <3>2
  <2> QED BY <2>1, <2>2, <2>3 DEF IfLast
<1>9. IfLast(c, n + 2, t.name, "key", t.key) /\ n + 2 \in 1 .. Len(c)
  <2>1. /\ b[2] = SetIf(t.name, "key", t.key) /\ IfValue("key", t.key) /\ \A k \in 2 + 1 .. m : ~AboutIf(b[k], t.name, "key")
    BY <1>1 DEF IfLast, m
  <2>2. n + 2 \in 1 .. Len(c) /\ c[n + 2] = b[2]
    BY <1>1, <1>4
  <2>3. ASSUME NEW k \in (n + 2) + 1 .. Len(c) PROVE ~AboutIf(c[k], t.name, "key")
    <3>1. k - n \in 2 + 1 .. m /\ k - n \in 1 .. m /\ n + (k - n) = k
      BY <1>4
    <3>2. c[k] = b[k - n]
      BY <1>4, <3>1
    <3> QED BY <2>1, <3>1, <3>2
  <2> QED BY <2>1, <2>2, <2>3 DEF IfLast
<1>10. u.staged.ifc[r.name]["key"] = r.key /\ u.staged.ifc[t.name]["key"] = t.key
  BY <1>3, <1>5, <1>8, <1>9, IfLastCounts
<1> HIDE DEF u
<1>11. u.file.ifc[r.name].key = r.key /\ u.file.ifc[t.name].key = t.key
  BY <1>7, <1>10 DEF Saved
<1>12. KeysSet(s, c, r, t)
  BY <1>6, <1>11 DEF u, KeysSet
<1> QED BY <1>12 DEF c

\* What the quick setup leaves.
SetupKeys(u, key2, key5) == u.file.ifc["wifi2g"].key = key2 /\ u.file.ifc["wifi5g"].key \in {key2, key5}
SetupLeft(s, c, ok, key2, key5) == WifiAlong(s, c) /\ (ok => SetupKeys(WifiRun(s, c)[Len(c)], key2, key5))

LEMMA SetupNothing ==
  ASSUME NEW s, WifiUp(s), NEW ok, NEW key2, NEW key5, ok => SetupKeys(s, key2, key5)
  PROVE  SetupLeft(s, <<>>, ok, key2, key5)
<1>1. WifiAlong(s, <<>>) /\ WifiRun(s, <<>>)[Len(<<>>)] = s
  BY NoCommands
<1> QED BY <1>1, Zenon DEF SetupLeft

LEMMA SetupBoth ==
  ASSUME NEW s, WifiUp(s), NEW w, NEW f, NEW key2, NEW key5,
         NEW r, r.name = "wifi2g", r.key = key2, NEW a, Sets(w, f, r, a),
         NEW t, t.name = "wifi5g", t.key = key5, NEW b, Sets(w, f, t, b), NEW ok
  PROVE  SetupLeft(s, a \o b, ok, key2, key5)
<1>1. r.name # t.name
  OBVIOUS
<1> DEFINE c == a \o b
<1>2. KeysSet(s, c, r, t)
  BY <1>1, BothKeys, Zenon
<1> DEFINE u == WifiRun(s, c)[Len(c)]
<1>3. u.file.ifc["wifi2g"].key = key2 /\ u.file.ifc["wifi5g"].key = key5
  <2> HIDE DEF c
  <2> QED BY <1>2 DEF KeysSet
<1>4. SetupKeys(u, key2, key5)
  <2> HIDE DEF u
  <2> QED BY <1>3 DEF SetupKeys
<1>5. WifiAlong(s, c)
  BY <1>2, Zenon DEF KeysSet
<1> QED BY <1>4, <1>5, Zenon DEF SetupLeft, c, u

\* The second interface is refused: the first has been changed, and that is all.
LEMMA SetupHalf ==
  ASSUME NEW s, WifiUp(s), NEW w, NEW f, NEW key2, NEW key5,
         NEW r, NEW a, Sets(w, f, r, a), NEW ok, ~ok
  PROVE  SetupLeft(s, a \o <<>>, ok, key2, key5)
<1>0. PICK ea, ma, qa : EditOf(w, f, r, a, ea, ma, qa)
  BY DEF Sets
<1>1. HarmlessPlan(a) /\ IsSeq(a)
  BY <1>0, EditOfOK, KeyLast DEF Sets
<1>2. IsSeq(<<>>) /\ Len(<<>>) = 0
  BY TuplesAre
<1>3. Joined(a, <<>>, a \o <<>>)
  BY <1>1, <1>2, JoinedIs
<1>4. HarmlessPlan(<<>>)
  BY <1>2 DEF HarmlessPlan
<1> DEFINE c == a \o <<>>
<1>5. HarmlessPlan(c)
  BY <1>1, <1>3, <1>4, HarmlessJoined
<1>6. WifiAlong(s, c)
  <2> HIDE DEF c
  <2> QED BY <1>5, HarmlessAlong
<1> HIDE DEF c
<1>7. SetupLeft(s, c, ok, key2, key5)
  BY <1>6, Zenon DEF SetupLeft
<1> QED BY <1>7 DEF c

LEMMA QuickSetupDone ==
  ASSUME NEW w, IsDriver(w), NEW s, WifiUp(s), NEW key2, NEW key5, {key2, key5} \subseteq WifiKeys \union {ShortKey}
  PROVE  LET p == QuickSetup(w, s.file, key2, key5)
         IN  SetupLeft(s, p.cmds, p.ok, key2, key5)
<1> DEFINE p == QuickSetup(w, s.file, key2, key5)
           r == NormalizeQuickSetupRequest("wifi2g", key2)
           t == NormalizeQuickSetupRequest("wifi5g", key5)
           first == EditOneIface(w, s.file, r)
           second == EditOneIface(w, s.file, t)
           same == \A i \in {"wifi2g", "wifi5g"} : s.file.ifc[i].there /\ s.file.ifc[i].key = key2
<1>a. ASSUME p = Refused PROVE SetupLeft(s, p.cmds, p.ok, key2, key5)
  <2> HIDE DEF p
  <2>1. p.cmds = <<>> /\ ~p.ok
    BY <1>a, WifiPlansAre
  <2>2. SetupLeft(s, <<>>, p.ok, key2, key5)
    BY <2>1, SetupNothing
  <2> QED BY <2>1, <2>2, Zenon
<1>1. ASSUME ~ValidateQuickSetupRequest(key2, key5)
     PROVE  SetupLeft(s, p.cmds, p.ok, key2, key5)
  <2>1. p = Refused
    BY <1>1, Zenon DEF QuickSetup
  <2> QED BY <1>a, <2>1
<1>2. ASSUME ValidateQuickSetupRequest(key2, key5) /\ same
     PROVE  SetupLeft(s, p.cmds, p.ok, key2, key5)
  <2>1. p = Planned(<<>>)
    BY <1>2, Zenon DEF QuickSetup
  <2>2. s.file.ifc["wifi2g"].key = key2 /\ s.file.ifc["wifi5g"].key = key2
    BY <1>2
  <2>3. SetupKeys(s, key2, key5)
    BY <2>2 DEF SetupKeys
  <2> HIDE DEF p, same
  <2>4. p.cmds = <<>>
    BY <2>1, WifiPlansAre
  <2>5. SetupLeft(s, <<>>, p.ok, key2, key5)
    BY <2>3, SetupNothing
  <2> QED BY <2>4, <2>5
<1>3. ASSUME ValidateQuickSetupRequest(key2, key5) /\ ~same /\ ~first.ok
     PROVE  SetupLeft(s, p.cmds, p.ok, key2, key5)
  <2>1. p = Refused
    BY <1>3, Zenon DEF QuickSetup
  <2> QED BY <1>a, <2>1
<1>4. ASSUME ValidateQuickSetupRequest(key2, key5) /\ ~same /\ first.ok
     PROVE  SetupLeft(s, p.cmds, p.ok, key2, key5)
  <2>1. p = [ok |-> second.ok, cmds |-> first.cmds \o second.cmds]
    BY <1>4, Zenon DEF QuickSetup
  <2>2. p.cmds = first.cmds \o second.cmds /\ p.ok = second.ok
    <3> HIDE DEF p, first, second
    <3>1. p.cmds = first.cmds \o second.cmds
      BY <2>1
    <3>2. p.ok = second.ok
      BY <2>1, Zenon
    <3> QED BY <3>1, <3>2, Zenon
  <2>3. key2 \in WifiKeys /\ key5 \in WifiKeys
    BY <1>4 DEF ValidateQuickSetupRequest
  <2>4. /\ FormOK(r) /\ r.name = "wifi2g" /\ r.key = key2
        /\ FormOK(t) /\ t.name = "wifi5g" /\ t.key = key5
    <3> HIDE DEF r, t
    <3> QED BY <2>3, SetupForm DEF r, t
  <2> HIDE DEF r, t, p, same
  <2>5. Sets(w, s.file, r, first.cmds)
    BY <1>4, <2>4, EditOneIs DEF FormOK, Sets
  <2>6. CASE second.ok
    <3>1. Sets(w, s.file, t, second.cmds)
      BY <2>4, <2>6, EditOneIs DEF FormOK, Sets
    <3> HIDE DEF first, second
    <3>2. SetupLeft(s, first.cmds \o second.cmds, p.ok, key2, key5)
      BY <2>4, <2>5, <3>1, SetupBoth
    <3> QED BY <2>2, <3>2
  <2>7. CASE ~second.ok
    <3>1. second.cmds = <<>>
      BY <2>4, <2>7, EditOneIs DEF FormOK
    <3> HIDE DEF first, second
    <3>2. ~p.ok
      BY <2>2, <2>7, Zenon
    <3>3. SetupLeft(s, first.cmds \o <<>>, p.ok, key2, key5)
      BY <2>4, <2>5, <3>2, SetupHalf
    <3> QED BY <2>2, <3>1, <3>3
  <2> QED BY <2>6, <2>7
<1>5. SetupLeft(s, p.cmds, p.ok, key2, key5)
  <2> HIDE DEF first, same, p
  <2> QED BY <1>1, <1>2, <1>3, <1>4, Zenon
<1> QED BY <1>5

-----------------------------------------------------------------------------
(* Wireless: the numbers of the listing                                    *)

\* Interfaces of S that are there, each at most once.
Picked(s, a, S) ==
  /\ IsSeq(a) /\ \A k \in 1 .. Len(a) : a[k] \in S /\ s.ifc[a[k]].there
  /\ \A k, n \in 1 .. Len(a) : a[k] = a[n] => k = n

LEMMA OnePicked ==
  ASSUME NEW s, NEW i, NEW no
  PROVE  Picked(s, IF s.ifc[i].there /\ no THEN <<i>> ELSE <<>>, {i})
<1>1. CASE s.ifc[i].there /\ no
  <2>1. Picked(s, <<i>>, {i})
    BY <1>1, TuplesAre DEF Picked
  <2> QED BY <1>1, <2>1
<1>2. CASE ~(s.ifc[i].there /\ no)
  <2>1. Picked(s, <<>>, {i})
    BY TuplesAre DEF Picked
  <2> QED BY <1>2, <2>1
<1> QED BY <1>1, <1>2

LEMMA PickedJoin ==
  ASSUME NEW s, NEW a, NEW b, NEW S, NEW T, Picked(s, a, S), Picked(s, b, T), S \intersect T = {}
  PROVE  Picked(s, a \o b, S \union T)
<1> DEFINE c == a \o b
           n == Len(a)
           m == Len(b)
<1>1. Joined(a, b, c)
  BY JoinedIs DEF Picked
<1>2. /\ IsSeq(c) /\ n \in Nat /\ m \in Nat /\ Len(c) = n + m
      /\ (\A k \in 1 .. n : c[k] = a[k]) /\ \A k \in 1 .. m : c[n + k] = b[k]
  BY <1>1 DEF Joined
<1>3. /\ \A k \in 1 .. n : a[k] \in S /\ s.ifc[a[k]].there
      /\ \A k \in 1 .. m : b[k] \in T /\ s.ifc[b[k]].there
      /\ \A k, j \in 1 .. n : a[k] = a[j] => k = j
      /\ \A k, j \in 1 .. m : b[k] = b[j] => k = j
  BY DEF Picked
<1> HIDE DEF c, n, m
<1>4. ASSUME NEW k \in 1 .. Len(c)
      PROVE  \/ k \in 1 .. n /\ c[k] = a[k]
             \/ k - n \in 1 .. m /\ c[k] = b[k - n]
  <2>1. CASE k <= n
    BY <1>2, <2>1
  <2>2. CASE ~(k <= n)
    <3>1. k - n \in 1 .. m /\ n + (k - n) = k
      BY <1>2, <2>2
    <3> QED BY <1>2, <3>1
  <2> QED BY <2>1, <2>2
<1>5. ASSUME NEW k \in 1 .. Len(c) PROVE c[k] \in S \union T /\ s.ifc[c[k]].there
  BY <1>3, <1>4
<1>6. ASSUME NEW k \in 1 .. Len(c), NEW j \in 1 .. Len(c), c[k] = c[j] PROVE k = j
  <2>1. CASE k \in 1 .. n /\ c[k] = a[k]
    <3>1. j \in 1 .. n /\ c[j] = a[j]
      BY <1>3, <1>4, <1>6, <2>1
    <3> QED BY <1>3, <1>6, <2>1, <3>1
  <2>2. CASE k - n \in 1 .. m /\ c[k] = b[k - n]
    <3>1. j - n \in 1 .. m /\ c[j] = b[j - n]
      BY <1>3, <1>4, <1>6, <2>2
    <3>2. k - n = j - n
      BY <1>3, <1>6, <2>2, <3>1
    <3> QED BY <1>2, <3>2
  <2> QED BY <1>4, <2>1, <2>2
<1>7. Picked(s, c, S \union T)
  BY <1>2, <1>5, <1>6 DEF Picked
<1> QED BY <1>7 DEF c

\* The interfaces of a radio that are no guests have numbers of their own.
Numbered(list) ==
  \A m, n \in DOMAIN list :
    m # n /\ ~IsGuest(list[m].name) /\ ~IsGuest(list[n].name) /\ BandOf(list[m].name) = BandOf(list[n].name)
      => list[m].index # list[n].index
Entry(i, n) == [name |-> i, index |-> n]
LEMMA EntryIs == \A i, n : Entry(i, n).name = i /\ Entry(i, n).index = n
BY DEF Entry

\* Behind the known interfaces, which have the number 0, come the others.
LEMMA ListNumbered ==
  ASSUME NEW s, NEW known, Picked(s, known, {"wifi5g", "wifi2g", "guest5g", "guest2g"}),
         NEW others, Picked(s, others, Extra)
  PROVE  LET first == IF s.ifc["wifi2g"].there THEN 1 ELSE 0
         IN  Numbered([n \in 1 .. Len(known) |-> Entry(known[n], 0)] \o [n \in 1 .. Len(others) |-> Entry(others[n], first + n - 1)])
<1> DEFINE first == IF s.ifc["wifi2g"].there THEN 1 ELSE 0
           a == [n \in 1 .. Len(known) |-> Entry(known[n], 0)]
           b == [n \in 1 .. Len(others) |-> Entry(others[n], first + n - 1)]
           c == a \o b
           p == Len(known)
           q == Len(others)
<1>1. p \in Nat /\ q \in Nat
  BY DEF Picked, IsSeq
<1>2. /\ \A k \in 1 .. p : known[k] \in {"wifi5g", "wifi2g", "guest5g", "guest2g"} /\ s.ifc[known[k]].there
      /\ \A k, n \in 1 .. p : known[k] = known[n] => k = n
      /\ \A k \in 1 .. q : others[k] \in Extra
  BY DEF Picked
<1>3. first \in Nat /\ (s.ifc["wifi2g"].there => first = 1)
  OBVIOUS
<1> HIDE DEF first
<1>4. /\ a \in Seq({Entry(known[k], 0) : k \in 1 .. p}) /\ Len(a) = p
      /\ b \in Seq({Entry(others[k], first + k - 1) : k \in 1 .. q}) /\ Len(b) = q
  BY <1>1
<1>5. (\A k \in 1 .. p : a[k] = Entry(known[k], 0)) /\ \A k \in 1 .. q : b[k] = Entry(others[k], first + k - 1)
  OBVIOUS
<1> HIDE DEF a, b
<1>6. Joined(a, b, c)
  BY <1>4, JoinedIs DEF IsSeq
<1> HIDE DEF c, p, q
<1>7. /\ IsSeq(c) /\ Len(c) = p + q
      /\ (\A k \in 1 .. p : c[k] = Entry(known[k], 0)) /\ \A k \in 1 .. q : c[p + k] = Entry(others[k], first + k - 1)
  BY <1>4, <1>5, <1>6 DEF Joined
<1>8. DOMAIN c = 1 .. p + q
  BY <1>7 DEF IsSeq
<1>9. ASSUME NEW k \in DOMAIN c
      PROVE  \/ k \in 1 .. p /\ c[k].name = known[k] /\ c[k].index = 0
             \/ k - p \in 1 .. q /\ c[k].name = others[k - p] /\ c[k].index = first + (k - p) - 1
  <2>1. CASE k <= p
    BY <1>1, <1>7, <1>8, <2>1, EntryIs
  <2>2. CASE ~(k <= p)
    <3>1. k - p \in 1 .. q /\ p + (k - p) = k
      BY <1>1, <1>8, <2>2
    <3>2. c[k] = Entry(others[k - p], first + (k - p) - 1)
      BY <1>7, <3>1
    <3> QED BY <3>1, <3>2, EntryIs
  <2> QED BY <2>1, <2>2
<1>10. ASSUME NEW m \in DOMAIN c, NEW n \in DOMAIN c, m # n, ~IsGuest(c[m].name), ~IsGuest(c[n].name),
              BandOf(c[m].name) = BandOf(c[n].name)
       PROVE  c[m].index # c[n].index
  <2>0. m \in Int /\ n \in Int
    BY <1>1, <1>8
  <2>1. CASE m \in 1 .. p /\ c[m].name = known[m] /\ c[m].index = 0
    <3>1. CASE n \in 1 .. p /\ c[n].name = known[n] /\ c[n].index = 0
      <4>1. known[m] \in {"wifi5g", "wifi2g"} /\ known[n] \in {"wifi5g", "wifi2g"}
        BY <1>2, <1>10, <2>1, <3>1 DEF IsGuest
      <4>2. known[m] = known[n]
        BY <1>10, <2>1, <3>1, <4>1 DEF BandOf
      <4> QED BY <1>2, <1>10, <2>1, <3>1, <4>2
    <3>2. CASE n - p \in 1 .. q /\ c[n].name = others[n - p] /\ c[n].index = first + (n - p) - 1
      <4>1. known[m] \in {"wifi5g", "wifi2g"} /\ others[n - p] \in Extra
        BY <1>2, <1>10, <2>1, <3>2 DEF IsGuest
      <4>2. BandOf(others[n - p]) = "2g"
        BY <4>1 DEF BandOf, Extra
      <4>3. known[m] = "wifi2g"
        BY <1>10, <2>1, <3>2, <4>1, <4>2 DEF BandOf
      <4>4. first = 1
        BY <1>2, <1>3, <2>1, <4>3
      <4>5. first + (n - p) - 1 = n - p /\ n - p # 0
        BY <1>1, <2>0, <3>2, <4>4
      <4> QED BY <2>1, <3>2, <4>5
    <3> QED BY <1>9, <3>1, <3>2
  <2>2. CASE m - p \in 1 .. q /\ c[m].name = others[m - p] /\ c[m].index = first + (m - p) - 1
    <3>1. CASE n \in 1 .. p /\ c[n].name = known[n] /\ c[n].index = 0
      <4>1. known[n] \in {"wifi5g", "wifi2g"} /\ others[m - p] \in Extra
        BY <1>2, <1>10, <2>2, <3>1 DEF IsGuest
      <4>2. BandOf(others[m - p]) = "2g"
        BY <4>1 DEF BandOf, Extra
      <4>3. known[n] = "wifi2g"
        BY <1>10, <2>2, <3>1, <4>1, <4>2 DEF BandOf
      <4>4. first = 1
        BY <1>2, <1>3, <3>1, <4>3
      <4>5. first + (m - p) - 1 = m - p /\ m - p # 0
        BY <1>1, <2>0, <2>2, <4>4
      <4> QED BY <2>2, <3>1, <4>5
    <3>2. CASE n - p \in 1 .. q /\ c[n].name = others[n - p] /\ c[n].index = first + (n - p) - 1
      <4>1. first + (m - p) - 1 # first + (n - p) - 1
        BY <1>1, <1>3, <1>10, <2>0
      <4> QED BY <2>2, <3>2, <4>1
    <3> QED BY <1>9, <3>1, <3>2
  <2> QED BY <1>9, <2>1, <2>2
<1>11. Numbered(c)
  BY <1>10 DEF Numbered
<1> QED BY <1>11 DEF c, a, b, p, q, first

LEMMA ListedNumbered ==
  ASSUME NEW s, NEW skipped
  PROVE  Numbered(Listed(s, skipped))
<1> DEFINE present(i) == IF s.ifc[i].there /\ i \notin skipped THEN <<i>> ELSE <<>>
           known == present("wifi5g") \o present("wifi2g") \o present("guest5g") \o present("guest2g")
           others == present("ap2") \o present("wisp")
           first == IF s.ifc["wifi2g"].there THEN 1 ELSE 0
<1>1. ASSUME NEW i PROVE Picked(s, present(i), {i})
  BY OnePicked
<1> HIDE DEF present
<1>2. Picked(s, known, {"wifi5g", "wifi2g", "guest5g", "guest2g"})
  <2>1. Picked(s, present("wifi5g") \o present("wifi2g"), {"wifi5g"} \union {"wifi2g"})
    BY <1>1, PickedJoin
  <2>2. Picked(s, present("wifi5g") \o present("wifi2g") \o present("guest5g"), {"wifi5g"} \union {"wifi2g"} \union {"guest5g"})
    BY <1>1, <2>1, PickedJoin
  <2>3. Picked(s, known, {"wifi5g"} \union {"wifi2g"} \union {"guest5g"} \union {"guest2g"})
    BY <1>1, <2>2, PickedJoin
  <2>4. {"wifi5g"} \union {"wifi2g"} \union {"guest5g"} \union {"guest2g"} = {"wifi5g", "wifi2g", "guest5g", "guest2g"}
    OBVIOUS
  <2> HIDE DEF known
  <2> QED BY <2>3, <2>4
<1>3. Picked(s, others, Extra)
  <2>1. Picked(s, others, {"ap2"} \union {"wisp"})
    BY <1>1, PickedJoin
  <2>2. {"ap2"} \union {"wisp"} = Extra
    BY DEF Extra
  <2> HIDE DEF others
  <2> QED BY <2>1, <2>2
<1> HIDE DEF known, others
<1>4. Numbered([n \in 1 .. Len(known) |-> Entry(known[n], 0)] \o [n \in 1 .. Len(others) |-> Entry(others[n], first + n - 1)])
  BY <1>2, <1>3, ListNumbered
<1> HIDE DEF first
<1>5. Listed(s, skipped) = [n \in 1 .. Len(known) |-> Entry(known[n], 0)] \o [n \in 1 .. Len(others) |-> Entry(others[n], first + n - 1)]
  BY DEF Listed, Entry, known, others, first, present
<1> QED BY <1>4, <1>5

LEMMA IfacesNumbered ==
  ASSUME NEW w, IsDriver(w), NEW s
  PROVE  Numbered(ListIfaces(w, s))
<1>1. Numbered(QcaListIfaces(s))
  <2> DEFINE names == <<"wifi5g", "wifi2g", "guest5g", "guest2g">>
             c == [n \in 1 .. 4 |-> Entry(names[n], 0)]
  <2>1. /\ names[1] = "wifi5g" /\ names[2] = "wifi2g" /\ names[3] = "guest5g" /\ names[4] = "guest2g"
    OBVIOUS
  <2> HIDE DEF names
  <2>2. DOMAIN c = 1 .. 4 /\ \A n \in 1 .. 4 : c[n].name = names[n]
    BY EntryIs
  <2> HIDE DEF c
  <2>3. \A n \in 1 .. 4 : n = 1 \/ n = 2 \/ n = 3 \/ n = 4
    OBVIOUS
  <2>4. Numbered(c)
    <3> SUFFICES ASSUME NEW m \in 1 .. 4, NEW n \in 1 .. 4, m # n, ~IsGuest(c[m].name), ~IsGuest(c[n].name),
                        BandOf(c[m].name) = BandOf(c[n].name)
                 PROVE  FALSE
      BY <2>2 DEF Numbered
    <3>1. (m = 1 \/ m = 2) /\ (n = 1 \/ n = 2)
      BY <2>1, <2>2, <2>3 DEF IsGuest
    <3>2. c[1].name = "wifi5g" /\ c[2].name = "wifi2g" /\ BandOf("wifi5g") # BandOf("wifi2g")
      BY <2>1, <2>2 DEF BandOf
    <3> QED BY <3>1, <3>2
  <2>5. QcaListIfaces(s) = c
    BY DEF QcaListIfaces, Entry, c, names
  <2> QED BY <2>4, <2>5
<1>2. Numbered(ZXListIfaces(s)) /\ Numbered(MTListIfaces(s))
  BY ListedNumbered DEF ZXListIfaces, MTListIfaces
<1>3. \/ w.type = "mtk" \/ w.type = "qcawificfg80211" \/ w.type = "mt7981"
  BY DEF IsDriver, NewGLinetMT3000Wifi, NewQcaWifi, NewZX30000Wifi
<1> QED BY <1>1, <1>2, <1>3 DEF ListIfaces

-----------------------------------------------------------------------------
(* Wireless: the page                                                      *)

\* What the answer to the request q promises of the sides u.
Promised(w, u, q) ==
  LET info == WirelessInfo(w, u.file, q.name)
  IN  /\ q.kind = "edit" => EditShown(w, u.file, q.name, q.info)
      /\ q.kind = "power" => info.power = q.power
      /\ q.kind = "enable" /\ ~IsGuest(q.name) =>
           (~u.file.dev[BandOf(q.name)].off /\ ~u.file.ifc[q.name].off) = q.enable
      /\ q.kind = "enable" /\ IsGuest(q.name) => u.file.ifc[q.name].off = ~q.enable
      /\ q.kind = "setup" => SetupKeys(u, q.keys[1], q.keys[2])
      /\ q.kind \notin {"none", "setup"} => Current(u)

\* The requests, and what their answers promise.
EnableRequest(i, e) == [kind |-> "enable", name |-> i, enable |-> e]
PowerRequest(i, p) == [kind |-> "power", name |-> i, power |-> p]
EditRequest(i, r) == [kind |-> "edit", name |-> i, info |-> r]
SetupRequest(k, l) == [kind |-> "setup", name |-> "wifi2g", keys |-> <<k, l>>]

LEMMA EnablePromise ==
  ASSUME NEW w, NEW u, NEW i, NEW e, Current(u),
         ~IsGuest(i) => (~u.file.dev[BandOf(i)].off /\ ~u.file.ifc[i].off) = e,
         IsGuest(i) => u.file.ifc[i].off = ~e
  PROVE  Promised(w, u, EnableRequest(i, e))
<1> DEFINE q == EnableRequest(i, e)
<1>1. q.kind = "enable" /\ q.name = i
  BY DEF EnableRequest
<1>2. q.enable = e
  BY Zenon DEF EnableRequest
<1> HIDE DEF q
<1>3. /\ q.kind # "edit" /\ q.kind # "power" /\ q.kind # "setup"
  BY <1>1
<1>4. /\ ~IsGuest(q.name) => (~u.file.dev[BandOf(q.name)].off /\ ~u.file.ifc[q.name].off) = q.enable
      /\ IsGuest(q.name) => u.file.ifc[q.name].off = ~q.enable
  BY <1>1, <1>2, Zenon
<1>5. Promised(w, u, q)
  BY <1>3, <1>4, Zenon DEF Promised
<1> QED BY <1>5 DEF q

LEMMA PowerPromise ==
  ASSUME NEW w, NEW u, NEW i, NEW p, Current(u), WirelessInfo(w, u.file, i).power = p
  PROVE  Promised(w, u, PowerRequest(i, p))
<1> DEFINE q == PowerRequest(i, p)
<1>1. q.kind = "power" /\ q.name = i /\ q.power = p
  BY DEF PowerRequest
<1> HIDE DEF q
<1>3. /\ q.kind # "edit" /\ q.kind # "enable" /\ q.kind # "setup"
  BY <1>1
<1>4. WirelessInfo(w, u.file, q.name).power = q.power
  BY <1>1
<1>5. Promised(w, u, q)
  BY <1>3, <1>4, Zenon DEF Promised
<1> QED BY <1>5 DEF q

LEMMA EditPromise ==
  ASSUME NEW w, NEW u, NEW i, NEW r, Current(u), EditShown(w, u.file, i, r)
  PROVE  Promised(w, u, EditRequest(i, r))
<1> DEFINE q == EditRequest(i, r)
<1>1. q.kind = "edit" /\ q.name = i /\ q.info = r
  BY DEF EditRequest
<1> HIDE DEF q
<1>3. /\ q.kind # "power" /\ q.kind # "enable" /\ q.kind # "setup"
  BY <1>1
<1>4. EditShown(w, u.file, q.name, q.info)
  BY <1>1
<1>5. Promised(w, u, q)
  BY <1>3, <1>4, Zenon DEF Promised
<1> QED BY <1>5 DEF q

LEMMA SetupPromise ==
  ASSUME NEW w, NEW u, NEW k, NEW l, SetupKeys(u, k, l)
  PROVE  Promised(w, u, SetupRequest(k, l))
<1> DEFINE q == SetupRequest(k, l)
<1>1. q.kind = "setup" /\ q.keys[1] = k /\ q.keys[2] = l
  BY DEF SetupRequest
<1> HIDE DEF q
<1>3. /\ q.kind # "power" /\ q.kind # "enable" /\ q.kind # "edit" /\ q.kind \in {"none", "setup"}
  BY <1>1
<1>4. SetupKeys(u, q.keys[1], q.keys[2])
  BY <1>1
<1>5. Promised(w, u, q)
  BY <1>3, <1>4, Zenon DEF Promised
<1> QED BY <1>5 DEF q

\* The inductive invariant of the page.
WifiInv ==
  /\ WifiUp(wl) /\ selected \in 0 .. Len(Drivers) /\ wserved \in 0 .. MaxWifiRequests
  /\ asked # NoRequest => Promised(Drivers[selected], wl, asked)

LEMMA PageKept == WifiInv => WirelessCorrect
<1> SUFFICES ASSUME WifiInv PROVE WirelessCorrect
  OBVIOUS
<1>1. wl.file \in Config /\ wl.staged \in Config /\ wl.live \in Config /\ Guarded(wl.live, wl.file.guest)
  BY SidesOK DEF WifiInv
<1>2. WirelessTypeOK
  BY <1>1 DEF WirelessTypeOK, WifiInv
<1>3. AsAsked
  BY Zenon DEF WifiInv, Promised, AsAsked, EditShown, SetupKeys
<1>4. RadioCurrent
  <2>1. CASE asked = NoRequest
    BY <2>1 DEF RadioCurrent, NoRequest
  <2>2. CASE asked # NoRequest
    <3>1. asked.kind \notin {"none", "setup"} => Current(wl)
      BY <2>2, Zenon DEF WifiInv, Promised
    <3> QED BY <3>1 DEF RadioCurrent, Current
  <2> QED BY <2>1, <2>2
<1>5. GuestIsolated
  BY <1>1 DEF GuestIsolated, Guarded
<1>6. IndexPerBand
  <2>1. ASSUME selected # 0 PROVE Numbered(ListIfaces(Drivers[selected], wl.file))
    <3>1. selected \in 1 .. Len(Drivers)
      BY <2>1, DriversAre DEF WifiInv
    <3> QED BY <3>1, DriversAre, IfacesNumbered
  <2> QED BY <2>1, Zenon DEF IndexPerBand, Numbered
<1> QED BY <1>2, <1>3, <1>4, <1>5, <1>6 DEF WirelessCorrect

LEMMA selectWifiIs == selectWifi \in 0 .. Len(Drivers)
<1> DEFINE fits == {n \in 1 .. Len(Drivers) : Drivers[n].type = radio}
           first == CHOOSE n \in fits : \A m \in fits : n <= m
<1>0. Len(Drivers) = 3
  BY DriversAre
<1>1. \A n \in fits : n = 1 \/ n = 2 \/ n = 3
  BY <1>0
<1>2. ASSUME fits # {} PROVE first \in fits
  <2> HIDE DEF fits
  <2>1. \E n \in fits : \A m \in fits : n <= m
    <3>1. CASE 1 \in fits
      BY <1>1, <3>1
    <3>2. CASE 1 \notin fits /\ 2 \in fits
      BY <1>1, <3>2
    <3>3. CASE 1 \notin fits /\ 2 \notin fits
      BY <1>1, <1>2, <3>3
    <3> QED BY <3>1, <3>2, <3>3
  <2> QED BY <2>1
<1>3. \A n \in fits : n \in 0 .. Len(Drivers)
  BY <1>0, <1>1
<1>4. 0 \in 0 .. Len(Drivers)
  BY <1>0
<1>5. selectWifi = IF selected \in fits THEN selected ELSE IF fits = {} THEN 0 ELSE first
  BY Zenon DEF selectWifi
<1> HIDE DEF fits, first
<1> QED BY <1>2, <1>3, <1>4, <1>5

\* Where a shell may be killed is a place between its commands.
LEMMA ServeKeeps ==
  ASSUME WifiInv, NEW q, NEW p, WifiServe(q, p), WifiAlong(wl, p.cmds),
         p.ok => Promised(Wifi, WifiRun(wl, p.cmds)[Len(p.cmds)], q)
  PROVE  WifiInv'
<1>1. PICK k \in Cuts(p.cmds) :
        /\ wl' = WifiRun(wl, p.cmds)[k]
        /\ asked' = IF p.ok /\ k = Len(p.cmds) THEN q ELSE NoRequest
  BY Zenon DEF WifiServe
<1>2. k \in 0 .. Len(p.cmds)
  BY DEF Cuts
<1>3. WifiUp(wl')
  BY <1>1, <1>2 DEF WifiAlong
<1>4. selected' = selectWifi /\ wserved' = wserved + 1 /\ wserved < MaxWifiRequests
  BY Zenon DEF WifiServe
<1>5. selected' \in 0 .. Len(Drivers)
  BY <1>4, selectWifiIs
<1>6. wserved' \in 0 .. MaxWifiRequests
  BY <1>4, WirelessAssumption DEF WifiInv
<1>7. ASSUME asked' # NoRequest PROVE Promised(Drivers[selected'], wl', asked')
  <2>1. p.ok /\ k = Len(p.cmds)
    BY <1>1, <1>7, Zenon
  <2>2. asked' = q
    BY <1>1, <2>1, Zenon
  <2>3. wl' = WifiRun(wl, p.cmds)[Len(p.cmds)]
    BY <1>1, <2>1, Zenon
  <2>4. Promised(Wifi, wl', asked')
    BY <2>1, <2>2, <2>3, Zenon
  <2>5. Drivers[selected'] = Wifi
    BY <1>4 DEF Wifi
  <2> QED BY <2>4, <2>5, Zenon
<1> QED BY <1>3, <1>5, <1>6, <1>7, Zenon DEF WifiInv

LEMMA WifiIsDriver == selectWifi # 0 => IsDriver(Wifi)
<1> SUFFICES ASSUME selectWifi # 0 PROVE IsDriver(Wifi)
  OBVIOUS
<1>1. selectWifi \in 1 .. Len(Drivers)
  BY selectWifiIs, DriversAre
<1> QED BY <1>1, DriversAre DEF Wifi

LEMMA RefusedAlong ==
  ASSUME NEW s, WifiUp(s)
  PROVE  WifiAlong(s, Refused.cmds) /\ ~Refused.ok
BY NoCommands, WifiPlansAre, Zenon

LEMMA EnableKeeps == WifiInv /\ WirelessEnableIface => WifiInv'
<1> SUFFICES ASSUME WifiInv, WirelessEnableIface PROVE WifiInv'
  OBVIOUS
<1>1. PICK i \in Ifaces \ Extra, e \in BOOLEAN : WifiServe(EnableRequest(i, e), EnableIface(wl.file, i, e))
  BY Zenon DEF WirelessEnableIface, EnableRequest
<1> DEFINE p == EnableIface(wl.file, i, e)
<1>2. WifiUp(wl) /\ i \in Ifaces
  BY DEF WifiInv
<1>3. WifiAlong(wl, p.cmds) /\ (p.ok => Promised(Wifi, WifiRun(wl, p.cmds)[Len(p.cmds)], EnableRequest(i, e)))
  <2>1. CASE ~wl.file.ifc[i].there
    <3>1. p = Refused
      BY <2>1, Zenon DEF EnableIface
    <3> HIDE DEF p
    <3>2. WifiAlong(wl, Refused.cmds) /\ ~Refused.ok
      BY <1>2, RefusedAlong
    <3> QED BY <3>1, <3>2, Zenon
  <2>2. CASE wl.file.ifc[i].there /\ IsGuest(i)
    <3> DEFINE c == EnableGuestIface(wl.file, i, e)
               u == WifiRun(wl, c)[Len(c)]
    <3>1. p = Planned(c)
      BY <2>2, Zenon DEF EnableIface
    <3>2. WifiAlong(wl, c) /\ Current(u) /\ u.file.ifc[i].off = ~e
      BY <1>2, <2>2, EnableGuestDone, Zenon
    <3> HIDE DEF p, c
    <3>3. p.cmds = c
      BY <3>1, WifiPlansAre
    <3> HIDE DEF u
    <3>4. Promised(Wifi, u, EnableRequest(i, e))
      BY <2>2, <3>2, EnablePromise, Zenon
    <3> QED BY <3>2, <3>3, <3>4, Zenon DEF u
  <2>3. CASE wl.file.ifc[i].there /\ ~IsGuest(i)
    <3> DEFINE c == enableIface(wl.file, i, e)
               u == WifiRun(wl, c)[Len(c)]
    <3>1. p = Planned(c)
      BY <2>3, Zenon DEF EnableIface
    <3>2. WifiAlong(wl, c) /\ Current(u) /\ (~u.file.dev[BandOf(i)].off /\ ~u.file.ifc[i].off) = e
      BY <1>2, <2>3, EnableDone, Zenon
    <3> HIDE DEF p, c
    <3>3. p.cmds = c
      BY <3>1, WifiPlansAre
    <3> HIDE DEF u
    <3>4. Promised(Wifi, u, EnableRequest(i, e))
      BY <2>3, <3>2, EnablePromise, Zenon
    <3> QED BY <3>2, <3>3, <3>4, Zenon DEF u
  <2> QED BY <2>1, <2>2, <2>3
<1> HIDE DEF p
<1>4. WifiServe(EnableRequest(i, e), p)
  BY <1>1 DEF p
<1> QED BY <1>3, <1>4, ServeKeeps, Zenon

LEMMA PowerKeeps == WifiInv /\ WirelessSetDevicePower => WifiInv'
<1> SUFFICES ASSUME WifiInv, WirelessSetDevicePower PROVE WifiInv'
  OBVIOUS
<1>1. selectWifi # 0
  BY Zenon DEF WirelessSetDevicePower
<1>2. PICK b \in Bands, web \in WebPowers :
        LET v == IF web <= 0 \/ web > 100 THEN 100 ELSE web
        IN  WifiServe(PowerRequest(Main[b], v), SetPower(Wifi, b, v))
  BY Zenon DEF WirelessSetDevicePower, PowerRequest
<1> DEFINE v == IF web <= 0 \/ web > 100 THEN 100 ELSE web
           p == SetPower(Wifi, b, v)
           u == WifiRun(wl, p.cmds)[Len(p.cmds)]
<1>3. v \in {30, 50, 70, 100}
  BY DEF WebPowers
<1>4. WifiServe(PowerRequest(Main[b], v), p)
  BY <1>2, Zenon
<1> HIDE DEF v
<1>5. WifiUp(wl) /\ IsDriver(Wifi)
  BY <1>1, WifiIsDriver DEF WifiInv
<1>6. WifiAlong(wl, p.cmds) /\ Current(u) /\ WirelessInfo(Wifi, u.file, Main[b]).power = v
  BY <1>3, <1>5, PowerDone
<1> HIDE DEF u, p
<1>7. Promised(Wifi, u, PowerRequest(Main[b], v))
  BY <1>6, PowerPromise, Zenon
<1> QED BY <1>4, <1>6, <1>7, ServeKeeps, Zenon DEF u

LEMMA SetupKeeps == WifiInv /\ WirelessQuickSetupIface => WifiInv'
<1> SUFFICES ASSUME WifiInv, WirelessQuickSetupIface PROVE WifiInv'
  OBVIOUS
<1>1. selectWifi # 0
  BY Zenon DEF WirelessQuickSetupIface
<1>2. PICK k, l \in WifiKeys \union {ShortKey} : WifiServe(SetupRequest(k, l), QuickSetup(Wifi, wl.file, k, l))
  BY Zenon DEF WirelessQuickSetupIface, SetupRequest
<1> DEFINE p == QuickSetup(Wifi, wl.file, k, l)
           u == WifiRun(wl, p.cmds)[Len(p.cmds)]
<1>5. WifiUp(wl) /\ IsDriver(Wifi) /\ {k, l} \subseteq WifiKeys \union {ShortKey}
  BY <1>1, WifiIsDriver DEF WifiInv
<1>6. SetupLeft(wl, p.cmds, p.ok, k, l)
  BY <1>5, QuickSetupDone, Zenon
<1>4. WifiServe(SetupRequest(k, l), p)
  BY <1>2, Zenon
<1> HIDE DEF p
<1>7. WifiAlong(wl, p.cmds) /\ (p.ok => SetupKeys(u, k, l))
  BY <1>6, Zenon DEF SetupLeft
<1>8. p.ok => Promised(Wifi, u, SetupRequest(k, l))
  <2> HIDE DEF u
  <2> QED BY <1>7, SetupPromise, Zenon
<1> QED BY <1>4, <1>7, <1>8, ServeKeeps, Zenon

\* A form with one thing changed.
LEMMA FormChanged ==
  ASSUME NEW x, FormOK(x), DOMAIN x = {"name", "key", "enc", "hidden", "network", "channel", "ht", "hw", "power", "off"},
         NEW w, NEW r \in Edits(w, x)
  PROVE  FormOK(r) /\ r.name = x.name
<1>1. ASSUME NEW t, r = [x EXCEPT !.enc = t] \/ r = [x EXCEPT !.ht = t] \/ r = [x EXCEPT !.hw = t]
      PROVE  FormOK(r) /\ r.name = x.name
  BY <1>1 DEF FormOK
<1>2. ASSUME NEW h \in BOOLEAN, r = [x EXCEPT !.hidden = h] PROVE FormOK(r) /\ r.name = x.name
  BY <1>2 DEF FormOK
<1>3. CASE r = [x EXCEPT !.channel = "6"]
  BY <1>3 DEF FormOK
<1>4. CASE r = [x EXCEPT !.network = "guest"]
  BY <1>4 DEF FormOK
<1>5. ASSUME NEW k \in WifiKeys, r = [x EXCEPT !.key = k] PROVE FormOK(r) /\ r.name = x.name
  BY <1>5 DEF FormOK
<1>6. \/ \E t : r = [x EXCEPT !.enc = t] \/ r = [x EXCEPT !.ht = t] \/ r = [x EXCEPT !.hw = t]
      \/ r \in {[x EXCEPT !.channel = "6"], [x EXCEPT !.hidden = ~@], [x EXCEPT !.network = "guest"]}
      \/ \E k \in WifiKeys : r = [x EXCEPT !.key = k]
  BY Zenon DEF Edits
<1>7. CASE r = [x EXCEPT !.hidden = ~@]
  <2>1. PICK h \in BOOLEAN : h = ~x.hidden
    BY Zenon
  <2>2. r = [x EXCEPT !.hidden = h]
    BY <1>7, <2>1, Zenon
  <2> QED BY <1>2, <2>2
<1>8. CASE r \in {[x EXCEPT !.channel = "6"], [x EXCEPT !.hidden = ~@], [x EXCEPT !.network = "guest"]}
  <2>1. r = [x EXCEPT !.channel = "6"] \/ r = [x EXCEPT !.hidden = ~@] \/ r = [x EXCEPT !.network = "guest"]
    BY <1>8, Zenon
  <2> QED BY <1>3, <1>4, <1>7, <2>1, Zenon
<1> QED BY <1>1, <1>5, <1>6, <1>8, Zenon

LEMMA EditKeeps == WifiInv /\ WirelessEditIface => WifiInv'
<1> SUFFICES ASSUME WifiInv, WirelessEditIface PROVE WifiInv'
  OBVIOUS
<1>1. selectWifi # 0
  BY Zenon DEF WirelessEditIface
<1>2. PICK i \in Ifaces \ Extra : \E r \in Edits(Wifi, WirelessInfo(Wifi, wl.file, i)) :
        WifiServe(EditRequest(i, r), EditIface(Wifi, wl.file, r))
  BY Zenon DEF WirelessEditIface, EditRequest
<1>3. PICK r \in Edits(Wifi, WirelessInfo(Wifi, wl.file, i)) : WifiServe(EditRequest(i, r), EditIface(Wifi, wl.file, r))
  BY <1>2, Zenon
<1>4. WifiUp(wl) /\ IsDriver(Wifi) /\ i \in Ifaces /\ wl.file \in Config
  BY <1>1, WifiIsDriver, SidesOK DEF WifiInv
<1>5. FormOK(r) /\ r.name = i
  BY <1>4, ShownOK, FormChanged
<1> DEFINE p == EditIface(Wifi, wl.file, r)
           u == WifiRun(wl, p.cmds)[Len(p.cmds)]
<1>6. WifiAlong(wl, p.cmds) /\ (p.ok => Current(u) /\ EditShown(Wifi, u.file, r.name, r))
  BY <1>4, <1>5, EditIfaceDone, Zenon
<1>7. WifiServe(EditRequest(i, r), p)
  BY <1>3, Zenon
<1> HIDE DEF p
<1>8. p.ok => Promised(Wifi, u, EditRequest(i, r))
  <2> HIDE DEF u
  <2>1. p.ok => EditShown(Wifi, u.file, i, r)
    BY <1>5, <1>6
  <2> QED BY <1>6, <2>1, EditPromise, Zenon
<1> QED BY <1>6, <1>7, <1>8, ServeKeeps, Zenon

LEMMA RefusalKeeps == WifiInv /\ NotCompatible => WifiInv'
<1> SUFFICES ASSUME WifiInv, NotCompatible PROVE WifiInv'
  OBVIOUS
<1>1. WifiServe(NoRequest, Refused)
  BY Zenon DEF NotCompatible
<1>2. WifiAlong(wl, Refused.cmds) /\ ~Refused.ok
  BY RefusedAlong DEF WifiInv
<1> QED BY <1>1, <1>2, ServeKeeps, Zenon

\* The packages of a firmware.
LEMMA FirmwareUp ==
  ASSUME NEW dev \in WDev, NEW ifc \in WIfc, NEW guest \in SUBSET GuestParts,
         \A i \in Ifaces : IsGuest(i) => ifc[i].off, NEW c, c = Cfg(dev, ifc, guest)
  PROVE  WifiUp(Sides(c, c, c))
<1>1. c \in Config /\ c.dev = dev /\ c.ifc = ifc /\ c.guest = guest
  BY CfgIs
<1>2. \A g : Guarded(c, g)
  BY <1>1, GuestsAre DEF Guarded
<1>3. Together(c, c)
  BY DEF Together
<1> QED BY <1>1, <1>2, <1>3 DEF WifiUp

LEMMA DevDefaultIs ==
  ASSUME NEW w, NEW x \in BOOLEAN, NEW y \in BOOLEAN
  PROVE  [DevDefault(w) EXCEPT !.off = x, !.noscan = y] \in DevRec
<1>1. PICK no \in BOOLEAN : no = FALSE
  BY Zenon
<1>2. DevDefault(w) = [off |-> no, channel |-> "auto", ht |-> "40", require |-> EmptyText, power |-> 30, noscan |-> no]
  BY <1>1, Zenon DEF DevDefault
<1>3. DevDefault(w) \in DevRec
  BY <1>2 DEF DevRec
<1>4. ASSUME NEW d \in DevRec PROVE [d EXCEPT !.off = x, !.noscan = y] \in DevRec
  BY DEF DevRec
<1> DEFINE d == DevDefault(w)
<1>5. d \in DevRec
  BY <1>3
<1> HIDE DEF d
<1>6. [d EXCEPT !.off = x, !.noscan = y] \in DevRec
  BY <1>4, <1>5, Zenon
<1> QED BY <1>6 DEF d

LEMMA IfDefaultIs ==
  ASSUME NEW w, IsDriver(w), NEW i, NEW x \in BOOLEAN
  PROVE  /\ [IfDefault(w, i) EXCEPT !.there = x] \in IfRec
         /\ [IfDefault(w, i) EXCEPT !.there = x].off = IsGuest(i)
<1>1. PICK yes \in BOOLEAN : yes = TRUE
  BY Zenon
<1>2. PICK no \in BOOLEAN : no = FALSE
  BY Zenon
<1>a. IsGuest(i) \in BOOLEAN
  BY DEF IsGuest
<1>3. PICK g \in BOOLEAN : g = IsGuest(i)
  BY <1>a, Zenon
<1> DEFINE key == CHOOSE k \in WifiKeys : TRUE
           enc == w.vals[2]
           home == IF IsGuest(i) THEN "guest" ELSE "lan"
<1>4. key \in WifiKeys
  BY WirelessAssumption
<1>5. enc \in EncValues
  <2>1. 2 \in DOMAIN w.vals
    BY DEF IsDriver, NewQcaWifi, NewZX30000Wifi, NewGLinetMT3000Wifi
  <2> QED BY <2>1, EncValuesAre
<1>6. home \in {"lan", "guest"}
  OBVIOUS
<1>7. IfDefault(w, i) = [there |-> yes, off |-> g, key |-> key, enc |-> enc, sae |-> no, hidden |-> no, network |-> home]
  BY <1>1, <1>2, <1>3, Zenon DEF IfDefault
<1> HIDE DEF key, enc, home
<1>8. [IfDefault(w, i) EXCEPT !.there = x] \in IfRec /\ [IfDefault(w, i) EXCEPT !.there = x].off = g
  BY <1>4, <1>5, <1>6, <1>7 DEF IfRec
<1> QED BY <1>3, <1>8, Zenon

LEMMA PageStarts == WirelessInit => WifiInv
<1> SUFFICES ASSUME WirelessInit PROVE WifiInv
  OBVIOUS
<1> DEFINE n == IndexOf([m \in 1 .. Len(Drivers) |-> Drivers[m].type], radio)
           w == IF n = 0 THEN NewQcaWifi ELSE Drivers[n]
<1>1. selected = 0 /\ asked = NoRequest /\ wserved = 0
  BY Zenon DEF WirelessInit
<1>2. PICK first : LET Still(b) == first.used /\ b = "2g"
                       c == [dev |-> [b \in Bands |-> [DevDefault(w) EXCEPT !.off = Still(b), !.noscan = Still(b)]],
                             ifc |-> [i \in Ifaces |-> [IfDefault(w, i) EXCEPT !.there = i \notin first.absent]],
                             guest |-> IF first.used THEN GuestParts ELSE {}]
                   IN  wl = [file |-> c, staged |-> c, live |-> c]
  BY Zenon DEF WirelessInit
<1> DEFINE Still(b) == first.used /\ b = "2g"
           dev == [b \in Bands |-> [DevDefault(w) EXCEPT !.off = Still(b), !.noscan = Still(b)]]
           ifc == [i \in Ifaces |-> [IfDefault(w, i) EXCEPT !.there = i \notin first.absent]]
           guest == IF first.used THEN GuestParts ELSE {}
           c == Cfg(dev, ifc, guest)
<1>3. wl = Sides(c, c, c)
  BY <1>2, Zenon DEF Cfg, Sides
<1>4. IsDriver(w)
  <2>1. CASE n = 0
    BY <2>1 DEF IsDriver
  <2>2. CASE n # 0
    <3>1. n \in 1 .. Len(Drivers)
      <4> DEFINE types == [m \in 1 .. Len(Drivers) |-> Drivers[m].type]
      <4>1. DOMAIN types \subseteq Nat \ {0} /\ DOMAIN types = 1 .. Len(Drivers)
        BY DriversAre
      <4>2. IndexOf(types, radio) # 0
        BY <2>2, Zenon
      <4> HIDE DEF types
      <4>3. IndexOf(types, radio) \in DOMAIN types
        BY <4>1, <4>2, IndexIs
      <4>4. n = IndexOf(types, radio)
        BY Zenon DEF types
      <4> QED BY <4>1, <4>3, <4>4
    <3> HIDE DEF n
    <3> QED BY <2>2, <3>1, DriversAre
  <2> QED BY <2>1, <2>2
<1> HIDE DEF w
<1>5. dev \in WDev
  <2>1. ASSUME NEW b \in Bands PROVE [DevDefault(w) EXCEPT !.off = Still(b), !.noscan = Still(b)] \in DevRec
    <3>1. PICK x \in BOOLEAN : x = Still(b)
      BY Zenon
    <3>2. [DevDefault(w) EXCEPT !.off = x, !.noscan = x] \in DevRec
      BY DevDefaultIs, Zenon
    <3> QED BY <3>1, <3>2, Zenon
  <2> DEFINE start(b) == [DevDefault(w) EXCEPT !.off = Still(b), !.noscan = Still(b)]
  <2>2. \A b \in Bands : start(b) \in DevRec
    BY <2>1, Zenon
  <2>3. dev = [b \in Bands |-> start(b)]
    BY Zenon
  <2> HIDE DEF start, dev
  <2> QED BY <2>2, <2>3 DEF WDev
<1>6. /\ ifc \in WIfc
      /\ \A i \in Ifaces : IsGuest(i) => ifc[i].off
  <2>1. ASSUME NEW i \in Ifaces
        PROVE  /\ [IfDefault(w, i) EXCEPT !.there = i \notin first.absent] \in IfRec
               /\ [IfDefault(w, i) EXCEPT !.there = i \notin first.absent].off = IsGuest(i)
    <3>1. PICK x \in BOOLEAN : x = (i \notin first.absent)
      BY Zenon
    <3>2. [IfDefault(w, i) EXCEPT !.there = x] \in IfRec /\ [IfDefault(w, i) EXCEPT !.there = x].off = IsGuest(i)
      BY <1>4, IfDefaultIs
    <3> QED BY <3>1, <3>2, Zenon
  <2> DEFINE start(i) == [IfDefault(w, i) EXCEPT !.there = i \notin first.absent]
  <2>2. \A i \in Ifaces : start(i) \in IfRec /\ start(i).off = IsGuest(i)
    BY <2>1, Zenon
  <2>3. ifc = [i \in Ifaces |-> start(i)]
    BY Zenon
  <2> HIDE DEF start, ifc
  <2>4. ifc \in WIfc /\ \A i \in Ifaces : ifc[i] = start(i)
    BY <2>2, <2>3 DEF WIfc
  <2> QED BY <2>2, <2>4, Zenon
<1>7. guest \in SUBSET GuestParts
  OBVIOUS
<1> HIDE DEF dev, ifc, guest
<1>8. WifiUp(wl)
  BY <1>3, <1>5, <1>6, <1>7, FirmwareUp
<1>9. selected \in 0 .. Len(Drivers) /\ wserved \in 0 .. MaxWifiRequests
  BY <1>1, DriversAre, WirelessAssumption
<1> QED BY <1>1, <1>8, <1>9 DEF WifiInv

\* What the Wi-Fi page answers with success is shown and on the air, through
\* the three drivers' conversions, with a shell that may be killed at any
\* command; guests are on the air only behind the whole guest network, and
\* the interfaces of a radio have numbers of their own.
THEOREM WirelessPageCorrect == WirelessSpec => []WirelessCorrect
<1>1. WirelessInit => WifiInv
  BY PageStarts
<1>2. WifiInv /\ [WirelessNext]_wirelessVars => WifiInv'
  <2>1. CASE UNCHANGED wirelessVars
    BY <2>1 DEF wirelessVars, WifiInv
  <2> QED BY <2>1, EnableKeeps, PowerKeeps, EditKeeps, SetupKeeps, RefusalKeeps, Zenon DEF WirelessNext
<1>3. WifiInv => WirelessCorrect
  BY PageKept
<1> QED BY <1>1, <1>2, <1>3, PTL DEF WirelessSpec
=============================================================================
