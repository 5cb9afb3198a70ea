---------------------------- MODULE OnlineChecker ----------------------------
(***************************************************************************)
(* The cached answer to "is the router online?":                           *)
(*   backend/service/network-online.go  NetworkOnlineChecker               *)
(* GetStatus never probes the network itself.  It answers from the cache   *)
(* and, when the cache is old or was filled for another configuration,     *)
(* starts one doCheck goroutine that probes and fills it.                  *)
(*                                                                         *)
(* lastCheck is kept as its age.  A request reads the clock before it gets *)
(* the mutex; lag is how far that reading is behind when it does.          *)
(***************************************************************************)
EXTENDS Naturals

CONSTANTS Requests,        \* goroutines that call GetStatus
          Checks,          \* goroutines that can run doCheck
          Keys,            \* cache keys: ip|gateway|dns|feed
          FeedKeys,        \* those whose feed URL is not empty
          CheckOKSec,      \* how long an OK is good for (90)
          CheckFailedSec,  \* how long any other status is good for (5)
          MaxLag,          \* bound on the wait for the mutex
          NoKey            \* the empty cacheKey of a new checker

ASSUME CheckerAssumption ==
  /\ FeedKeys \subseteq Keys /\ NoKey \notin Keys
  /\ CheckOKSec \in Nat /\ CheckFailedSec \in Nat /\ MaxLag \in Nat
  /\ CheckFailedSec <= CheckOKSec

VARIABLES
  age, checking, status, cacheKey,  \* the checker
  req,     \* GetStatus: idle or about to lock, the key and the lag
  answer,  \* what the last GetStatus returned
  check,   \* doCheck: its step, its key and the status it will publish
  net,     \* what a probe would find
  last,    \* history: the key of the last published status
  stale    \* history: outdated OKs answered since then

vars == <<age, checking, status, cacheKey, req, answer, check, net, last, stale>>

Failed == {"dnsFailed", "netFailed", "softSourceFailed"}
Status == Failed \union {"netDetecting", "netSuccess"}

Net == [dns : BOOLEAN, tcp : BOOLEAN, feed : BOOLEAN]

NoReq == [pc |-> "idle", key |-> NoKey, lag |-> 0]
NoCheck == [pc |-> "idle", key |-> NoKey, status |-> "netDetecting"]

\* From here on an age makes no difference any more.
MaxAge == CheckOKSec + MaxLag

TypeOK ==
  /\ age \in 0 .. MaxAge /\ checking \in BOOLEAN
  /\ status \in Status /\ cacheKey \in Keys \union {NoKey}
  /\ req \in [Requests -> {NoReq} \union [pc : {"lock"}, key : Keys, lag : 0 .. MaxLag]]
  /\ answer \in Status
  /\ check \in [Checks -> {NoCheck} \union
                          [pc : {"dns", "tcp", "feed", "publish"}, key : Keys,
                           status : Failed \union {"netSuccess"}]]
  /\ net \in Net /\ last \in Keys \union {NoKey}
  /\ stale \in Nat

Init ==
  /\ age = MaxAge                   \* the zero time.Time
  /\ checking = FALSE /\ status = "netDetecting" /\ cacheKey = NoKey
  /\ req = [r \in Requests |-> NoReq]
  /\ answer = "netDetecting"
  /\ check = [c \in Checks |-> NoCheck]
  /\ net \in Net
  /\ last = NoKey /\ stale = 0

-----------------------------------------------------------------------------
(* GetStatus *)

\* The feed file and the clock are read and the key is built, unlocked.
Request(r) ==
  /\ req[r].pc = "idle"
  /\ \E k \in Keys : req' = [req EXCEPT ![r] = [pc |-> "lock", key |-> k, lag |-> 0]]
  /\ UNCHANGED <<age, checking, status, cacheKey, answer, check, net, last, stale>>

\* lastCheck.After(now - checkSec), with the clock as r read it.
CheckSec == IF status = "netSuccess" THEN CheckOKSec ELSE CheckFailedSec
Recent(r) == age < CheckSec + req[r].lag

\* "go checker.doCheck(...)"
StartCheck(k) ==
  \E c \in Checks :
    /\ check[c].pc = "idle"
    /\ check' = [check EXCEPT ![c] = [pc |-> "dns", key |-> k,
                                      status |-> "softSourceFailed"]]

Return(r, s) ==
  /\ answer' = s
  /\ req' = [req EXCEPT ![r] = NoReq]
  /\ stale' = IF s = "netSuccess" /\ (req[r].key # last \/ age >= CheckOKSec + req[r].lag)
                THEN stale + 1 ELSE stale
  /\ UNCHANGED <<age, cacheKey, net, last>>

\* Mutant: a running check does not keep others from starting one.
MutGetStatusUnguarded(r) ==
  /\ req[r].pc = "lock"
  /\ \/ /\ cacheKey = req[r].key /\ Recent(r)
        /\ Return(r, status)
        /\ UNCHANGED <<checking, status, check>>
     \/ /\ ~(cacheKey = req[r].key /\ Recent(r))
        /\ checking' = TRUE
        /\ status' = IF status = "netSuccess" THEN status ELSE "netDetecting"
        /\ Return(r, status')
        /\ StartCheck(req[r].key)

\* Mutant: the cache is good for every key.
MutGetStatusNoKey(r) ==
  /\ req[r].pc = "lock"
  /\ \/ /\ checking
        /\ Return(r, "netDetecting")
        /\ UNCHANGED <<checking, status, check>>
     \/ /\ ~checking /\ Recent(r)
        /\ Return(r, status)
        /\ UNCHANGED <<checking, status, check>>
     \/ /\ ~checking /\ ~Recent(r)
        /\ checking' = TRUE
        /\ status' = IF status = "netSuccess" THEN status ELSE "netDetecting"
        /\ Return(r, status')
        /\ StartCheck(req[r].key)

\* Mutant: while a check runs the old status is answered.
MutGetStatusOld(r) ==
  /\ req[r].pc = "lock"
  /\ \/ /\ checking \/ (cacheKey = req[r].key /\ Recent(r))
        /\ Return(r, status)
        /\ UNCHANGED <<checking, status, check>>
     \/ /\ ~checking /\ ~(cacheKey = req[r].key /\ Recent(r))
        /\ checking' = TRUE
        /\ status' = IF status = "netSuccess" THEN status ELSE "netDetecting"
        /\ Return(r, status')
        /\ StartCheck(req[r].key)

\* Mutant: the cache never expires.
MutGetStatusForever(r) ==
  /\ req[r].pc = "lock"
  /\ \/ /\ checking
        /\ Return(r, "netDetecting")
        /\ UNCHANGED <<checking, status, check>>
     \/ /\ ~checking /\ cacheKey = req[r].key
        /\ Return(r, status)
        /\ UNCHANGED <<checking, status, check>>
     \/ /\ ~checking /\ cacheKey # req[r].key
        /\ checking' = TRUE
        /\ status' = IF status = "netSuccess" THEN status ELSE "netDetecting"
        /\ Return(r, status')
        /\ StartCheck(req[r].key)

\* The locked part.  While a check runs the answer is the zero value of
\* lastStatus, which is "netDetecting", whatever the cache holds.
GetStatus(r) ==
  /\ req[r].pc = "lock"
  /\ \/ /\ checking
        /\ Return(r, "netDetecting")
        /\ UNCHANGED <<checking, status, check>>
     \/ /\ ~checking /\ cacheKey = req[r].key /\ Recent(r)
        /\ Return(r, status)
        /\ UNCHANGED <<checking, status, check>>
     \/ /\ ~checking /\ ~(cacheKey = req[r].key /\ Recent(r))
        /\ checking' = TRUE
        /\ status' = IF status = "netSuccess" THEN status ELSE "netDetecting"
        /\ Return(r, status')
        /\ StartCheck(req[r].key)

-----------------------------------------------------------------------------
(* doCheck *)

CheckGoto(c, pc, s) ==
  /\ check' = [check EXCEPT ![c] = [pc |-> pc, key |-> check[c].key, status |-> s]]
  /\ UNCHANGED <<age, checking, status, cacheKey, req, answer, net, last, stale>>

\* Two names are looked up; either is enough.
ProbeDns(c) ==
  /\ check[c].pc = "dns"
  /\ CheckGoto(c, IF net.dns THEN "feed" ELSE "tcp", check[c].status)

\* Without DNS, two addresses are dialled.
ProbeTcp(c) ==
  /\ check[c].pc = "tcp"
  /\ CheckGoto(c, "publish", IF net.tcp THEN "dnsFailed" ELSE "netFailed")

\* With DNS, the package feed is fetched, if one is configured.
ProbeFeed(c) ==
  /\ check[c].pc = "feed"
  /\ CheckGoto(c, "publish", IF check[c].key \notin FeedKeys \/ net.feed
                               THEN "netSuccess" ELSE check[c].status)

\* Mutant: checking is only reset after a success.
MutPublish(c) ==
  /\ check[c].pc = "publish"
  /\ age' = 0 /\ cacheKey' = check[c].key /\ status' = check[c].status
  /\ checking' = (checking /\ check[c].status # "netSuccess")
  /\ check' = [check EXCEPT ![c] = NoCheck]
  /\ last' = check[c].key /\ stale' = 0
  /\ UNCHANGED <<req, answer, net>>

\* The time is that of the publication, not of the probes.
Publish(c) ==
  /\ check[c].pc = "publish"
  /\ age' = 0 /\ cacheKey' = check[c].key /\ status' = check[c].status
  /\ checking' = FALSE
  /\ check' = [check EXCEPT ![c] = NoCheck]
  /\ last' = check[c].key /\ stale' = 0
  /\ UNCHANGED <<req, answer, net>>

-----------------------------------------------------------------------------
(* The world: external *)

Tick ==
  /\ \A r \in Requests : req[r].pc = "lock" => req[r].lag < MaxLag
  /\ age' = IF age < MaxAge THEN age + 1 ELSE age
  /\ req' = [r \in Requests |->
               IF req[r].pc = "lock"
                 THEN [pc |-> "lock", key |-> req[r].key, lag |-> req[r].lag + 1]
                 ELSE req[r]]
  /\ UNCHANGED <<checking, status, cacheKey, answer, check, net, last, stale>>

NetChange ==
  /\ net' \in Net \ {net}
  /\ UNCHANGED <<age, checking, status, cacheKey, req, answer, check, last, stale>>

-----------------------------------------------------------------------------
DoCheck(c) == ProbeDns(c) \/ ProbeTcp(c) \/ ProbeFeed(c) \/ Publish(c)

Next ==
  \/ \E r \in Requests : Request(r) \/ GetStatus(r)
  \/ \E c \in Checks : DoCheck(c)
  \/ Tick \/ NetChange

Spec == Init /\ [][Next]_vars

\* Probes have timeouts and the mutex is held for a moment only.  Nothing is
\* assumed of requests or of the network.
Fairness ==
  /\ \A r \in Requests : WF_vars(GetStatus(r))
  /\ \A c \in Checks : WF_vars(DoCheck(c))
  /\ WF_vars(Tick)

FairSpec == Spec /\ Fairness

-----------------------------------------------------------------------------
\* checking is TRUE exactly while one doCheck runs: slow probes are not
\* piled up by impatient requests, and a check that is over frees the way.
SingleCheck ==
  /\ checking <=> \E c \in Checks : check[c].pc # "idle"
  /\ \A c, d \in Checks : check[c].pc # "idle" /\ check[d].pc # "idle" => c = d

\* A failure is only ever answered to a request for the configuration it was
\* measured with, and measured within checkFailedSec: the check of an old
\* configuration that ends after the change does not speak for the new one.
FailureIsCurrent ==
  [][\A r \in Requests :
       req[r].pc = "lock" /\ req'[r].pc = "idle" /\ answer' \in Failed
         => req[r].key = last /\ age < CheckFailedSec + req[r].lag]_vars

\* An OK of another configuration, or one past its time, is answered at most
\* once: to the request that starts the check which replaces it.
OutdatedOKOnce == stale <= 1

\* Every check ends and is published, or no status would ever change again.
CheckEnds == checking ~> ~checking

\* Once the network stays good, requests that keep coming, for whatever
\* configurations, make the status OK for good: no failure is kept.
AllGood == net = [dns |-> TRUE, tcp |-> TRUE, feed |-> TRUE]
Converges ==
  (<>[]AllGood /\ []<>(\E r \in Requests : req[r].pc = "lock"))
    => <>[](status = "netSuccess")
=============================================================================
