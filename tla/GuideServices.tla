---------------------------- MODULE GuideServices ----------------------------
(***************************************************************************)
(* The setup guide's services: the three download services, dynamic DNS,   *)
(* DDNSTO and the software source.                                         *)
(*                                                                         *)
(*   backend/service/guide_download_services_*.go, guide_ddns_*.go,        *)
(*   guide_soft_source_*.go, guide.go (the older readers)                  *)
(*   backend/modules/guidestorage/downloadservices, backend/modules/guideddns *)
(***************************************************************************)
EXTENDS UciShell, FiniteSets

CONSTANT MaxServiceRequests  \* bound on the requests of a behaviour

VARIABLES svc,      \* the packages of the services: file, staged, and what they run with
          feeds,    \* distfeeds.conf: the feeds, empty after a write that was cut off
          rom,      \* the image's own distfeeds.conf can be read
          svcAsked, \* history: the last request, if it was answered with success
          svcCount  \* how many there were

svcVars == <<svc, feeds, rom, svcAsked, svcCount>>

Nothing == ""  \* the empty string, which readers return for what is not set
Kinds == {"aria2", "qbittorrent", "transmission"}
Versions == {"ipv4", "ipv6"}
\* The options, by package.
Dl(kind, name) == <<kind, name>>
Ddns(v, name) == <<"ddns", v, name>>
Ddnsto(name) == <<"ddnsto", name>>
SvcOptions ==
  {Dl(kind, o) : kind \in Kinds, o \in {"config", "dir", "enabled"}} \union {Dl("aria2", "secret"), Dl("aria2", "bt_tracker")}
  \union {Ddns(v, o) : v \in Versions, o \in {"domain", "service", "interface", "ip_source", "ip_network", "ip_url"}}
  \union {Ddnsto("enabled"), Ddnsto("token"), Ddnsto("address")}

-----------------------------------------------------------------------------
(* Download services                                                       *)

\* "uci get" sees what is staged.
uciGet(s, o) == Last1(s.staged[o], Nothing)

MapStatus(installed, running) == IF ~installed THEN "not installed" ELSE IF running THEN "running" ELSE "stopped"

ReadAria2Status(s, running) ==
  [status |-> MapStatus(TRUE, running), config |-> uciGet(s, Dl("aria2", "config")), dir |-> uciGet(s, Dl("aria2", "dir")),
   secret |-> uciGet(s, Dl("aria2", "secret"))]
ReadQbittorrentStatus(s, running) ==
  [status |-> MapStatus(TRUE, running), config |-> uciGet(s, Dl("qbittorrent", "config")),
   dir |-> uciGet(s, Dl("qbittorrent", "dir"))]
ReadTransmissionStatus(s, running) ==
  [status |-> MapStatus(TRUE, running), config |-> uciGet(s, Dl("transmission", "config")),
   dir |-> uciGet(s, Dl("transmission", "dir"))]

\* The older readers of the same.
getAria2Status(s, running) ==
  [status |-> IF running THEN "running" ELSE "stopped", config |-> uciGet(s, Dl("aria2", "config")),
   dir |-> uciGet(s, Dl("aria2", "dir")), secret |-> uciGet(s, Dl("aria2", "secret"))]
getQbittorrentStatus(s, running) ==
  [status |-> IF running THEN "running" ELSE "stopped", config |-> uciGet(s, Dl("qbittorrent", "config")),
   dir |-> uciGet(s, Dl("qbittorrent", "dir"))]
getTransmissionStatus(s, running) ==
  [status |-> IF running THEN "running" ELSE "stopped", config |-> uciGet(s, Dl("transmission", "config")),
   dir |-> uciGet(s, Dl("transmission", "dir"))]

BuildStatusResponse(s, runs) ==
  [aria2 |-> ReadAria2Status(s, "aria2" \in runs), qbittorrent |-> ReadQbittorrentStatus(s, "qbittorrent" \in runs),
   transmission |-> ReadTransmissionStatus(s, "transmission" \in runs)]

\* A relative path, one of the system, one on a disk that is read-only, and two that do.
DownloadPaths == {"rel", "/etc", "/mnt/ro", "/mnt/a", "/root/b"}
ValidateDownloadPath(path) == path \in {"/mnt/ro", "/mnt/a", "/root/b"}
EnsureDownloadDir(path) == path # "/mnt/ro"

\* A list of trackers as it is typed: separators and blanks fall away.
ParseTrackers(text) ==
  LET kept[n \in 0 .. Len(text)] ==
        IF n = 0 THEN <<>> ELSE IF text[n] = " " THEN kept[n - 1] ELSE Append(kept[n - 1], text[n])
  IN  kept[Len(text)]

BuildAria2ConfigCommands(r) ==
  <<Set(Dl("aria2", "config"), r.config), Set(Dl("aria2", "dir"), r.dir), Set(Dl("aria2", "enabled"), "1"),
    Set(Dl("aria2", "secret"), r.secret)>>

\* Mutant: the old trackers stay.
MutBuildAria2TrackerCommandBatches(s, trackers) ==
  Do([n \in DOMAIN trackers |-> AddList(Dl("aria2", "bt_tracker"), trackers[n])])

\* The deletion is a batch of its own, which fails when there are no trackers yet.
BuildAria2TrackerCommandBatches(s, trackers) ==
  IF trackers = <<>> THEN Do(<<>>)
  ELSE IF s.staged[Dl("aria2", "bt_tracker")] = Unset THEN FailAfter(<<>>)
  ELSE Do(<<Del(Dl("aria2", "bt_tracker"))>> \o [n \in DOMAIN trackers |-> AddList(Dl("aria2", "bt_tracker"), trackers[n])])

BuildQbittorrentConfigCommands(r) ==
  <<Set(Dl("qbittorrent", "config"), r.config), Set(Dl("qbittorrent", "dir"), r.dir), Set(Dl("qbittorrent", "enabled"), "1")>>
BuildTransmissionConfigCommands(r) ==
  <<Set(Dl("transmission", "config"), r.config), Set(Dl("transmission", "dir"), r.dir), Set(Dl("transmission", "enabled"), "1")>>

\* "uci commit" and the init script.
BuildAria2RestartCommands == UciCommitAndApply(<<"aria2">>)
BuildQbittorrentRestartCommands == UciCommitAndApply(<<"qbittorrent">>)
BuildTransmissionRestartCommands == UciCommitAndApply(<<"transmission">>)

ThenDo(p, q) == IF p.ok THEN [cmds |-> p.cmds \o q.cmds, ok |-> q.ok] ELSE p

\* The trackers that were typed, or those of the list on the net, which may not answer.
ResolveAria2Trackers(r) == IF r.trackers # <<>> THEN ParseTrackers(r.trackers) ELSE <<"best">>

InitAria2(s, r) ==
  IF ~ValidateDownloadPath(r.dir) \/ ~EnsureDownloadDir(r.dir) THEN Refuse
  ELSE LET config == BuildAria2ConfigCommands(r)
       IN  IF r.trackers = <<>> /\ ~r.fetched THEN FailAfter(config)
           ELSE ThenDo(ThenDo(Do(config), BuildAria2TrackerCommandBatches(s, ResolveAria2Trackers(r))),
                       Do(BuildAria2RestartCommands))

InitQbittorrent(r) ==
  IF ~ValidateDownloadPath(r.dir) \/ ~EnsureDownloadDir(r.dir) THEN Refuse
  ELSE Do(BuildQbittorrentConfigCommands(r) \o BuildQbittorrentRestartCommands)
InitTransmission(r) ==
  IF ~ValidateDownloadPath(r.dir) \/ ~EnsureDownloadDir(r.dir) THEN Refuse
  ELSE Do(BuildTransmissionConfigCommands(r) \o BuildTransmissionRestartCommands)

-----------------------------------------------------------------------------
(* Dynamic DNS                                                             *)

BuildGuideDDNSServiceName(name) ==
  CASE name = "ali" -> "aliyun.com" [] name = "oray" -> "oray.com" [] name = "dnspod" -> "dnspod.cn" [] OTHER -> Nothing

\* The interface to the net, per version: offline, IPv4's has no name and IPv6 has none.
ResolveGuideDDNSRuntime(r) ==
  [section |-> r.version, interface |-> r.out, public |-> r.public,
   url |-> IF r.public THEN Nothing ELSE IF r.version = "ipv4" THEN "4.ipw.cn" ELSE "6.ipw.cn",
   ok |-> r.version = "ipv4" \/ (r.version = "ipv6" /\ r.out # Nothing)]

BuildGuideDDNSApplyCommands(r, run) ==
  <<Set(Ddns(run.section, "domain"), r.domain), Set(Ddns(run.section, "service"), BuildGuideDDNSServiceName(r.service)),
    Set(Ddns(run.section, "interface"), run.interface)>>
  \o (IF run.public
      THEN <<Set(Ddns(run.section, "ip_source"), "network"), Set(Ddns(run.section, "ip_network"), run.interface)>>
      ELSE <<Set(Ddns(run.section, "ip_source"), "web"), Set(Ddns(run.section, "ip_url"), run.url),
             Del(Ddns(run.section, "ip_network"))>>)
  \o <<Commit("ddns")>>

\* Changes that a LuCI session has not saved are respected; the start may fail unnoticed.
DDNSUpdate(r) ==
  LET run == ResolveGuideDDNSRuntime(r)
  IN  IF r.pending \/ ~run.ok \/ BuildGuideDDNSServiceName(r.service) = Nothing THEN Refuse
      ELSE Do(BuildGuideDDNSApplyCommands(r, run) \o (IF r.starts THEN <<Event("ddns")>> ELSE <<>>))

EnableDdnsto(token) == Do(<<Set(Ddnsto("enabled"), "1"), Set(Ddnsto("token"), token)>> \o UciCommitAndApply(<<"ddnsto">>))
UpdateDdnstoAddress(address) == Do(<<Set(Ddnsto("address"), address), Commit("ddnsto")>>)
ReadDdnstoConfig(s) ==
  [enabled |-> uciGet(s, Ddnsto("enabled")) = "1", token |-> uciGet(s, Ddnsto("token")), address |-> uciGet(s, Ddnsto("address"))]

-----------------------------------------------------------------------------
(* The software source: a feed is where it comes from and its path there   *)

Url(scheme, host, sub) == [scheme |-> scheme, host |-> host, sub |-> sub]  \* sub: below /openwrt/
guideSoftSourceURLs ==
  <<Url("http", "downloads.openwrt.org", FALSE), Url("https", "downloads.openwrt.org", FALSE),
    Url("https", "mirrors.tuna.tsinghua.edu.cn", TRUE), Url("https", "mirrors.aliyun.com", TRUE)>>
guideSoftSourceIdentities == <<"OpenWrtHttp", "OpenWrtHttps", "Tsinghua", "Alibaba Cloud">>
ListSources == [n \in DOMAIN guideSoftSourceIdentities |-> [identity |-> guideSoftSourceIdentities[n], url |-> guideSoftSourceURLs[n]]]

resolveGuideSoftSourceByURL(url) ==
  LET at == {n \in DOMAIN guideSoftSourceURLs : guideSoftSourceURLs[n] = url}
  IN  IF at = {} THEN "other" ELSE guideSoftSourceIdentities[CHOOSE n \in at : TRUE]
resolveGuideSoftSourceByIdentity(identity) ==
  {ListSources[n].url : n \in {m \in DOMAIN ListSources : ListSources[m].identity = identity}}

\* The feed called _base; a host of OpenWrt's has its packages at the top.
ReadCurrentSource(conf) ==
  IF \A n \in DOMAIN conf : conf[n].path # "_base" THEN "not found"
  ELSE LET n == CHOOSE n \in DOMAIN conf : conf[n].path = "_base"
       IN  resolveGuideSoftSourceByURL([conf[n].url EXCEPT !.sub = conf[n].url.host # "downloads.openwrt.org"])

RomFeeds == <<[path |-> "_core", url |-> Url("https", "vendor", TRUE)], [path |-> "_base", url |-> Url("https", "vendor", TRUE)]>>

replaceGuideSoftSource(url) ==
  LET data == IF rom THEN RomFeeds ELSE feeds IN [n \in DOMAIN data |-> [data[n] EXCEPT !.url = url]]

-----------------------------------------------------------------------------
(* Behaviours                                                              *)

SvcDefault == [o \in SvcOptions |-> IF o[2] = "enabled" THEN <<"0">> ELSE Unset]
NoSvcRequest == [kind |-> "none"]

SvcIdle ==
  /\ svc = [file |-> SvcDefault, staged |-> SvcDefault, live |-> SvcDefault] /\ feeds = RomFeeds
  /\ rom = TRUE /\ svcAsked = NoSvcRequest /\ svcCount = 0
SvcInit ==
  /\ \E f \in {SvcDefault, [SvcDefault EXCEPT ![Dl("aria2", "bt_tracker")] = <<"t0">>]} :
       svc = [file |-> f, staged |-> f, live |-> f]
  /\ feeds = RomFeeds /\ rom \in BOOLEAN /\ svcAsked = NoSvcRequest /\ svcCount = 0

\* The plan of a request, as far as it gets before the client goes away.
ServeService(kind, r, plan) ==
  /\ svcCount < MaxServiceRequests /\ svcCount' = svcCount + 1
  /\ \E k \in 0 .. Len(plan.cmds) :
       /\ svc' = BatchRun(svc, plan.cmds)[k]
       /\ svcAsked' = IF plan.ok /\ k = Len(plan.cmds) THEN [kind |-> kind, r |-> r] ELSE NoSvcRequest
  /\ UNCHANGED <<feeds, rom>>

Aria2Requests ==
  [config : {"c"}, dir : {"rel", "/mnt/ro", "/mnt/a"}, secret : {"s"}, trackers : {<<>>, <<" ">>, <<"t1", " ", "t2">>},
   fetched : BOOLEAN]
GuideAria2Init == \E r \in Aria2Requests : ServeService("aria2", r, InitAria2(svc, r))
GuideQbittorrentInit == \E d \in DownloadPaths : LET r == [config |-> "c", dir |-> d] IN ServeService("qbittorrent", r, InitQbittorrent(r))
GuideTransmissionInit == \E d \in DownloadPaths : LET r == [config |-> "c", dir |-> d] IN ServeService("transmission", r, InitTransmission(r))

DdnsForms ==
  {[version |-> v, service |-> s, domain |-> d, out |-> i, public |-> p, pending |-> FALSE, starts |-> TRUE] :
     v \in Versions, s \in {"ali", "x"}, d \in {"d1", "d2"}, i \in {"wan", Nothing}, p \in BOOLEAN}
  \union {[version |-> "ipv5", service |-> "ali", domain |-> "d1", out |-> "wan", public |-> TRUE, pending |-> FALSE, starts |-> TRUE],
          [version |-> "ipv4", service |-> "oray", domain |-> "d1", out |-> "wan", public |-> TRUE, pending |-> TRUE, starts |-> TRUE],
          [version |-> "ipv4", service |-> "dnspod", domain |-> "d1", out |-> "wan", public |-> TRUE, pending |-> FALSE, starts |-> FALSE]}
GuideDdnsUpdate == \E r \in DdnsForms : ServeService("ddns", r, DDNSUpdate(r))
GuideDdnstoEnable == \E t \in {"k1", "k2"} : ServeService("ddnsto", [token |-> t], EnableDdnsto(t))
GuideDdnstoAddress == ServeService("address", [address |-> "h"], UpdateDdnstoAddress("h"))

\* The file is truncated and written: a cut-off leaves it empty.
GuideSoftSourceSet ==
  \E identity \in Range(guideSoftSourceIdentities) \union {"?"}, cut \in BOOLEAN :
    LET found == resolveGuideSoftSourceByIdentity(identity)
    IN  /\ svcCount < MaxServiceRequests /\ svcCount' = svcCount + 1
        /\ feeds' = IF found = {} THEN feeds ELSE IF cut THEN <<>> ELSE replaceGuideSoftSource(CHOOSE u \in found : TRUE)
        /\ svcAsked' = IF found = {} \/ cut THEN NoSvcRequest ELSE [kind |-> "source", r |-> identity]
        /\ UNCHANGED <<svc, rom>>

SvcNext == GuideAria2Init \/ GuideQbittorrentInit \/ GuideTransmissionInit \/ GuideDdnsUpdate
           \/ GuideDdnstoEnable \/ GuideDdnstoAddress \/ GuideSoftSourceSet
GuideServicesSpec == SvcInit /\ [][SvcNext]_svcVars

-----------------------------------------------------------------------------
(* Properties                                                              *)

SvcTypeOK ==
  /\ DOMAIN svc = {"file", "staged", "live"}
  /\ \A side \in DOMAIN svc :
       DOMAIN svc[side] = SvcOptions /\ \A o \in SvcOptions : o # Dl("aria2", "bt_tracker") => Len(svc[side][o]) <= 1
  /\ Len(svc.staged[Dl("aria2", "bt_tracker")]) <= 2
  /\ Range(feeds) \subseteq [path : {"_core", "_base"}, url : Range(guideSoftSourceURLs) \union {RomFeeds[1].url}]

\* A download service whose form was saved runs with what was saved, whatever an
\* earlier request has left staged, and its status, old and new, shows that.
DownloadsAsAsked ==
  svcAsked.kind \in Kinds =>
    LET kind == svcAsked.kind
        r == svcAsked.r
        shown == BuildStatusResponse(svc, {kind})[kind]
        old == CASE kind = "aria2" -> getAria2Status(svc, TRUE) [] kind = "qbittorrent" -> getQbittorrentStatus(svc, TRUE)
                 [] OTHER -> getTransmissionStatus(svc, TRUE)
    IN  /\ shown = old /\ shown.config = r.config /\ shown.dir = r.dir
        /\ svc.live[Dl(kind, "enabled")] = <<"1">> /\ svc.live[Dl(kind, "dir")] = <<r.dir>>

\* aria2 asks the trackers of the form or, if it has none, of the list, and no others.
TrackersAsAsked ==
  svcAsked.kind = "aria2" /\ ResolveAria2Trackers(svcAsked.r) # <<>> =>
    svc.live[Dl("aria2", "bt_tracker")] = ResolveAria2Trackers(svcAsked.r)

\* A name that was updated is kept by its own version's section, from the interface
\* while that is public and from the web otherwise, though it was the other before.
DdnsAsAsked ==
  svcAsked.kind = "ddns" /\ svcAsked.r.out # Nothing =>
    LET r == svcAsked.r
        o(name) == svc.file[Ddns(r.version, name)]
    IN  /\ o("domain") = <<r.domain>> /\ o("interface") = <<r.out>>
        /\ o("ip_source") = <<IF r.public THEN "network" ELSE "web">>
        /\ o("ip_network") = IF r.public THEN <<r.out>> ELSE Unset
        /\ ~r.public => o("ip_url") = <<IF r.version = "ipv4" THEN "4.ipw.cn" ELSE "6.ipw.cn">>

\* The token of DDNSTO and its address are shown as they were sent.
DdnstoAsAsked ==
  /\ svcAsked.kind = "ddnsto" => ReadDdnstoConfig(svc).enabled /\ ReadDdnstoConfig(svc).token = svcAsked.r.token
  /\ svcAsked.kind = "address" => ReadDdnstoConfig(svc).address = svcAsked.r.address

\* A source that was set is the one shown, for every feed of the image, though a
\* write was cut off before.
SourceAsSet ==
  svcAsked.kind = "source" /\ rom =>
    ReadCurrentSource(feeds) = svcAsked.r /\ [n \in DOMAIN feeds |-> feeds[n].path] = [n \in DOMAIN RomFeeds |-> RomFeeds[n].path]

\* The guide's services: each form that was saved is what its service runs with and what
\* its status shows, whatever earlier requests left staged or half written.
SvcCorrect == SvcTypeOK /\ DownloadsAsAsked /\ TrackersAsAsked /\ DdnsAsAsked /\ DdnstoAsAsked /\ SourceAsSet
=============================================================================
