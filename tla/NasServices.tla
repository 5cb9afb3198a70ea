----------------------------- MODULE NasServices -----------------------------
(***************************************************************************)
(* The NAS page's services: a Samba share, WebDAV and LinkEase.            *)
(*                                                                         *)
(*   backend/modules/nas/serviceconfig, backend/modules/nas/linkease,      *)
(*   backend/service/nas.go, nas_service_config_store.go,                  *)
(*   nas_linkease_enable_usecase.go                                        *)
(*                                                                         *)
(* A share is written by its place among the sections of the file, so what *)
(* an earlier request left staged is committed first.  The shells run      *)
(* under the context of the request: a client that goes away has them      *)
(* killed at any command.                                                  *)
(***************************************************************************)
EXTENDS Integers, Sequences, FiniteSets, SequencesExt

CONSTANT MaxNasRequests  \* bound on the requests of a behaviour

ASSUME NasAssumption == MaxNasRequests \in Nat

VARIABLES nas,      \* samba4, gowebdav and linkease: the file, what is staged, what runs
          smbUsers, \* the accounts of Samba
          rootOk,   \* the template no longer has root among its invalid users
          nasUncut, \* history: no request has been cut off yet
          nasMade,  \* history: the shares whose creation wrote all there is to write
          nasAsked, \* history: the last request, if it was answered with success
          nasCount  \* how many there were

nasVars == <<nas, smbUsers, rootOk, nasUncut, nasMade, nasAsked, nasCount>>
nasMachine == [nas |-> nas, users |-> smbUsers, rootOk |-> rootOk]

SmbNames == {"photos", "films"}
SmbPaths == {"/mnt/a", "/mnt/b"}
\* An option nobody has set reads as nothing.
BlankSamba == [name |-> "unset", path |-> "unset", users |-> "unset"]
NoShare == [name |-> "-", path |-> "-", users |-> "-"]

-----------------------------------------------------------------------------
(* The commands                                                            *)

NasCommit(p) == [op |-> "commit", pkg |-> p]
NasRestart(p) == [op |-> "restart", pkg |-> p]
NasSet(p, v) == [op |-> "set", pkg |-> p, val |-> v]

\* The place a share is written to is counted in the file when its commands are built,
\* and the file stays as it is until their commit.
ExecNas(s, c) ==
  CASE c.op = "commit"     -> [s EXCEPT !.nas.file[c.pkg] = s.nas.staged[c.pkg]]
    [] c.op = "restart"    -> [s EXCEPT !.nas.live[c.pkg] = s.nas.file[c.pkg]]
    [] c.op = "set"        -> [s EXCEPT !.nas.staged[c.pkg] = c.val]
    [] c.op = "add"        -> [s EXCEPT !.nas.staged.samba4 = Append(@, BlankSamba)]
    [] c.op = "fill"       -> [s EXCEPT !.nas.staged.samba4[Len(s.nas.file.samba4) + c.at][c.opt] = c.val]
    [] c.op = "EnableRoot" -> [s EXCEPT !.rootOk = TRUE]
    [] c.op = "smbpasswd"  -> [s EXCEPT !.users = @ \union {c.user}]

SmbFill(at, opt, val) == [op |-> "fill", at |-> at, opt |-> opt, val |-> val]

\* Mutant: the sections are counted from one.
MutBuildSambaShareCommands(r) ==
  <<[op |-> "add"], SmbFill(0, "name", r.name), SmbFill(0, "path", r.path), SmbFill(0, "users", r.users),
    NasCommit("samba4"), NasRestart("samba4")>>
BuildSambaShareCommands(r) ==
  <<[op |-> "add"], SmbFill(1, "name", r.name), SmbFill(1, "path", r.path), SmbFill(1, "users", r.users),
    NasCommit("samba4"), NasRestart("samba4")>>

PrepareSamba == <<NasCommit("samba4"), NasRestart("samba4")>>

\* Each option is staged by a command of its own; the first is the root directory.
BuildWebdavConfigCommands(w, r) ==
  <<NasSet("gowebdav", [w EXCEPT !.root = r.root]),
    NasSet("gowebdav", [w EXCEPT !.root = r.root, !.enable = TRUE]),
    NasSet("gowebdav", [root |-> r.root, enable |-> TRUE, user |-> r.user]),
    NasCommit("gowebdav")>>

EnableLinkease == <<NasSet("linkease", TRUE), NasCommit("linkease"), NasRestart("linkease")>>

\* What the page lists, read from the file by go-uci.
NasServiceSambaStatus(s) == {[name |-> sh.name, path |-> sh.path] : sh \in Range(s.nas.file.samba4)}

-----------------------------------------------------------------------------
(* Behaviours                                                              *)

NoNas == [kind |-> "none"]
NasSide(shares) == [samba4 |-> shares, gowebdav |-> [root |-> "/mnt", enable |-> FALSE, user |-> "u"], linkease |-> FALSE]

NasRest == /\ smbUsers = {} /\ rootOk = FALSE /\ nasUncut = TRUE /\ nasMade = {} /\ nasAsked = NoNas /\ nasCount = 0
NasIdle == nas = [file |-> NasSide(<<>>), staged |-> NasSide(<<>>), live |-> NasSide(<<>>)] /\ NasRest
NasInit ==
  /\ \E shares \in {<<>>, <<[name |-> "photos", path |-> "/mnt/b", users |-> "v"]>>} :
       nas = [file |-> NasSide(shares), staged |-> NasSide(shares), live |-> NasSide(shares)]
  /\ NasRest

\* The machine after each of the commands, one after the other.
NasRun(cmds) ==
  LET ran[k \in 0 .. Len(cmds)] == IF k = 0 THEN nasMachine ELSE ExecNas(ran[k - 1], cmds[k]) IN ran

\* The commands as far as they get; the network's status, which the answer names the
\* address from, may fail after all of them.
ServeNas(cmds, asked, share, mayFail) ==
  /\ nasCount < MaxNasRequests /\ nasCount' = nasCount + 1
  /\ \E k \in 0 .. Len(cmds), status \in IF mayFail THEN BOOLEAN ELSE {TRUE} :
       LET s == NasRun(cmds)[k]
           whole == k = Len(cmds)
       IN  /\ nas' = s.nas /\ smbUsers' = s.users /\ rootOk' = s.rootOk
           /\ nasUncut' = (nasUncut /\ whole)
           /\ nasMade' = IF whole /\ share # NoShare THEN nasMade \union {share} ELSE nasMade
           /\ nasAsked' = IF whole /\ status THEN asked ELSE NoNas

SambaShareExists(r) == \E sh \in NasServiceSambaStatus(nasMachine) : sh.name = r.name

\* useradd refuses some names; an account that is there already is kept, with the new
\* password.
CreateSambaUser(r) == IF r.users = "Upper" THEN <<>> ELSE <<[op |-> "smbpasswd", user |-> r.users]>>

\* The packages' section is enabled along with the share.  Nothing of a share is written
\* when its account could not be made.
NasServiceSambaCreate ==
  \E r \in [name : SmbNames, path : SmbPaths, users : {"u", "Upper"}] :
    LET before == PrepareSamba \o <<[op |-> "EnableRoot"]>> \o CreateSambaUser(r)
    IN  /\ ~SambaShareExists(r)
        /\ IF CreateSambaUser(r) = <<>> THEN ServeNas(before, NoNas, NoShare, FALSE)
           ELSE ServeNas(before \o BuildSambaShareCommands(r), [kind |-> "samba", r |-> r], r, TRUE)

NasServiceWebdavCreate ==
  \E r \in [root : SmbPaths, user : {"u", "v"}] :
    ServeNas(BuildWebdavConfigCommands(nas.staged.gowebdav, r) \o <<NasRestart("gowebdav")>>,
             [kind |-> "webdav", r |-> r], NoShare, TRUE)

\* "uci get" reads what is staged.
NasServiceLinkeaseEnable ==
  ServeNas(IF nas.staged.linkease THEN <<>> ELSE EnableLinkease, [kind |-> "linkease"], NoShare, FALSE)

NasNext == NasServiceSambaCreate \/ NasServiceWebdavCreate \/ NasServiceLinkeaseEnable
NasServicesSpec == NasInit /\ [][NasNext]_nasVars

-----------------------------------------------------------------------------
(* Properties                                                              *)

\* The packages hold what their options can be.  A section is added with all there is to
\* stage of it: no share is written to a place that is not there.
NasTypeOK ==
  /\ nasCount \in 0 .. MaxNasRequests /\ nasUncut \in BOOLEAN /\ rootOk \in BOOLEAN /\ smbUsers \subseteq {"u"}
  /\ \A side \in DOMAIN nas :
       /\ \A sh \in Range(nas[side].samba4) :
            sh.name \in SmbNames \union {"unset"} /\ sh.path \in SmbPaths \union {"unset"} /\ sh.users \in {"unset", "u", "v"}
       /\ nas[side].gowebdav \in [root : SmbPaths \union {"/mnt"}, enable : BOOLEAN, user : {"u", "v"}]
       /\ nas[side].linkease \in BOOLEAN

\* A share whose creation ran to its end stays as it was made, served and listed, however
\* many requests are cut off after it or were before it, and root may open it.
SambaKept ==
  \A sh \in nasMade :
    /\ sh \in Range(nas.live.samba4) /\ sh.users \in smbUsers /\ rootOk
    /\ [name |-> sh.name, path |-> sh.path] \in NasServiceSambaStatus(nasMachine)

\* While no request has been cut off, no two shares have one name, whatever failed, and
\* none is a section without its options.
SmbNamesUnique ==
  nasUncut =>
    \A m, n \in DOMAIN nas.staged.samba4 :
      /\ nas.staged.samba4[m] # BlankSamba
      /\ nas.staged.samba4[m].name = nas.staged.samba4[n].name => m = n

\* WebDAV that was set up with success serves what was asked, and LinkEase runs once it
\* was enabled, when no request has been cut off.
NasAsAsked ==
  /\ nasAsked.kind = "webdav" =>
       nas.live.gowebdav = [root |-> nasAsked.r.root, enable |-> TRUE, user |-> nasAsked.r.user]
  /\ nasUncut /\ nasAsked.kind = "linkease" => nas.live.linkease

\* The NAS services: a share that was made stays, served and under a name of its own, and
\* WebDAV and LinkEase run as they were set up.
NasCorrect == NasTypeOK /\ SambaKept /\ SmbNamesUnique /\ NasAsAsked
=============================================================================
