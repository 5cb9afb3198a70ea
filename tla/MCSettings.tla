------------------------------ MODULE MCSettings ------------------------------
(***************************************************************************)
(* The parts of the server that work on packages and files of their own:   *)
(* the pages of the web interface, the console menu, the conflict pass and *)
(* the samples of the WAN's traffic.  They share nothing, so a behaviour   *)
(* is one of one part, and every other part stands still.                  *)
(***************************************************************************)
EXTENDS MCDhnsConflict, WanStats, Wireless, GuideNet, NetIfaces, Docker,
        GuideServices, Console, Shares, SpeedLimits, NasServices

VARIABLE part  \* the part that is used

ConflictIdle == wan = [ip |-> 0, len |-> 0] /\ lan \in StaticLan /\ lan.ip = 0 /\ lan.len = 0 /\ ~lan.cidr /\ fresh = FALSE

\* Part p starts as it may, or stands still.
Start(p, init, idleState) == IF part = p THEN init ELSE idleState

SettingsInit ==
  /\ part \in {"conflict", "wan", "wireless", "guide", "interfaces", "docker", "services", "console", "shares",
               "limits", "nas"}
  /\ Start("conflict", ConflictInit, ConflictIdle)
  /\ Start("wan", Init, WanIdle)
  /\ Start("wireless", WirelessInit, WirelessIdle)
  /\ Start("guide", GuideNetInit, GuideNetIdle)
  /\ Start("interfaces", IfInit, IfIdle)
  /\ Start("docker", DockerInit, DockerIdle)
  /\ Start("services", SvcInit, SvcIdle)
  /\ Start("console", ConsoleInit, ConsoleIdle)
  /\ Start("shares", SharesInit, SharesIdle)
  /\ Start("limits", LimInit, LimIdle)
  /\ Start("nas", NasInit, NasIdle)

\* Part p makes a step.
Step(p, next, pVars) == IF part = p THEN next ELSE UNCHANGED pVars

SettingsNext ==
  /\ UNCHANGED part
  /\ Step("conflict", ConflictNext, conflictVars)
  /\ Step("wan", Next, vars)
  /\ Step("wireless", WirelessNext, wirelessVars)
  /\ Step("guide", GuideNetNext, guideNetVars)
  /\ Step("interfaces", IfNext, ifVars)
  /\ Step("docker", DockerNext, dockerVars)
  /\ Step("services", SvcNext, svcVars)
  /\ Step("console", ConsoleNext, consoleVars)
  /\ Step("shares", SharesNext, shareVars)
  /\ Step("limits", LimNext, limVars)
  /\ Step("nas", NasNext, nasVars)

settingsVars == <<part, conflictVars, vars, wirelessVars, guideNetVars, ifVars, dockerVars, svcVars,
                  consoleVars, shareVars, limVars, nasVars>>
SettingsSpec == SettingsInit /\ [][SettingsNext]_settingsVars
==============================================================================
