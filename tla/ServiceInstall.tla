--------------------------- MODULE ServiceInstall ---------------------------
(***************************************************************************)
(* `rigscope service` on Linux: install, uninstall, start, stop, restart,  *)
(* run by one administrator at a time, on a machine where any step may     *)
(* fail, the command may be killed between two steps, the daemon may end   *)
(* and the machine may reboot.                                             *)
(*                                                                         *)
(* A file is absent (None), half written ("torn") or holds one of a few    *)
(* contents; writes reach the disk in the order they are made.  systemd is *)
(* what the code needs of it: the unit it has loaded, whether the unit is  *)
(* enabled, and the daemon it runs.                                        *)
(***************************************************************************)
EXTENDS Naturals

CONSTANTS
  Versions,   \* builds of rigscope
  Configs     \* what a unit file can say: address, interval, retention...

None == "none"
Torn == "torn"

ASSUME ServiceConstants ==
  /\ None \notin Versions \cup Configs
  /\ Torn \notin Versions \cup Configs

VARIABLES
  binary,    \* the file at cfg.binary
  tmp,       \* the file at cfg.binary + ".new"
  unit,      \* the file at systemdUnitPath
  rules,     \* the file at udevRulesPath
  data,      \* who owns the data directory: None, "root", "service"
  user,      \* there is a user rigscope
  group,     \* there is a group rigscope
  loaded,    \* the unit systemd has in memory
  enabled,   \* the unit is started at boot
  running,   \* the daemon: the build and the configuration it runs with
  cmd,       \* the last command: its operation and its arguments
  pc         \* its next step, "done" when it succeeded, "idle" when it did not

accounts == <<user, group>>
files == <<binary, tmp, unit, rules>>
systemd == <<loaded, enabled, running>>
machine == <<files, data, accounts, systemd>>
vars == <<machine, cmd, pc>>

NoDaemon == [binary |-> None, unit |-> None]

Installs == [op: {"install"}, version: Versions, config: Configs, start: BOOLEAN, self: BOOLEAN]
Uninstalls == [op: {"uninstall"}, removeData: BOOLEAN]
Verbs == [op: {"start", "stop", "restart"}]

InstallSteps == {"group", "user", "open", "copy", "rename", "mkdir", "chown", "rules",
                 "writeRules", "unit", "writeUnit", "reload", "enable", "restart"}
UninstallSteps == {"disable", "rmUnit", "rmRules", "rmBinary", "forget", "rmData", "rmUser",
                   "rmGroup"}

Init ==
  /\ binary = None /\ tmp = None /\ unit = None /\ rules = None
  /\ data = None /\ user = FALSE /\ group = FALSE
  /\ loaded = None /\ enabled = FALSE /\ running = NoDaemon
  /\ cmd = [op |-> None] /\ pc = "idle"

Free == pc \in {"idle", "done"}

-----------------------------------------------------------------------------
(* What systemd does.                                                      *)

(* The daemon it can start now, if any.                                    *)
Spawned(config) ==
  IF config \in Configs /\ binary \in Versions /\ user
  THEN [binary |-> binary, unit |-> config]
  ELSE NoDaemon

(* The daemon ends.  Restart=on-failure starts it again, unless it ended   *)
(* without an error or cannot be started any more.                         *)
DaemonEnds ==
  /\ running # NoDaemon
  /\ running' \in {NoDaemon, Spawned(loaded)}
  /\ UNCHANGED <<files, data, accounts, loaded, enabled, cmd, pc>>

(* A reboot ends the command with everything else.                         *)
Reboot ==
  /\ loaded' = unit
  /\ running' = IF enabled THEN Spawned(unit) ELSE NoDaemon
  /\ pc' = IF pc = "done" THEN "done" ELSE "idle"
  /\ UNCHANGED <<files, data, accounts, enabled, cmd>>

-----------------------------------------------------------------------------
(* Commands begin and go from step to step.                                *)

(* The installer that runs as the installed file (self) is that build.     *)
BeginInstall(c) ==
  /\ Free
  /\ c.self => binary = c.version
  /\ cmd' = c /\ pc' = "group"
  /\ UNCHANGED machine

(* os.Stat(systemdUnitPath): without a unit there is nothing to disable.   *)
BeginUninstall(c) ==
  /\ Free
  /\ cmd' = c
  /\ pc' = IF unit # None THEN "disable" ELSE "rmUnit"
  /\ UNCHANGED machine

(* systemctlVerb refuses when there is no unit.                            *)
BeginVerb(c) ==
  /\ Free
  /\ unit # None
  /\ cmd' = c /\ pc' = "verb"
  /\ UNCHANGED machine

GoTo(from, to) == pc = from /\ pc' = to /\ UNCHANGED cmd

(* A step fails, or the command is killed before it.                       *)
Fails ==
  /\ ~Free
  /\ pc' = "idle"
  /\ UNCHANGED <<machine, cmd>>

(* The copy or the rename fails: the temporary file is removed, if that    *)
(* works.                                                                  *)
CopyFails ==
  /\ pc \in {"copy", "rename"}
  /\ tmp' = None
  /\ pc' = "idle"
  /\ UNCHANGED <<binary, unit, rules, data, accounts, systemd, cmd>>

-----------------------------------------------------------------------------
(* serviceInstall.                                                         *)

(* ensureServiceUser.                                                      *)
AddGroup ==
  /\ GoTo("group", "user")
  /\ group' = TRUE
  /\ UNCHANGED <<files, data, user, systemd>>

AddUser ==
  /\ GoTo("user", IF cmd.self THEN "mkdir" ELSE "open")
  /\ user' = TRUE
  /\ UNCHANGED <<files, data, group, systemd>>

(* installBinary: truncate the temporary file, copy, rename.  sameFile     *)
(* skips all of it for the installed file itself.                          *)
OpenTmp_InPlace ==
  /\ GoTo("open", "copy")
  /\ binary' = Torn
  /\ UNCHANGED <<tmp, unit, rules, data, accounts, systemd>>

OpenTmp ==
  /\ GoTo("open", "copy")
  /\ tmp' = Torn
  /\ UNCHANGED <<binary, unit, rules, data, accounts, systemd>>

Copy ==
  /\ GoTo("copy", "rename")
  /\ tmp' = cmd.version
  /\ UNCHANGED <<binary, unit, rules, data, accounts, systemd>>

Rename ==
  /\ GoTo("rename", "mkdir")
  /\ binary' = tmp /\ tmp' = None
  /\ UNCHANGED <<unit, rules, data, accounts, systemd>>

MkdirData ==
  /\ GoTo("mkdir", "chown")
  /\ data' = IF data = None THEN "root" ELSE data
  /\ UNCHANGED <<files, accounts, systemd>>

ChownData ==
  /\ GoTo("chown", "rules")
  /\ data' = "service"
  /\ UNCHANGED <<files, accounts, systemd>>

(* os.WriteFile truncates the file, then writes it.                        *)
TruncateRules ==
  /\ GoTo("rules", "writeRules")
  /\ rules' = Torn
  /\ UNCHANGED <<binary, tmp, unit, data, accounts, systemd>>

(* installUdevRules; reloadUdev changes nothing here and never fails.      *)
WriteRules ==
  /\ GoTo("writeRules", "unit")
  /\ rules' = "rules"
  /\ UNCHANGED <<binary, tmp, unit, data, accounts, systemd>>

TruncateUnit ==
  /\ GoTo("unit", "writeUnit")
  /\ unit' = Torn
  /\ UNCHANGED <<binary, tmp, rules, data, accounts, systemd>>

WriteUnit ==
  /\ GoTo("writeUnit", "reload")
  /\ unit' = cmd.config
  /\ UNCHANGED <<binary, tmp, rules, data, accounts, systemd>>

(* systemctl daemon-reload.                                                *)
Reload ==
  /\ GoTo("reload", "enable")
  /\ loaded' = unit
  /\ UNCHANGED <<files, data, accounts, enabled, running>>

(* systemctl enable, which also reloads.                                   *)
Enable ==
  /\ GoTo("enable", IF cmd.start THEN "restart" ELSE "done")
  /\ loaded' = unit /\ enabled' = TRUE
  /\ UNCHANGED <<files, data, accounts, running>>

(* systemctl restart.                                                      *)
Restart_Start ==
  /\ GoTo("restart", "done")
  /\ running' = IF running = NoDaemon THEN Spawned(loaded) ELSE running
  /\ running' # NoDaemon
  /\ UNCHANGED <<files, data, accounts, loaded, enabled>>

Restart ==
  /\ GoTo("restart", "done")
  /\ running' = Spawned(loaded)
  /\ running' # NoDaemon
  /\ UNCHANGED <<files, data, accounts, loaded, enabled>>

InstallStep ==
  \/ AddGroup \/ AddUser \/ OpenTmp \/ Copy \/ Rename \/ MkdirData \/ ChownData
  \/ TruncateRules \/ WriteRules \/ TruncateUnit \/ WriteUnit \/ Reload \/ Enable \/ Restart

-----------------------------------------------------------------------------
(* serviceUninstall.                                                       *)

(* systemctl disable --now, which also reloads.                            *)
Disable_Later ==
  /\ GoTo("disable", "rmUnit")
  /\ enabled' = FALSE /\ loaded' = unit
  /\ UNCHANGED <<files, data, accounts, running>>

Disable ==
  /\ GoTo("disable", "rmUnit")
  /\ enabled' = FALSE /\ running' = NoDaemon /\ loaded' = unit
  /\ UNCHANGED <<files, data, accounts>>

(* The unit, the rules and the binary, in this order; a file that is not   *)
(* there is as good as removed.                                            *)
RemoveUnit ==
  /\ GoTo("rmUnit", "rmRules")
  /\ unit' = None
  /\ UNCHANGED <<binary, tmp, rules, data, accounts, systemd>>

RemoveRules ==
  /\ GoTo("rmRules", "rmBinary")
  /\ rules' = None
  /\ UNCHANGED <<binary, tmp, unit, data, accounts, systemd>>

RemoveBinary ==
  /\ GoTo("rmBinary", "forget")
  /\ binary' = None
  /\ UNCHANGED <<tmp, unit, rules, data, accounts, systemd>>

(* systemctl daemon-reload.                                                *)
Forget ==
  /\ GoTo("forget", IF cmd.removeData THEN "rmData" ELSE "done")
  /\ loaded' = unit
  /\ UNCHANGED <<files, data, accounts, enabled, running>>

(* removeServiceData.                                                      *)
RemoveData ==
  /\ GoTo("rmData", "rmUser")
  /\ data' = None
  /\ UNCHANGED <<files, accounts, systemd>>

(* userdel, which may remove the user's group as well.                     *)
RemoveUser ==
  /\ GoTo("rmUser", "rmGroup")
  /\ user' = FALSE
  /\ group' \in {FALSE, group}
  /\ UNCHANGED <<files, data, systemd>>

RemoveGroup ==
  /\ GoTo("rmGroup", "done")
  /\ group' = FALSE
  /\ UNCHANGED <<files, data, user, systemd>>

UninstallStep ==
  \/ Disable \/ RemoveUnit \/ RemoveRules \/ RemoveBinary \/ Forget
  \/ RemoveData \/ RemoveUser \/ RemoveGroup

-----------------------------------------------------------------------------
(* systemctlVerb: start, stop, restart.  systemd loads the unit file when  *)
(* it has not loaded it yet.                                               *)
InUse == IF loaded = None THEN unit ELSE loaded

Verb ==
  /\ GoTo("verb", "done")
  /\ loaded' = InUse
  /\ running' = IF cmd.op = "stop" THEN NoDaemon
                ELSE IF cmd.op = "start" /\ running # NoDaemon THEN running
                ELSE Spawned(InUse)
  /\ cmd.op # "stop" => running' # NoDaemon
  /\ UNCHANGED <<files, data, accounts, enabled>>

Next ==
  \/ \E c \in Installs : BeginInstall(c)
  \/ \E c \in Uninstalls : BeginUninstall(c)
  \/ \E c \in Verbs : BeginVerb(c)
  \/ InstallStep \/ UninstallStep \/ Verb
  \/ Fails \/ CopyFails
  \/ DaemonEnds \/ Reboot

Spec == Init /\ [][Next]_vars

-----------------------------------------------------------------------------
Daemons == [binary: Versions, unit: Configs] \cup {NoDaemon}

TypeOK ==
  /\ binary \in Versions \cup {None}
  /\ tmp \in Versions \cup {None, Torn}
  /\ unit \in Configs \cup {None, Torn}
  /\ rules \in {None, Torn, "rules"}
  /\ data \in {None, "root", "service"}
  /\ user \in BOOLEAN /\ group \in BOOLEAN
  /\ loaded \in Configs \cup {None, Torn}
  /\ enabled \in BOOLEAN
  /\ running \in Daemons
  /\ cmd \in Installs \cup Uninstalls \cup Verbs \cup {[op |-> None]}
  /\ pc \in InstallSteps \cup UninstallSteps \cup {"verb", "idle", "done"}

(* serviceInstall and serviceUninstall order their steps so that whatever  *)
(* fails or is killed, a unit file on disk, which a boot or `service       *)
(* start` would run, has a whole binary, a data directory the daemon may   *)
(* write, and its user; and so has a running daemon.  installBinary's      *)
(* comment: a half-written binary never sits at dst.                       *)
ServiceIsWhole ==
  /\ binary # Torn
  /\ unit # None \/ running # NoDaemon =>
       /\ binary # None
       /\ data = "service"
       /\ user /\ group

(* An install that reports success has installed everything, whatever      *)
(* earlier commands left behind, and reboots and crashes of the daemon do  *)
(* not change that; with start, no older build or configuration runs.      *)
InstallIsComplete ==
  pc = "done" /\ cmd.op = "install" =>
    /\ binary = cmd.version /\ unit = cmd.config /\ rules = "rules"
    /\ data = "service" /\ user /\ group
    /\ loaded = cmd.config /\ enabled
    /\ cmd.start => running \in {NoDaemon, [binary |-> cmd.version, unit |-> cmd.config]}

(* An uninstall that reports success leaves no service behind: no daemon,  *)
(* no file of it, nothing systemd would start; and with --remove-data no   *)
(* data and no account.  The temporary file of an install that was killed  *)
(* is the one thing it does not know of.                                   *)
UninstallLeavesNothing ==
  pc = "done" /\ cmd.op = "uninstall" =>
    /\ binary = None /\ unit = None /\ rules = None
    /\ loaded = None /\ ~enabled /\ running = NoDaemon
    /\ cmd.removeData => data = None /\ ~user /\ ~group

-----------------------------------------------------------------------------
(* What the properties rest on: what each step may rely on.                *)

(* What an installation has reached, by the step that is next.             *)
InstallProgress ==
  pc \in InstallSteps =>
    /\ cmd.op = "install"
    /\ pc # "group" => group
    /\ pc \notin {"group", "user"} => user
    /\ cmd.self => binary = cmd.version /\ pc \notin {"open", "copy", "rename"}
    /\ pc = "rename" => tmp = cmd.version
    /\ pc \notin {"group", "user", "open", "copy", "rename"} =>
         /\ binary = cmd.version
         /\ pc \notin {"mkdir", "chown"} => data = "service"
         /\ pc \notin {"mkdir", "chown", "rules", "writeRules"} => rules = "rules"
    /\ pc \in {"reload", "enable", "restart"} => unit = cmd.config
    /\ pc = "restart" => loaded = cmd.config /\ enabled

UninstallProgress ==
  pc \in UninstallSteps =>
    /\ cmd.op = "uninstall"
    /\ pc # "disable" => ~enabled /\ running = NoDaemon
    /\ pc \notin {"disable", "rmUnit"} => unit = None
    /\ pc \notin {"disable", "rmUnit", "rmRules"} => rules = None
    /\ pc \notin {"disable", "rmUnit", "rmRules", "rmBinary"} => binary = None
    /\ pc \in {"rmData", "rmUser", "rmGroup"} => loaded = None /\ cmd.removeData
    /\ pc \in {"rmUser", "rmGroup"} => data = None
    /\ pc = "rmGroup" => ~user

VerbProgress == pc = "verb" => cmd.op \in {"start", "stop", "restart"} /\ unit # None

(* Data never belongs to an account that is gone, and nothing is started   *)
(* or runs without a unit file.                                            *)
Belongings ==
  /\ data = "service" => user /\ group
  /\ unit = None => ~enabled /\ running = NoDaemon

IInv ==
  /\ TypeOK
  /\ InstallProgress /\ UninstallProgress /\ VerbProgress
  /\ Belongings
  /\ ServiceIsWhole /\ InstallIsComplete /\ UninstallLeavesNothing
=============================================================================
