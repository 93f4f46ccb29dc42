--------------------------- MODULE LaunchdService ---------------------------
(***************************************************************************)
(* `rigscope service` on macOS: install, uninstall, start, stop, restart,  *)
(* under the same conditions as ServiceInstall.  launchd is what the code  *)
(* needs of it: the property list of the job it has loaded, and the daemon *)
(* it runs for it.                                                         *)
(***************************************************************************)
EXTENDS Naturals

CONSTANTS Versions, Configs   \* as in ServiceInstall

None == "none"
Torn == "torn"

VARIABLES
  binary, tmp,  \* the files at cfg.binary and cfg.binary + ".new"
  plist,        \* the file at launchdPlistPath
  data,         \* there is a data directory
  loaded,       \* the job's property list, None when it is not loaded
  proc,         \* the build and the configuration the daemon runs with
  cmd, pc       \* as in ServiceInstall

files == <<binary, tmp, plist, data>>
launchd == <<loaded, proc>>
vars == <<files, launchd, cmd, pc>>

NoProc == [binary |-> None, config |-> None]

Installs == [op: {"install"}, version: Versions, config: Configs, start: BOOLEAN, self: BOOLEAN]
Uninstalls == [op: {"uninstall"}, removeData: BOOLEAN]
Verbs == [op: {"start", "stop", "restart"}]

Init ==
  /\ binary = None /\ tmp = None /\ plist = None /\ data = FALSE
  /\ loaded = None /\ proc = NoProc
  /\ cmd = [op |-> None] /\ pc = "idle"

Free == pc \in {"idle", "done"}

-----------------------------------------------------------------------------
(* launchd: what it can start, and what it does by itself.  RunAtLoad      *)
(* starts a job when it is loaded, KeepAlive after an unsuccessful exit.   *)
Spawned(config) ==
  IF config # None /\ binary # None THEN [binary |-> binary, config |-> config] ELSE NoProc

DaemonEnds ==
  /\ proc # NoProc
  /\ proc' \in {NoProc, Spawned(loaded)}
  /\ UNCHANGED <<files, loaded, cmd, pc>>

Reboot ==
  /\ loaded' = IF plist = Torn THEN None ELSE plist
  /\ proc' = Spawned(loaded')
  /\ pc' = IF pc = "done" THEN "done" ELSE "idle"
  /\ UNCHANGED <<files, cmd>>

-----------------------------------------------------------------------------
Begin(c, first) == Free /\ cmd' = c /\ pc' = first /\ UNCHANGED <<files, launchd>>

BeginInstall(c) ==
  /\ c.self => binary = c.version
  /\ Begin(c, IF c.self THEN "mkdir" ELSE "open")

BeginUninstall(c) == Begin(c, "bootout")

(* start needs the property list, kill the job; restart starts it when it  *)
(* is not loaded.                                                          *)
BeginVerb(c) ==
  /\ IF c.op = "stop" THEN loaded # None ELSE plist # None \/ (c.op = "restart" /\ loaded # None)
  /\ Begin(c, c.op)

GoTo(from, to) == pc = from /\ pc' = to /\ UNCHANGED cmd

(* A step fails, or the command is killed before it.                       *)
Fails ==
  /\ ~Free
  /\ pc' = "idle"
  /\ tmp' \in IF pc \in {"copy", "rename"} THEN {tmp, None} ELSE {tmp}
  /\ UNCHANGED <<binary, plist, data, launchd, cmd>>

(* installBinary.                                                          *)
OpenTmp ==
  /\ GoTo("open", "copy")
  /\ tmp' = Torn
  /\ UNCHANGED <<binary, plist, data, launchd>>

Copy ==
  /\ GoTo("copy", "rename")
  /\ tmp' = cmd.version
  /\ UNCHANGED <<binary, plist, data, launchd>>

Rename ==
  /\ GoTo("rename", "mkdir")
  /\ binary' = tmp /\ tmp' = None
  /\ UNCHANGED <<plist, data, launchd>>

MkdirData ==
  /\ GoTo("mkdir", "plist")
  /\ data' = TRUE
  /\ UNCHANGED <<binary, tmp, plist, launchd>>

(* os.WriteFile truncates the file, then writes it.                        *)
WritePlist ==
  /\ \/ GoTo("plist", "writePlist") /\ plist' = Torn
     \/ GoTo("writePlist", "bootout") /\ plist' = cmd.config
  /\ UNCHANGED <<binary, tmp, data, launchd>>

(* A loaded job is booted out, and its daemon with it.                     *)
Unloads_New == cmd.op = "uninstall"

Unloads == TRUE

Bootout ==
  /\ GoTo("bootout", IF cmd.op = "uninstall" THEN "rmPlist"
                     ELSE IF cmd.start THEN "bootstrap" ELSE "done")
  /\ IF Unloads THEN loaded' = None /\ proc' = NoProc ELSE UNCHANGED launchd
  /\ UNCHANGED files

Bootstraps ==
  /\ loaded' = IF loaded = None THEN plist ELSE loaded
  /\ proc' = IF loaded = None THEN Spawned(plist) ELSE proc

Bootstrap ==
  /\ plist \in Configs
  /\ GoTo("bootstrap", "done")
  /\ Bootstraps
  /\ UNCHANGED files

RemoveFiles ==
  \/ /\ GoTo("rmPlist", "rmBinary")
     /\ plist' = None
     /\ UNCHANGED <<binary, tmp, data, launchd>>
  \/ /\ GoTo("rmBinary", IF cmd.removeData THEN "rmData" ELSE "done")
     /\ binary' = None
     /\ UNCHANGED <<tmp, plist, data, launchd>>
  \/ /\ GoTo("rmData", "done")
     /\ data' = FALSE
     /\ UNCHANGED <<binary, tmp, plist, launchd>>

(* start and restart of a job that is not loaded load it; kickstart starts *)
(* the daemon, with -k again.  A stop that ends with an error is no stop.  *)
StartJob ==
  /\ GoTo("start", "done") \/ GoTo("restart", "done")
  /\ IF loaded = None THEN plist \in Configs /\ Bootstraps
     ELSE /\ loaded' = loaded
          /\ proc' = IF cmd.op = "restart" \/ proc = NoProc THEN Spawned(loaded) ELSE proc
          /\ proc' # NoProc
  /\ UNCHANGED files

StopJob ==
  /\ proc # NoProc
  /\ GoTo("stop", "done")
  /\ proc' \in {NoProc, Spawned(loaded)}
  /\ UNCHANGED <<files, loaded>>

Next ==
  \/ DaemonEnds \/ Reboot
  \/ \E c \in Installs : BeginInstall(c)
  \/ \E c \in Uninstalls : BeginUninstall(c)
  \/ \E c \in Verbs : BeginVerb(c)
  \/ Fails
  \/ OpenTmp \/ Copy \/ Rename \/ MkdirData \/ WritePlist \/ Bootout \/ Bootstrap
  \/ RemoveFiles \/ StartJob \/ StopJob

Spec == Init /\ [][Next]_vars

-----------------------------------------------------------------------------
(* Wherever a command fails or is killed, a property list on disk, which   *)
(* the next boot runs, or a running daemon has its binary and its data     *)
(* directory, and no half-written binary is at the binary's place.         *)
ServiceIsWhole ==
  /\ binary # Torn
  /\ plist # None \/ proc # NoProc => binary # None /\ data

(* A command that reports success has done all of it, whatever earlier     *)
(* commands left behind and through reboots and crashes: after an install  *)
(* no older build or configuration is loaded or runs, after an uninstall   *)
(* nothing is left that could run.                                         *)
SuccessMeansDone ==
  /\ pc = "done" /\ cmd.op = "install" =>
       /\ binary = cmd.version /\ plist = cmd.config /\ data
       /\ loaded \in {None, cmd.config} /\ (cmd.start => loaded = cmd.config)
       /\ proc \in {NoProc, [binary |-> cmd.version, config |-> cmd.config]}
  /\ pc = "done" /\ cmd.op = "uninstall" =>
       /\ plist = None /\ binary = None /\ loaded = None /\ proc = NoProc
       /\ cmd.removeData => ~data
-----------------------------------------------------------------------------
(* What the properties rest on: what each step may rely on.                *)
InstallSteps == {"open", "copy", "rename", "mkdir", "plist", "writePlist", "bootout", "bootstrap"}
UninstallSteps == {"bootout", "rmPlist", "rmBinary", "rmData"}

TypeOK ==
  /\ binary \in Versions \cup {None}
  /\ tmp \in Versions \cup {None, Torn}
  /\ plist \in Configs \cup {None, Torn}
  /\ data \in BOOLEAN
  /\ loaded \in Configs \cup {None}
  /\ proc \in [binary: Versions, config: Configs] \cup {NoProc}
  /\ cmd \in Installs \cup Uninstalls \cup Verbs \cup {[op |-> None]}
  /\ pc \in InstallSteps \cup UninstallSteps \cup {"start", "stop", "restart", "idle", "done"}

(* A daemon runs for a loaded job, a job is loaded from a property list on *)
(* disk, and that has its binary and its data directory.                   *)
Belongings ==
  /\ proc # NoProc => loaded # None
  /\ loaded # None => plist # None
  /\ plist # None => binary # None /\ data

InstallProgress ==
  cmd.op = "install" /\ pc # "idle" =>
    /\ pc \in InstallSteps \cup {"done"}
    /\ pc = "rename" => tmp = cmd.version
    /\ pc \notin {"open", "copy", "rename"} =>
         /\ binary = cmd.version
         /\ pc # "mkdir" => data
    /\ pc \in {"bootout", "bootstrap", "done"} => plist = cmd.config
    /\ pc = "bootstrap" => loaded = None /\ cmd.start
    /\ pc = "done" =>
         /\ loaded \in {None, cmd.config} /\ (cmd.start => loaded = cmd.config)
         /\ proc \in {NoProc, [binary |-> cmd.version, config |-> cmd.config]}

UninstallProgress ==
  cmd.op = "uninstall" /\ pc # "idle" =>
    /\ pc \in UninstallSteps \cup {"done"}
    /\ pc # "bootout" => loaded = None
    /\ pc \in {"rmBinary", "rmData", "done"} => plist = None
    /\ pc \in {"rmData", "done"} => binary = None
    /\ pc = "rmData" => cmd.removeData
    /\ pc = "done" /\ cmd.removeData => ~data

VerbProgress ==
  cmd.op \in {"start", "stop", "restart"} => pc \in {cmd.op, "idle", "done"}

IInv ==
  /\ TypeOK /\ Belongings
  /\ InstallProgress /\ UninstallProgress /\ VerbProgress
  /\ cmd.op = None => pc = "idle"
=============================================================================
