--------------------------- MODULE WindowsService ---------------------------
(***************************************************************************)
(* `rigscope service` on Windows, and the daemon under the Service Control *)
(* Manager: install, uninstall, start, stop, restart, run by one           *)
(* administrator at a time.  Any step may fail or be the last before the   *)
(* command is killed, the daemon may end or crash, the machine may reboot. *)
(*                                                                         *)
(* The SCM is what the code needs of it: its record of the service, the    *)
(* state the process reports, and the starts it makes by itself, after an  *)
(* error (the recovery actions) or a boot, which may come at any time.     *)
(***************************************************************************)
EXTENDS Naturals

CONSTANTS Versions, Configs   \* as in ServiceInstall

None == "none"
Torn == "torn"

VARIABLES
  binary, tmp,  \* the files at cfg.binary and cfg.binary + ".new"
  doomed,       \* binary's path is to be removed at the next boot
  data,         \* there is a data directory
  service,      \* the configuration in the SCM's record of the service
  marked,       \* the record is to go when nothing uses it
  recovery,     \* the SCM restarts it: "never", after "crashes", or "errors" too
  pending       \* the SCM is about to start it by itself

VARIABLES       \* the service's process
  state,        \* what the SCM knows of it
  proc,         \* the build and the configuration it runs with
  daemon,       \* serveCommand in it: "off", "serving", "ok", "failed", "killed"
  asked         \* a stop is on its way to Execute

VARIABLES
  cmd, pc,      \* as in ServiceInstall
  surprises     \* for the properties: what Windows did behind the command's back

files == <<binary, tmp, doomed, data>>
record == <<service, marked, recovery>>
process == <<state, proc, daemon, asked>>
command == <<cmd, pc>>
vars == <<files, record, pending, process, command, surprises>>

NoProc == [binary |-> None, config |-> None]

Installs == [op: {"install"}, version: Versions, config: Configs, start: BOOLEAN, self: BOOLEAN]
Uninstalls == [op: {"uninstall"}, removeData: BOOLEAN, self: BOOLEAN]
Verbs == [op: {"start", "stop", "restart"}]

Init ==
  /\ binary = None /\ tmp = None /\ doomed = FALSE /\ data = FALSE
  /\ service = None /\ marked = FALSE /\ recovery = "never" /\ pending = FALSE
  /\ state = "stopped" /\ proc = NoProc /\ daemon = "off" /\ asked = FALSE
  /\ cmd = [op |-> None] /\ pc = "idle" /\ surprises = {}

Free == pc \in {"idle", "done"}

-----------------------------------------------------------------------------
(* The SCM starts the process, which is the binary there is then.          *)
Startable == service # None /\ ~marked /\ state = "stopped" /\ binary # None

Spawn ==
  /\ state' = "starting" /\ daemon' = "off" /\ asked' = FALSE
  /\ proc' = [binary |-> binary, config |-> service]

(* After an error or a boot.  A command that runs does not hold it up.     *)
StartsByItself ==
  /\ pending /\ Startable
  /\ Spawn
  /\ pending' = FALSE
  /\ surprises' = surprises \cup IF Free THEN {} ELSE {"started"}
  /\ UNCHANGED <<files, record, command>>

(* Execute: serveCommand, which opens the store, runs in a goroutine, and  *)
(* Running is reported as soon as that is started.                         *)
Launch ==
  /\ state = "starting" /\ daemon = "off"
  /\ daemon' = "serving"
  /\ data' \in {data, TRUE}
  /\ UNCHANGED <<state, proc, asked>>

ReportRunning ==
  /\ state = "starting" /\ daemon # "off"
  /\ state' = "running"
  /\ UNCHANGED <<data, proc, daemon, asked>>

TakeStop ==
  /\ state = "running" /\ asked
  /\ state' = "stopping" /\ asked' = FALSE
  /\ UNCHANGED <<data, proc, daemon>>

(* serveCommand ends without an error only when it is told to stop.        *)
ServeEnds ==
  /\ daemon = "serving"
  /\ daemon' \in IF state = "stopping" THEN {"ok", "failed"} ELSE {"failed"}
  /\ UNCHANGED <<data, state, proc, asked>>

ExecuteStep ==
  /\ Launch \/ ReportRunning \/ TakeStop \/ ServeEnds
  /\ UNCHANGED <<binary, tmp, doomed, record, pending, command, surprises>>

(* Execute returns what serveCommand returned; serviceExit turns an error  *)
(* into an exit code the recovery actions are for.                         *)
Result == state \in {"running", "stopping"} /\ daemon \in {"ok", "failed"}

Exit ==
  /\ Result
  /\ state' = "stopped" /\ proc' = NoProc /\ asked' = FALSE
  /\ pending' = (pending \/ (daemon = "failed" /\ recovery = "errors"))
  /\ UNCHANGED <<files, record, daemon, command, surprises>>

Crash ==
  /\ state # "stopped"
  /\ state' = "stopped" /\ proc' = NoProc /\ daemon' = "killed" /\ asked' = FALSE
  /\ pending' = (pending \/ recovery # "never")
  /\ UNCHANGED <<files, record, command, surprises>>

(* A record marked for deletion goes when the last handle is closed: with  *)
(* the process and the command.                                            *)
Vanish ==
  /\ marked /\ state = "stopped" /\ Free
  /\ service' = None /\ marked' = FALSE /\ recovery' = "never" /\ pending' = FALSE
  /\ UNCHANGED <<files, process, command, surprises>>

(* Windows starts the service after a boot, and removes what it was told   *)
(* to at the last uninstall.                                               *)
Reboot ==
  /\ binary' = IF doomed THEN None ELSE binary
  /\ doomed' = FALSE
  /\ service' = IF marked THEN None ELSE service
  /\ recovery' = IF marked THEN "never" ELSE recovery
  /\ marked' = FALSE
  /\ pending' = (service' # None)
  /\ state' = "stopped" /\ proc' = NoProc /\ daemon' = "killed" /\ asked' = FALSE
  /\ pc' = IF pc = "done" THEN "done" ELSE "idle"
  /\ surprises' = surprises \cup IF doomed /\ binary # None THEN {"removed"} ELSE {}
  /\ UNCHANGED <<tmp, data, cmd>>

-----------------------------------------------------------------------------
(* Commands.  openService fails without a record.                          *)
Begin(c, first) ==
  /\ Free
  /\ cmd' = c /\ pc' = first /\ surprises' = {}
  /\ UNCHANGED <<files, record, pending, process>>

BeginInstall(c) ==
  /\ c.self => binary = c.version
  /\ Begin(c, IF service # None THEN "stop" ELSE IF c.self THEN "mkdir" ELSE "open")

BeginUninstall(c) == service # None /\ (c.self => binary # None) /\ Begin(c, "stop")

BeginVerb(c) == service # None /\ Begin(c, IF c.op = "start" THEN "start" ELSE "stop")

GoTo(from, to) == pc = from /\ pc' = to /\ UNCHANGED cmd

(* A call fails, waitServiceState's 30 s are over, or the command is       *)
(* killed.                                                                 *)
Fails ==
  /\ ~Free
  /\ pc' = "idle"
  /\ tmp' \in IF pc \in {"copy", "rename"} THEN {tmp, None} ELSE {tmp}
  /\ UNCHANGED <<binary, doomed, data, record, pending, process, cmd, surprises>>

(* stopService: the stop is asked for once, and is refused by a process    *)
(* that is still starting.                                                 *)
AskToStop ==
  /\ state \in {"running", "stopping"}
  /\ GoTo("stop", "wait")
  /\ asked' = (asked \/ state = "running")
  /\ UNCHANGED <<files, record, pending, state, proc, daemon, surprises>>

AfterStop ==
  IF cmd.op = "install" THEN IF cmd.self THEN "mkdir" ELSE "open"
  ELSE IF cmd.op = "uninstall" THEN "delete"
  ELSE IF cmd.op = "restart" THEN "start" ELSE "done"

Stopped_Asked == TRUE

Stopped == state = "stopped"

SeeStopped ==
  /\ \/ pc = "stop" /\ state = "stopped"
     \/ pc = "wait" /\ Stopped
  /\ GoTo(pc, AfterStop)
  /\ surprises' = surprises \ {"started"}
  /\ UNCHANGED <<files, record, pending, process>>

(* installBinary.  Windows does not replace the executable of a process.   *)
OpenTmp ==
  /\ GoTo("open", "copy")
  /\ tmp' = Torn
  /\ UNCHANGED <<binary, doomed, data, record, pending, process, surprises>>

Copy ==
  /\ GoTo("copy", "rename")
  /\ tmp' = cmd.version
  /\ UNCHANGED <<binary, doomed, data, record, pending, process, surprises>>

Rename ==
  /\ proc = NoProc
  /\ GoTo("rename", "mkdir")
  /\ binary' = tmp /\ tmp' = None
  /\ UNCHANGED <<doomed, data, record, pending, process, surprises>>

MkdirData ==
  /\ GoTo("mkdir", "record")
  /\ data' = TRUE
  /\ UNCHANGED <<binary, tmp, doomed, record, pending, process, surprises>>

(* CreateService, or UpdateConfig of the record that was found.            *)
Recorded_Create == IF service = None THEN cmd.config ELSE service

Recorded == cmd.config

Record ==
  /\ ~marked
  /\ GoTo("record", "crashes")
  /\ service' = Recorded
  /\ UNCHANGED <<files, marked, recovery, pending, process, surprises>>

(* SetRecoveryActions, which SetRecoveryActionsOnNonCrashFailures extends  *)
(* to error exits.                                                         *)
SetRecovery ==
  /\ \/ GoTo("crashes", "errors") /\ recovery' = IF recovery = "never" THEN "crashes" ELSE recovery
     \/ GoTo("errors", IF cmd.start THEN "start" ELSE "done") /\ recovery' = "errors"
  /\ UNCHANGED <<files, service, marked, pending, process, surprises>>

(* startService: a service that runs already is left alone.                *)
SeeRunning ==
  /\ pc \in {"start", "started"} /\ state = "running"
  /\ GoTo(pc, "done")
  /\ UNCHANGED <<files, record, pending, process, surprises>>

Start ==
  /\ Startable
  /\ GoTo("start", "started")
  /\ Spawn
  /\ UNCHANGED <<files, record, pending, surprises>>

(* serviceUninstall.                                                       *)
Delete ==
  /\ GoTo("delete", "rmBinary")
  /\ marked' = TRUE
  /\ UNCHANGED <<files, service, recovery, pending, process, surprises>>

(* removeInstalledBinary: an executable in use, by the service or by this  *)
(* command, goes at the next boot.                                         *)
RemoveBinary ==
  /\ GoTo("rmBinary", IF cmd.removeData THEN "rmData" ELSE "done")
  /\ IF cmd.self \/ proc # NoProc
     THEN doomed' = TRUE /\ UNCHANGED binary
     ELSE binary' = None /\ UNCHANGED doomed
  /\ UNCHANGED <<tmp, data, record, pending, process, surprises>>

(* removeServiceData, which fails while the store's files are open.        *)
RemoveData ==
  /\ daemon # "serving"
  /\ GoTo("rmData", "done")
  /\ data' = FALSE
  /\ UNCHANGED <<binary, tmp, doomed, record, pending, process, surprises>>

Next ==
  \/ StartsByItself \/ ExecuteStep \/ Exit \/ Crash \/ Vanish \/ Reboot
  \/ \E c \in Installs : BeginInstall(c)
  \/ \E c \in Uninstalls : BeginUninstall(c)
  \/ \E c \in Verbs : BeginVerb(c)
  \/ Fails
  \/ AskToStop \/ SeeStopped
  \/ OpenTmp \/ Copy \/ Rename \/ MkdirData \/ Record \/ SetRecovery
  \/ SeeRunning \/ Start
  \/ Delete \/ RemoveBinary \/ RemoveData

Spec == Init /\ [][Next]_vars

-----------------------------------------------------------------------------
(* The binary is replaced or removed, and the record and the data are      *)
(* removed, only when the daemon has ended and closed its store: Execute   *)
(* returns after serveCommand, and the commands wait for that.  The one    *)
(* exception is a start the SCM makes by itself in between.                *)
DaemonEndsFirst ==
  /\ pc \in {"open", "copy", "rename", "mkdir", "record", "delete", "rmBinary", "rmData"}
  /\ "started" \notin surprises
  => state = "stopped" /\ daemon # "serving"

(* A command that reports success has done all of it, whatever earlier     *)
(* commands left behind and through reboots, crashes and restarts: after   *)
(* an install no other build or configuration runs, or is restarted; after *)
(* an uninstall nothing is left that could run.  Two exceptions: the SCM   *)
(* starts the service while the command is at work, and the binary of an   *)
(* earlier installation, whose removal is due at the boot, takes the new   *)
(* one with it.                                                            *)
SuccessMeansDone ==
  /\ pc = "done" /\ cmd.op = "install" =>
       /\ binary = cmd.version \/ "removed" \in surprises
       /\ service = cmd.config /\ ~marked /\ recovery = "errors" /\ data
       /\ \/ proc \in {NoProc, [binary |-> cmd.version, config |-> cmd.config]}
          \/ "started" \in surprises
  /\ pc = "done" /\ cmd.op = "uninstall" =>
       /\ service = None \/ marked
       /\ binary = None \/ doomed
       /\ "started" \notin surprises => proc = NoProc /\ (cmd.removeData => ~data)

(* README: install copies the running binary into place and registers the  *)
(* service to start at boot.  With no exception this is not so: a removal  *)
(* that an earlier uninstall left to the next boot removes the new binary. *)
InstallSurvivesBoot == pc = "done" /\ cmd.op = "install" => binary = cmd.version
-----------------------------------------------------------------------------
(* What the properties rest on: what each step may rely on.                *)
InstallSteps == {"stop", "wait", "open", "copy", "rename", "mkdir", "record", "crashes",
                 "errors", "start", "started"}
UninstallSteps == {"stop", "wait", "delete", "rmBinary", "rmData"}

TypeOK ==
  /\ binary \in Versions \cup {None}
  /\ tmp \in Versions \cup {None, Torn}
  /\ doomed \in BOOLEAN /\ data \in BOOLEAN
  /\ service \in Configs \cup {None}
  /\ marked \in BOOLEAN
  /\ recovery \in {"never", "crashes", "errors"}
  /\ pending \in BOOLEAN
  /\ state \in {"stopped", "starting", "running", "stopping"}
  /\ proc \in [binary: Versions, config: Configs] \cup {NoProc}
  /\ daemon \in {"off", "serving", "ok", "failed", "killed"}
  /\ asked \in BOOLEAN
  /\ cmd \in Installs \cup Uninstalls \cup Verbs \cup {[op |-> None]}
  /\ pc \in InstallSteps \cup UninstallSteps \cup {"idle", "done"}
  /\ surprises \subseteq {"started", "removed"}

(* A process that has ended serves no more, and one that has not keeps the *)
(* record it was started from.                                             *)
ProcessLife ==
  /\ state = "stopped" <=> proc = NoProc
  /\ daemon = "serving" => state # "stopped"
  /\ state # "stopped" => service # None

(* Once a command has seen the service stopped, or found no record of it,  *)
(* only the SCM starts it.                                                 *)
Quiet ==
  /\ \/ pc \in (InstallSteps \cup UninstallSteps) \ {"stop", "wait", "start", "started"}
     \/ pc = "start" /\ cmd.op = "install"
  /\ "started" \notin surprises
  => state = "stopped"

(* What an installation has reached, by the step that is next.             *)
InstallProgress ==
  cmd.op = "install" /\ pc # "idle" =>
    /\ pc \in InstallSteps \cup {"done"}
    /\ cmd.self /\ pc \in {"stop", "wait"} => binary = cmd.version
    /\ pc = "rename" => tmp = cmd.version
    /\ pc \in {"mkdir", "record", "crashes", "errors", "start", "started"} => binary = cmd.version
    /\ pc \in {"record", "crashes", "errors", "start", "started", "done"} => data
    /\ pc \in {"crashes", "errors", "start", "started", "done"} =>
         service = cmd.config /\ ~marked
    /\ pc \in {"start", "started", "done"} => recovery = "errors"
    /\ pc \in {"started", "done"} =>
         \/ proc \in {NoProc, [binary |-> cmd.version, config |-> cmd.config]}
         \/ "started" \in surprises
    /\ pc = "done" => binary = cmd.version \/ (binary = None /\ "removed" \in surprises)

UninstallProgress ==
  cmd.op = "uninstall" /\ pc # "idle" =>
    /\ pc \in UninstallSteps \cup {"done"}
    /\ pc \in {"rmBinary", "rmData", "done"} => service = None \/ marked
    /\ pc \in {"rmData", "done"} => binary = None \/ doomed
    /\ pc = "rmData" => cmd.removeData
    /\ pc = "done" /\ "started" \notin surprises =>
         state = "stopped" /\ (cmd.removeData => ~data)

VerbProgress ==
  cmd.op \in {"start", "stop", "restart"} => pc \in {"stop", "wait", "start", "started", "idle", "done"}

IInv ==
  /\ TypeOK
  /\ ProcessLife /\ Quiet
  /\ InstallProgress /\ UninstallProgress /\ VerbProgress
  /\ cmd.op = None => pc = "idle"
=============================================================================
