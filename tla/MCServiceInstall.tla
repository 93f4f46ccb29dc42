-------------------------- MODULE MCServiceInstall --------------------------
(* One of the three builds of `rigscope service` at work: ServiceInstall's *)
(* variables move on Linux only, the others on Windows and macOS.          *)
EXTENDS ServiceInstall, TLC

CONSTANTS v1, v2, c1, c2

MCVersions == {v1, v2}
MCConfigs == {c1, c2}
Symmetry == Permutations(MCVersions) \cup Permutations(MCConfigs)

VARIABLES
  platform,                                         \* never changes
  exe, newExe, hasData, proc, command, at,          \* of Windows and macOS
  doomed, service, marked, recovery, pending, state, daemon, asked, surprises, \* of Windows
  plist, job                                        \* of macOS

shared == <<exe, newExe, hasData, proc, command, at>>
windowsOnly == <<doomed, service, marked, recovery, pending, state, daemon, asked, surprises>>
macosOnly == <<plist, job>>
allVars == <<platform, vars, shared, windowsOnly, macosOnly>>

Windows == INSTANCE WindowsService
  WITH binary <- exe, tmp <- newExe, data <- hasData, cmd <- command, pc <- at
Macos == INSTANCE LaunchdService
  WITH binary <- exe, tmp <- newExe, data <- hasData, cmd <- command, pc <- at, loaded <- job

MCInit == platform \in {"linux", "windows", "macos"} /\ Init /\ Windows!Init /\ Macos!Init

MCNext ==
  /\ \/ platform = "linux" /\ Next /\ UNCHANGED <<shared, windowsOnly, macosOnly>>
     \/ platform = "windows" /\ Windows!Next /\ UNCHANGED <<vars, macosOnly>>
     \/ platform = "macos" /\ Macos!Next /\ UNCHANGED <<vars, windowsOnly>>
  /\ UNCHANGED platform

MCSpec == MCInit /\ [][MCNext]_allVars

-----------------------------------------------------------------------------
(* On Windows the daemon has ended before its binary is replaced or        *)
(* removed and before its record and data are: Execute returns after       *)
(* serveCommand, stopService waits for it.                                 *)
DaemonEndsFirst == platform = "windows" => Windows!DaemonEndsFirst

(* On Windows and macOS too, a command that reports success has done all   *)
(* of it, and a service that can be started is whole.                      *)
SuccessMeansDone ==
  /\ platform = "windows" => Windows!SuccessMeansDone
  /\ platform = "macos" => Macos!SuccessMeansDone /\ Macos!ServiceIsWhole

(* README: install copies the running binary into place and registers the  *)
(* service to start at boot.  On Windows an earlier uninstall may have     *)
(* left the removal of that very file to the next boot.                    *)
InstallSurvivesBoot == platform = "windows" => Windows!InstallSurvivesBoot

(* The inductive invariants behind them, each on its own platform.         *)
ServiceInvariant ==
  /\ IInv
  /\ platform = "windows" => Windows!IInv
  /\ platform = "macos" => Macos!IInv
=============================================================================
