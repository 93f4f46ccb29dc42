------------------------ MODULE ServiceInstallProofs ------------------------
(***************************************************************************)
(* What `rigscope service` keeps, for any builds and configurations and    *)
(* any sequence of commands, failures, reboots and ends of the daemon: on  *)
(* Linux first, then on Windows and macOS, and at last for whichever of    *)
(* the three the machine has.                                              *)
(***************************************************************************)
EXTENDS MCServiceInstall, TLAPS

(* A machine rigscope was never installed on.                              *)
LEMMA StartsInvariant == Init => IInv
BY ServiceConstants
DEF Init, IInv, TypeOK, InstallProgress, UninstallProgress, VerbProgress, Belongings,
    ServiceIsWhole, InstallIsComplete, UninstallLeavesNothing, Installs, Uninstalls, Verbs,
    InstallSteps, UninstallSteps, Daemons, NoDaemon, None, Torn

(* What systemd starts is a daemon of the binary and the unit there are.   *)
LEMMA WhatIsSpawned ==
  ASSUME TypeOK, NEW config
  PROVE  /\ Spawned(config) \in Daemons
         /\ Spawned(config) # NoDaemon =>
              /\ Spawned(config) = [binary |-> binary, unit |-> config]
              /\ config \in Configs /\ binary \in Versions /\ user
BY ServiceConstants DEF Spawned, Daemons, TypeOK, NoDaemon, None

(* The machine and the passing of time: ends of the daemon, reboots, and   *)
(* commands that fail or are killed.                                       *)
LEMMA EnvironmentKeeps == IInv /\ (DaemonEnds \/ Reboot \/ Fails \/ CopyFails) => IInv'
<1> SUFFICES ASSUME IInv, DaemonEnds \/ Reboot \/ Fails \/ CopyFails PROVE IInv'
  OBVIOUS
<1> USE DEF IInv, TypeOK, InstallProgress, UninstallProgress, VerbProgress, Belongings,
            ServiceIsWhole, InstallIsComplete, UninstallLeavesNothing, InstallSteps,
            UninstallSteps, files, accounts, systemd, machine, None, Torn
<1>1. CASE DaemonEnds
  BY <1>1, WhatIsSpawned, ServiceConstants DEF DaemonEnds
<1>2. CASE Reboot
  BY <1>2, WhatIsSpawned, ServiceConstants DEF Reboot
<1>3. CASE Fails
  BY <1>3 DEF Fails, Free
<1>4. CASE CopyFails
  BY <1>4 DEF CopyFails
<1>. QED
  BY <1>1, <1>2, <1>3, <1>4

(* A command begins.                                                       *)
Begins ==
  \/ \E c \in Installs : BeginInstall(c)
  \/ \E c \in Uninstalls : BeginUninstall(c)
  \/ \E c \in Verbs : BeginVerb(c)

LEMMA BeginKeeps == IInv /\ Begins => IInv'
<1> SUFFICES ASSUME IInv, Begins PROVE IInv'
  OBVIOUS
<1> USE DEF IInv, TypeOK, InstallProgress, UninstallProgress, VerbProgress, Belongings,
            ServiceIsWhole, InstallIsComplete, UninstallLeavesNothing, InstallSteps,
            UninstallSteps, files, accounts, systemd, machine, None, Torn
<1>1. ASSUME NEW c \in Installs, BeginInstall(c) PROVE IInv'
  BY <1>1 DEF BeginInstall, Installs
<1>2. ASSUME NEW c \in Uninstalls, BeginUninstall(c) PROVE IInv'
  BY <1>2 DEF BeginUninstall, Uninstalls
<1>3. ASSUME NEW c \in Verbs, BeginVerb(c) PROVE IInv'
  BY <1>3 DEF BeginVerb, Verbs
<1>. QED
  BY <1>1, <1>2, <1>3 DEF Begins

(* What an installation was asked for.                                     *)
LEMMA InstallArguments ==
  ASSUME TypeOK, cmd.op = "install"
  PROVE  /\ cmd.version \in Versions /\ cmd.config \in Configs
         /\ cmd.start \in BOOLEAN /\ cmd.self \in BOOLEAN
BY DEF TypeOK, Installs, Uninstalls, Verbs, None

(* serviceInstall, step by step.                                           *)
LEMMA InstallKeeps == IInv /\ InstallStep => IInv'
<1> SUFFICES ASSUME IInv, InstallStep PROVE IInv'
  OBVIOUS
<1> USE DEF IInv, TypeOK, InstallProgress, UninstallProgress, VerbProgress, Belongings,
            ServiceIsWhole, InstallIsComplete, UninstallLeavesNothing, InstallSteps,
            UninstallSteps, files, accounts, systemd, machine, None, Torn
<1> USE DEF GoTo
<1>1. CASE AddGroup
  BY <1>1, InstallArguments, ServiceConstants DEF AddGroup
<1>2. CASE AddUser
  BY <1>2, InstallArguments, ServiceConstants DEF AddUser
<1>3. CASE OpenTmp
  BY <1>3, InstallArguments, ServiceConstants DEF OpenTmp
<1>4. CASE Copy
  BY <1>4, InstallArguments, ServiceConstants DEF Copy
<1>5. CASE Rename
  BY <1>5, InstallArguments, ServiceConstants DEF Rename
<1>6. CASE MkdirData
  BY <1>6, InstallArguments, ServiceConstants DEF MkdirData
<1>7. CASE ChownData
  BY <1>7, InstallArguments, ServiceConstants DEF ChownData
<1>8. CASE TruncateRules
  BY <1>8, InstallArguments, ServiceConstants DEF TruncateRules
<1>9. CASE WriteRules
  BY <1>9, InstallArguments, ServiceConstants DEF WriteRules
<1>10. CASE TruncateUnit
  BY <1>10, InstallArguments, ServiceConstants DEF TruncateUnit
<1>11. CASE WriteUnit
  BY <1>11, InstallArguments, ServiceConstants DEF WriteUnit
<1>12. CASE Reload
  BY <1>12, InstallArguments, ServiceConstants DEF Reload
<1>13. CASE Enable
  BY <1>13, InstallArguments, ServiceConstants DEF Enable
<1>14. CASE Restart
  BY <1>14, InstallArguments, ServiceConstants, WhatIsSpawned DEF Restart
<1>. QED
  BY <1>1, <1>2, <1>3, <1>4, <1>5, <1>6, <1>7, <1>8, <1>9, <1>10, <1>11, <1>12, <1>13, <1>14 DEF InstallStep

(* What an uninstallation was asked for.                                   *)
LEMMA UninstallArguments ==
  ASSUME TypeOK, cmd.op = "uninstall"
  PROVE  cmd.removeData \in BOOLEAN
BY DEF TypeOK, Installs, Uninstalls, Verbs, None

(* serviceUninstall, step by step.                                         *)
LEMMA UninstallKeeps == IInv /\ UninstallStep => IInv'
<1> SUFFICES ASSUME IInv, UninstallStep PROVE IInv'
  OBVIOUS
<1> USE DEF IInv, TypeOK, InstallProgress, UninstallProgress, VerbProgress, Belongings,
            ServiceIsWhole, InstallIsComplete, UninstallLeavesNothing, InstallSteps,
            UninstallSteps, files, accounts, systemd, machine, None, Torn
<1> USE DEF GoTo
<1>1. CASE Disable
  BY <1>1, UninstallArguments DEF Disable, Daemons
<1>2. CASE RemoveUnit
  BY <1>2, UninstallArguments DEF RemoveUnit
<1>3. CASE RemoveRules
  BY <1>3, UninstallArguments DEF RemoveRules
<1>4. CASE RemoveBinary
  BY <1>4, UninstallArguments DEF RemoveBinary
<1>5. CASE Forget
  BY <1>5, UninstallArguments DEF Forget
<1>6. CASE RemoveData
  BY <1>6, UninstallArguments DEF RemoveData
<1>7. CASE RemoveUser
  BY <1>7, UninstallArguments DEF RemoveUser
<1>8. CASE RemoveGroup
  BY <1>8, UninstallArguments DEF RemoveGroup
<1>. QED
  BY <1>1, <1>2, <1>3, <1>4, <1>5, <1>6, <1>7, <1>8 DEF UninstallStep

(* start, stop and restart.                                                *)
LEMMA VerbKeeps == IInv /\ Verb => IInv'
<1> SUFFICES ASSUME IInv, Verb PROVE IInv'
  OBVIOUS
<1> USE DEF IInv, TypeOK, InstallProgress, UninstallProgress, VerbProgress, Belongings,
            ServiceIsWhole, InstallIsComplete, UninstallLeavesNothing, InstallSteps,
            UninstallSteps, files, accounts, systemd, machine, None, Torn
<1>1. InUse \in Configs \cup {None, Torn}
  BY DEF InUse
<1>2. Spawned(InUse) \in Daemons
      /\ (Spawned(InUse) # NoDaemon => Spawned(InUse) = [binary |-> binary, unit |-> InUse]
                                       /\ binary \in Versions)
  BY WhatIsSpawned
<1>. QED
  BY <1>1, <1>2, ServiceConstants DEF Verb, GoTo, Daemons

-----------------------------------------------------------------------------
LEMMA LinuxKeeps == IInv /\ (Next \/ UNCHANGED vars) => IInv'
<1>1. IInv /\ UNCHANGED vars => IInv'
  BY DEF IInv, TypeOK, InstallProgress, UninstallProgress, VerbProgress, Belongings,
         ServiceIsWhole, InstallIsComplete, UninstallLeavesNothing, vars, machine, files,
         accounts, systemd
<1>. QED
  BY <1>1, EnvironmentKeeps, BeginKeeps, InstallKeeps, UninstallKeeps, VerbKeeps DEF Next, Begins

(* The inductive invariant: every step of a command knows what the steps   *)
(* before it have done, data belongs to an account that exists, and what   *)
(* starts or runs has its unit file.                                       *)
THEOREM ServiceCorrect == Spec => []IInv
<1>1. IInv /\ [Next]_vars => IInv'
  BY LinuxKeeps
<1>. QED
  BY <1>1, StartsInvariant, PTL DEF Spec

(* TypeOK: the files, the accounts and systemd's state stay in their       *)
(* types; in particular no daemon runs a half-written build or unit.       *)
THEOREM TypeCorrect == Spec => []TypeOK
<1>1. IInv => TypeOK
  BY DEF IInv
<1>. QED
  BY <1>1, ServiceCorrect, PTL

(* The order of serviceInstall's and serviceUninstall's steps: whatever    *)
(* fails, a unit on disk and a running daemon have all they need.          *)
THEOREM UnitHasItsService == Spec => []ServiceIsWhole
<1>1. IInv => ServiceIsWhole
  BY DEF IInv
<1>. QED
  BY <1>1, ServiceCorrect, PTL

(* serviceInstall's success means what it says, after any failures before  *)
(* it and any reboots after it.                                            *)
THEOREM InstallMeansInstalled == Spec => []InstallIsComplete
<1>1. IInv => InstallIsComplete
  BY DEF IInv
<1>. QED
  BY <1>1, ServiceCorrect, PTL

(* serviceUninstall's success leaves no service, and with --remove-data no *)
(* data and no account.                                                    *)
THEOREM UninstallMeansGone == Spec => []UninstallLeavesNothing
<1>1. IInv => UninstallLeavesNothing
  BY DEF IInv
<1>. QED
  BY <1>1, ServiceCorrect, PTL

-----------------------------------------------------------------------------
(* Windows.  What a command was asked for.                                 *)
LEMMA WindowsArguments ==
  ASSUME Windows!TypeOK
  PROVE  /\ command.op = "install" =>
              /\ command \in Windows!Installs
              /\ command.version \in Versions /\ command.config \in Configs
         /\ command.op = "uninstall" => command \in Windows!Uninstalls
BY DEF Windows!TypeOK, Windows!Installs, Windows!Uninstalls, Windows!Verbs, Windows!None

(* Most steps belong to one command.                                       *)
LEMMA WindowsCommands ==
  ASSUME Windows!IInv
  PROVE  /\ at \in {"open", "copy", "rename", "mkdir", "record", "crashes", "errors"} =>
              command.op = "install"
         /\ at \in {"delete", "rmBinary", "rmData"} => command.op = "uninstall"
BY DEF Windows!IInv, Windows!TypeOK, Windows!InstallProgress, Windows!UninstallProgress,
       Windows!VerbProgress, Windows!InstallSteps, Windows!UninstallSteps, Windows!Installs,
       Windows!Uninstalls, Windows!Verbs, Windows!None

LEMMA WindowsStarts == Windows!Init => Windows!IInv
BY ServiceConstants
DEF Windows!Init, Windows!IInv, Windows!TypeOK, Windows!ProcessLife, Windows!Quiet,
    Windows!InstallProgress, Windows!UninstallProgress, Windows!VerbProgress,
    Windows!InstallSteps, Windows!UninstallSteps, Windows!NoProc, Windows!None, Windows!Torn,
    None, Torn

(* The process and the Service Control Manager.                            *)
LEMMA WindowsProcessKeeps ==
  /\ Windows!IInv
  /\ Windows!StartsByItself \/ Windows!ExecuteStep \/ Windows!Exit \/ Windows!Crash
  => Windows!IInv'
<1> SUFFICES ASSUME Windows!IInv,
                    \/ Windows!StartsByItself \/ Windows!ExecuteStep
                    \/ Windows!Exit \/ Windows!Crash
             PROVE  Windows!IInv'
  OBVIOUS
<1> USE DEF Windows!IInv, Windows!TypeOK, Windows!ProcessLife, Windows!Quiet,
            Windows!InstallProgress, Windows!UninstallProgress, Windows!VerbProgress,
            Windows!InstallSteps, Windows!UninstallSteps, Windows!files, Windows!record,
            Windows!process, Windows!command, Windows!Free
<1>1. CASE Windows!StartsByItself
  <2>1. Windows!TypeOK'
    BY <1>1, ServiceConstants DEF Windows!StartsByItself, Windows!Startable, Windows!Spawn
  <2>2. Windows!ProcessLife'
    BY <1>1, ServiceConstants
    DEF Windows!StartsByItself, Windows!Startable, Windows!Spawn, Windows!NoProc
  <2>3. Windows!Quiet'
    BY <1>1 DEF Windows!StartsByItself
  <2>4. Windows!InstallProgress'
    BY <1>1 DEF Windows!StartsByItself, Windows!Startable, Windows!Spawn
  <2>5. Windows!UninstallProgress'
    BY <1>1 DEF Windows!StartsByItself, Windows!Startable
  <2>6. Windows!VerbProgress' /\ (command.op = Windows!None => at = "idle")'
    BY <1>1 DEF Windows!StartsByItself
  <2>. QED
    BY <2>1, <2>2, <2>3, <2>4, <2>5, <2>6
<1>2. CASE Windows!ExecuteStep
  <2> USE DEF Windows!ExecuteStep
  <2>1. CASE Windows!Launch
    <3>1. asked' \in BOOLEAN /\ hasData' \in BOOLEAN
      BY <1>2, <2>1 DEF Windows!Launch
    <3>2. Windows!TypeOK'
      BY <1>2, <2>1, <3>1 DEF Windows!Launch
    <3>. QED
      BY <1>2, <2>1, <3>2 DEF Windows!Launch
  <2>2. CASE Windows!ReportRunning
    BY <1>2, <2>2 DEF Windows!ReportRunning
  <2>3. CASE Windows!TakeStop
    <3>1. asked' \in BOOLEAN
      BY <1>2, <2>3 DEF Windows!TakeStop
    <3>2. Windows!TypeOK'
      BY <1>2, <2>3, <3>1 DEF Windows!TakeStop
    <3>. QED
      BY <1>2, <2>3, <3>2 DEF Windows!TakeStop
  <2>4. CASE Windows!ServeEnds
    BY <1>2, <2>4 DEF Windows!ServeEnds
  <2>. QED
    BY <1>2, <2>1, <2>2, <2>3, <2>4
<1>3. CASE Windows!Exit
  <2>1. pending' \in BOOLEAN /\ asked' \in BOOLEAN
    BY <1>3 DEF Windows!Exit
  <2>6. Windows!TypeOK'
    BY <1>3, <2>1 DEF Windows!Exit
  <2>2. Windows!ProcessLife' /\ Windows!Quiet'
    BY <1>3 DEF Windows!Exit, Windows!Result
  <2>3. Windows!InstallProgress'
    BY <1>3 DEF Windows!Exit, Windows!Result
  <2>4. Windows!UninstallProgress'
    BY <1>3 DEF Windows!Exit, Windows!Result
  <2>5. Windows!VerbProgress' /\ (command.op = Windows!None => at = "idle")'
    BY <1>3 DEF Windows!Exit
  <2>. QED
    BY <2>2, <2>3, <2>4, <2>5, <2>6
<1>4. CASE Windows!Crash
  <2>1. pending' \in BOOLEAN /\ asked' \in BOOLEAN
    BY <1>4 DEF Windows!Crash
  <2>2. Windows!TypeOK'
    BY <1>4, <2>1 DEF Windows!Crash
  <2>. QED
    BY <1>4, <2>2 DEF Windows!Crash
<1>. QED
  BY <1>1, <1>2, <1>3, <1>4

(* Records that go, and boots.                                             *)
LEMMA WindowsBootKeeps ==
  Windows!IInv /\ (Windows!Vanish \/ Windows!Reboot \/ Windows!Fails) => Windows!IInv'
<1> SUFFICES ASSUME Windows!IInv, Windows!Vanish \/ Windows!Reboot \/ Windows!Fails
             PROVE  Windows!IInv'
  OBVIOUS
<1> USE DEF Windows!IInv, Windows!TypeOK, Windows!ProcessLife, Windows!Quiet,
            Windows!InstallProgress, Windows!UninstallProgress, Windows!VerbProgress,
            Windows!InstallSteps, Windows!UninstallSteps, Windows!files, Windows!record,
            Windows!process, Windows!command, Windows!Free
<1>1. CASE Windows!Vanish
  <2>1. pending' \in BOOLEAN /\ marked' \in BOOLEAN
    BY <1>1 DEF Windows!Vanish
  <2>2. Windows!TypeOK'
    BY <1>1, <2>1 DEF Windows!Vanish
  <2>3. Windows!ProcessLife' /\ Windows!Quiet' /\ Windows!InstallProgress'
    BY <1>1 DEF Windows!Vanish
  <2>. QED
    BY <1>1, <2>2, <2>3 DEF Windows!Vanish
<1>2. CASE Windows!Reboot
  <2>1. pending' \in BOOLEAN /\ asked' \in BOOLEAN
    BY <1>2 DEF Windows!Reboot
  <2>2. Windows!TypeOK'
    BY <1>2, <2>1 DEF Windows!Reboot
  <2>3. Windows!ProcessLife' /\ Windows!Quiet'
    BY <1>2 DEF Windows!Reboot
  <2>4. Windows!InstallProgress'
    BY <1>2 DEF Windows!Reboot
  <2>5. Windows!UninstallProgress'
    BY <1>2 DEF Windows!Reboot
  <2>6. Windows!VerbProgress' /\ (command.op = Windows!None => at = "idle")'
    BY <1>2 DEF Windows!Reboot
  <2>. QED
    BY <2>2, <2>3, <2>4, <2>5, <2>6
<1>3. CASE Windows!Fails
  BY <1>3 DEF Windows!Fails
<1>. QED
  BY <1>1, <1>2, <1>3

(* A command begins.                                                       *)
WindowsBegins ==
  \/ \E c \in Windows!Installs : Windows!BeginInstall(c)
  \/ \E c \in Windows!Uninstalls : Windows!BeginUninstall(c)
  \/ \E c \in Windows!Verbs : Windows!BeginVerb(c)

LEMMA WindowsBeginKeeps == Windows!IInv /\ WindowsBegins => Windows!IInv'
<1> SUFFICES ASSUME Windows!IInv, WindowsBegins PROVE Windows!IInv'
  OBVIOUS
<1> USE DEF Windows!IInv, Windows!TypeOK, Windows!ProcessLife, Windows!Quiet,
            Windows!InstallProgress, Windows!UninstallProgress, Windows!VerbProgress,
            Windows!InstallSteps, Windows!UninstallSteps, Windows!files, Windows!record,
            Windows!process, Windows!command, Windows!Free, Windows!Begin, Windows!None
<1>1. ASSUME NEW c \in Windows!Installs, Windows!BeginInstall(c) PROVE Windows!IInv'
  BY <1>1 DEF Windows!BeginInstall, Windows!Installs
<1>2. ASSUME NEW c \in Windows!Uninstalls, Windows!BeginUninstall(c) PROVE Windows!IInv'
  BY <1>2 DEF Windows!BeginUninstall, Windows!Uninstalls
<1>3. ASSUME NEW c \in Windows!Verbs, Windows!BeginVerb(c) PROVE Windows!IInv'
  BY <1>3 DEF Windows!BeginVerb, Windows!Verbs
<1>. QED
  BY <1>1, <1>2, <1>3 DEF WindowsBegins

(* The commands, step by step.                                             *)
WindowsCommandStep ==
  \/ Windows!AskToStop \/ Windows!SeeStopped
  \/ Windows!OpenTmp \/ Windows!Copy \/ Windows!Rename \/ Windows!MkdirData
  \/ Windows!Record \/ Windows!SetRecovery \/ Windows!SeeRunning \/ Windows!Start
  \/ Windows!Delete \/ Windows!RemoveBinary \/ Windows!RemoveData

LEMMA WindowsCommandKeeps == Windows!IInv /\ WindowsCommandStep => Windows!IInv'
<1> SUFFICES ASSUME Windows!IInv, WindowsCommandStep PROVE Windows!IInv'
  OBVIOUS
<1>a. /\ command.op = "install" =>
           /\ command \in Windows!Installs
           /\ command.version \in Versions /\ command.config \in Configs
      /\ command.op = "uninstall" => command \in Windows!Uninstalls
      /\ at \in {"open", "copy", "rename", "mkdir", "record", "crashes", "errors"} =>
           command.op = "install"
      /\ at \in {"delete", "rmBinary", "rmData"} => command.op = "uninstall"
  BY WindowsArguments, WindowsCommands DEF Windows!IInv
<1> USE <1>a, ServiceConstants
    DEF Windows!IInv, Windows!TypeOK, Windows!ProcessLife, Windows!Quiet,
        Windows!InstallProgress, Windows!UninstallProgress, Windows!VerbProgress,
        Windows!InstallSteps, Windows!UninstallSteps, Windows!files, Windows!record,
        Windows!process, Windows!command, Windows!GoTo, Windows!None, Windows!Installs,
        Windows!Uninstalls, None
<1>1. CASE Windows!AskToStop
  BY <1>1 DEF Windows!AskToStop
<1>2. CASE Windows!SeeStopped
  BY <1>2 DEF Windows!SeeStopped, Windows!Stopped, Windows!AfterStop
<1>3. CASE Windows!OpenTmp
  BY <1>3 DEF Windows!OpenTmp
<1>4. CASE Windows!Copy
  <2>1. Windows!TypeOK'
    BY <1>4 DEF Windows!Copy
  <2>2. Windows!ProcessLife' /\ Windows!Quiet'
    BY <1>4 DEF Windows!Copy
  <2>3. Windows!InstallProgress'
    BY <1>4 DEF Windows!Copy
  <2>4. Windows!UninstallProgress' /\ Windows!VerbProgress'
    BY <1>4 DEF Windows!Copy
  <2>. QED
    BY <1>4, <2>1, <2>2, <2>3, <2>4 DEF Windows!Copy
<1>5. CASE Windows!Rename
  <2>1. Windows!TypeOK'
    BY <1>5 DEF Windows!Rename
  <2>2. Windows!ProcessLife' /\ Windows!Quiet'
    BY <1>5 DEF Windows!Rename
  <2>3. Windows!InstallProgress'
    BY <1>5 DEF Windows!Rename
  <2>4. Windows!UninstallProgress' /\ Windows!VerbProgress'
    BY <1>5 DEF Windows!Rename
  <2>. QED
    BY <1>5, <2>1, <2>2, <2>3, <2>4 DEF Windows!Rename
<1>6. CASE Windows!MkdirData
  BY <1>6 DEF Windows!MkdirData
<1>7. CASE Windows!Record
  <2>1. Windows!TypeOK'
    BY <1>7 DEF Windows!Record, Windows!Recorded
  <2>2. Windows!ProcessLife' /\ Windows!Quiet'
    BY <1>7 DEF Windows!Record, Windows!Recorded
  <2>3. Windows!InstallProgress'
    BY <1>7 DEF Windows!Record, Windows!Recorded
  <2>4. Windows!UninstallProgress' /\ Windows!VerbProgress'
    BY <1>7 DEF Windows!Record, Windows!Recorded
  <2>. QED
    BY <1>7, <2>1, <2>2, <2>3, <2>4 DEF Windows!Record
<1>8. CASE Windows!SetRecovery
  BY <1>8 DEF Windows!SetRecovery
<1>9. CASE Windows!SeeRunning
  BY <1>9 DEF Windows!SeeRunning
<1>10. CASE Windows!Start
  <2>1. Windows!TypeOK'
    <3>1. asked' \in BOOLEAN
      BY <1>10 DEF Windows!Start, Windows!Spawn
    <3>. QED
      BY <1>10, <3>1 DEF Windows!Start, Windows!Startable, Windows!Spawn
  <2>2. Windows!ProcessLife' /\ Windows!Quiet'
    BY <1>10 DEF Windows!Start, Windows!Startable, Windows!Spawn, Windows!NoProc
  <2>3. Windows!InstallProgress'
    BY <1>10 DEF Windows!Start, Windows!Startable, Windows!Spawn
  <2>4. Windows!UninstallProgress' /\ Windows!VerbProgress'
    BY <1>10 DEF Windows!Start, Windows!Startable, Windows!Spawn
  <2>. QED
    BY <1>10, <2>1, <2>2, <2>3, <2>4 DEF Windows!Start
<1>11. CASE Windows!Delete
  BY <1>11 DEF Windows!Delete
<1>12. CASE Windows!RemoveBinary
  <2>1. Windows!TypeOK'
    <3>1. doomed' \in BOOLEAN
      BY <1>12 DEF Windows!RemoveBinary
    <3>. QED
      BY <1>12, <3>1 DEF Windows!RemoveBinary
  <2>2. Windows!ProcessLife' /\ Windows!Quiet'
    BY <1>12 DEF Windows!RemoveBinary
  <2>3. Windows!InstallProgress'
    BY <1>12 DEF Windows!RemoveBinary
  <2>4. Windows!UninstallProgress' /\ Windows!VerbProgress'
    BY <1>12 DEF Windows!RemoveBinary
  <2>. QED
    BY <1>12, <2>1, <2>2, <2>3, <2>4 DEF Windows!RemoveBinary
<1>13. CASE Windows!RemoveData
  <2>1. Windows!TypeOK'
    <3>1. hasData' \in BOOLEAN
      BY <1>13 DEF Windows!RemoveData
    <3>. QED
      BY <1>13, <3>1 DEF Windows!RemoveData
  <2>2. Windows!ProcessLife' /\ Windows!Quiet'
    BY <1>13 DEF Windows!RemoveData
  <2>3. Windows!InstallProgress'
    BY <1>13 DEF Windows!RemoveData
  <2>4. Windows!UninstallProgress' /\ Windows!VerbProgress'
    BY <1>13 DEF Windows!RemoveData
  <2>. QED
    BY <1>13, <2>1, <2>2, <2>3, <2>4 DEF Windows!RemoveData
<1>. QED
  BY <1>1, <1>2, <1>3, <1>4, <1>5, <1>6, <1>7, <1>8, <1>9, <1>10, <1>11, <1>12, <1>13
  DEF WindowsCommandStep

(* What Windows' invariant says of the two properties.                     *)
LEMMA WindowsInvariantSays ==
  Windows!IInv => Windows!DaemonEndsFirst /\ Windows!SuccessMeansDone
<1> SUFFICES ASSUME Windows!IInv PROVE Windows!DaemonEndsFirst /\ Windows!SuccessMeansDone
  OBVIOUS
<1> USE DEF Windows!IInv, Windows!ProcessLife, Windows!InstallSteps, Windows!UninstallSteps
<1>1. Windows!DaemonEndsFirst
  BY DEF Windows!DaemonEndsFirst, Windows!Quiet
<1>2. Windows!SuccessMeansDone
  BY DEF Windows!SuccessMeansDone, Windows!InstallProgress, Windows!UninstallProgress
<1>. QED
  BY <1>1, <1>2

LEMMA WindowsKeeps ==
  Windows!IInv /\ (Windows!Next \/ UNCHANGED <<shared, windowsOnly>>) => Windows!IInv'
<1>1. Windows!IInv /\ UNCHANGED <<shared, windowsOnly>> => Windows!IInv'
  BY DEF Windows!IInv, Windows!TypeOK, Windows!ProcessLife, Windows!Quiet,
         Windows!InstallProgress, Windows!UninstallProgress, Windows!VerbProgress, shared,
         windowsOnly
<1>. QED
  BY <1>1, WindowsProcessKeeps, WindowsBootKeeps, WindowsBeginKeeps, WindowsCommandKeeps
  DEF Windows!Next, WindowsBegins, WindowsCommandStep

-----------------------------------------------------------------------------
(* macOS.  What a command was asked for, and which steps are whose.        *)
LEMMA MacosArguments ==
  ASSUME Macos!TypeOK
  PROVE  /\ command.op = "install" =>
              /\ command \in Macos!Installs
              /\ command.version \in Versions /\ command.config \in Configs
         /\ command.op = "uninstall" => command \in Macos!Uninstalls
BY DEF Macos!TypeOK, Macos!Installs, Macos!Uninstalls, Macos!Verbs, Macos!None

LEMMA MacosCommands ==
  ASSUME Macos!IInv
  PROVE  /\ at \in {"open", "copy", "rename", "mkdir", "plist", "writePlist", "bootstrap"} =>
              command.op = "install"
         /\ at \in {"rmPlist", "rmBinary", "rmData"} => command.op = "uninstall"
         /\ at = "bootout" => command.op \in {"install", "uninstall"}
         /\ at \in {"start", "stop", "restart"} => command.op = at
BY DEF Macos!IInv, Macos!TypeOK, Macos!InstallProgress, Macos!UninstallProgress,
       Macos!VerbProgress, Macos!InstallSteps, Macos!UninstallSteps, Macos!Installs,
       Macos!Uninstalls, Macos!Verbs, Macos!None

LEMMA MacosStarts == Macos!Init => Macos!IInv
BY ServiceConstants
DEF Macos!Init, Macos!IInv, Macos!TypeOK, Macos!Belongings,
    Macos!InstallProgress, Macos!UninstallProgress, Macos!VerbProgress,
    Macos!InstallSteps, Macos!UninstallSteps, Macos!NoProc, Macos!None, Macos!Torn, None, Torn

(* A daemon launchd starts is of the binary and the property list.         *)
LEMMA MacosSpawned ==
  ASSUME Macos!IInv, NEW config
  PROVE  /\ config \in Configs \cup {None} =>
              Macos!Spawned(config) \in [binary: Versions, config: Configs] \cup {Macos!NoProc}
         /\ Macos!Spawned(config) # Macos!NoProc =>
              /\ config # None
              /\ Macos!Spawned(config) = [binary |-> exe, config |-> config]
BY ServiceConstants
DEF Macos!IInv, Macos!TypeOK, Macos!Spawned, Macos!NoProc, Macos!None, None

(* launchd and the passing of time.                                        *)
LEMMA MacosEnvironmentKeeps ==
  Macos!IInv /\ (Macos!DaemonEnds \/ Macos!Reboot \/ Macos!Fails) => Macos!IInv'
<1> SUFFICES ASSUME Macos!IInv, Macos!DaemonEnds \/ Macos!Reboot \/ Macos!Fails
             PROVE  Macos!IInv'
  OBVIOUS
<1> USE DEF Macos!IInv, Macos!TypeOK, Macos!Belongings, Macos!InstallProgress,
            Macos!UninstallProgress, Macos!VerbProgress, Macos!InstallSteps,
            Macos!UninstallSteps, Macos!files, Macos!launchd, Macos!None, Macos!Torn, None
<1>1. CASE Macos!DaemonEnds
  BY <1>1, MacosSpawned DEF Macos!DaemonEnds
<1>2. CASE Macos!Reboot
  <2>1. job' \in Configs \cup {None} /\ job' \in {None, plist}
    BY <1>2 DEF Macos!Reboot
  <2>2. /\ proc' \in [binary: Versions, config: Configs] \cup {Macos!NoProc}
        /\ proc' # Macos!NoProc =>
             job' # None /\ proc' = [binary |-> exe, config |-> job']
    BY <1>2, <2>1, MacosSpawned DEF Macos!Reboot
  <2>3. Macos!TypeOK'
    BY <1>2, <2>1, <2>2 DEF Macos!Reboot
  <2>4. Macos!Belongings'
    BY <1>2, <2>1, <2>2 DEF Macos!Reboot
  <2>5. command.op = "install" /\ at = "done" => job' = command.config
    BY <1>2, MacosArguments, ServiceConstants DEF Macos!Reboot, Torn
  <2>6. Macos!InstallProgress'
    BY <1>2, <2>2, <2>5 DEF Macos!Reboot
  <2>. QED
    BY <1>2, <2>1, <2>3, <2>4, <2>6 DEF Macos!Reboot
<1>3. CASE Macos!Fails
  BY <1>3 DEF Macos!Fails, Macos!Free
<1>. QED
  BY <1>1, <1>2, <1>3

(* A command begins.                                                       *)
MacosBegins ==
  \/ \E c \in Macos!Installs : Macos!BeginInstall(c)
  \/ \E c \in Macos!Uninstalls : Macos!BeginUninstall(c)
  \/ \E c \in Macos!Verbs : Macos!BeginVerb(c)

LEMMA MacosBeginKeeps == Macos!IInv /\ MacosBegins => Macos!IInv'
<1> SUFFICES ASSUME Macos!IInv, MacosBegins PROVE Macos!IInv'
  OBVIOUS
<1> USE DEF Macos!IInv, Macos!TypeOK, Macos!Belongings, Macos!InstallProgress,
            Macos!UninstallProgress, Macos!VerbProgress, Macos!InstallSteps,
            Macos!UninstallSteps, Macos!files, Macos!launchd, Macos!None, Macos!Begin, Macos!Free
<1>1. ASSUME NEW c \in Macos!Installs, Macos!BeginInstall(c) PROVE Macos!IInv'
  BY <1>1 DEF Macos!BeginInstall, Macos!Installs
<1>2. ASSUME NEW c \in Macos!Uninstalls, Macos!BeginUninstall(c) PROVE Macos!IInv'
  BY <1>2 DEF Macos!BeginUninstall, Macos!Uninstalls
<1>3. ASSUME NEW c \in Macos!Verbs, Macos!BeginVerb(c) PROVE Macos!IInv'
  BY <1>3 DEF Macos!BeginVerb, Macos!Verbs
<1>. QED
  BY <1>1, <1>2, <1>3 DEF MacosBegins

(* The commands, step by step.                                             *)
MacosCommandStep ==
  \/ Macos!OpenTmp \/ Macos!Copy \/ Macos!Rename \/ Macos!MkdirData \/ Macos!WritePlist
  \/ Macos!Bootout \/ Macos!Bootstrap \/ Macos!RemoveFiles \/ Macos!StartJob \/ Macos!StopJob

LEMMA MacosCommandKeeps == Macos!IInv /\ MacosCommandStep => Macos!IInv'
<1> SUFFICES ASSUME Macos!IInv, MacosCommandStep PROVE Macos!IInv'
  OBVIOUS
<1>a. /\ command.op = "install" =>
           /\ command \in Macos!Installs
           /\ command.version \in Versions /\ command.config \in Configs
      /\ command.op = "uninstall" => command \in Macos!Uninstalls
      /\ at \in {"open", "copy", "rename", "mkdir", "plist", "writePlist", "bootstrap"} =>
           command.op = "install"
      /\ at \in {"rmPlist", "rmBinary", "rmData"} => command.op = "uninstall"
      /\ at = "bootout" => command.op \in {"install", "uninstall"}
      /\ at \in {"start", "stop", "restart"} => command.op = at
  BY MacosArguments, MacosCommands DEF Macos!IInv
<1> USE <1>a, ServiceConstants
    DEF Macos!IInv, Macos!TypeOK, Macos!Belongings, Macos!InstallProgress,
        Macos!UninstallProgress, Macos!VerbProgress, Macos!InstallSteps, Macos!UninstallSteps,
        Macos!files, Macos!launchd, Macos!GoTo, Macos!None, Macos!Torn, Macos!Installs,
        Macos!Uninstalls, None, Torn
<1>1. CASE Macos!OpenTmp
  BY <1>1 DEF Macos!OpenTmp
<1>2. CASE Macos!Copy
  BY <1>2 DEF Macos!Copy
<1>3. CASE Macos!Rename
  BY <1>3 DEF Macos!Rename
<1>4. CASE Macos!MkdirData
  BY <1>4 DEF Macos!MkdirData
<1>5. CASE Macos!WritePlist
  BY <1>5 DEF Macos!WritePlist
<1>6. CASE Macos!Bootout
  BY <1>6 DEF Macos!Bootout, Macos!Unloads
<1>7. CASE Macos!Bootstrap
  BY <1>7, MacosSpawned DEF Macos!Bootstrap, Macos!Bootstraps
<1>8. CASE Macos!RemoveFiles
  BY <1>8 DEF Macos!RemoveFiles
<1>9. CASE Macos!StartJob
  BY <1>9, MacosSpawned DEF Macos!StartJob, Macos!Bootstraps
<1>10. CASE Macos!StopJob
  BY <1>10, MacosSpawned DEF Macos!StopJob
<1>. QED
  BY <1>1, <1>2, <1>3, <1>4, <1>5, <1>6, <1>7, <1>8, <1>9, <1>10 DEF MacosCommandStep

LEMMA MacosInvariantSays == Macos!IInv => Macos!SuccessMeansDone /\ Macos!ServiceIsWhole
<1> SUFFICES ASSUME Macos!IInv PROVE Macos!SuccessMeansDone /\ Macos!ServiceIsWhole
  OBVIOUS
<1>1. Macos!SuccessMeansDone
  BY DEF Macos!IInv, Macos!SuccessMeansDone, Macos!Belongings, Macos!InstallProgress,
         Macos!UninstallProgress
<1>2. Macos!ServiceIsWhole
  BY ServiceConstants
  DEF Macos!IInv, Macos!TypeOK, Macos!Belongings, Macos!ServiceIsWhole, Macos!None, Macos!Torn,
      None, Torn
<1>. QED
  BY <1>1, <1>2

LEMMA MacosKeeps ==
  Macos!IInv /\ (Macos!Next \/ UNCHANGED <<shared, macosOnly>>) => Macos!IInv'
<1>1. Macos!IInv /\ UNCHANGED <<shared, macosOnly>> => Macos!IInv'
  BY DEF Macos!IInv, Macos!TypeOK, Macos!Belongings, Macos!InstallProgress,
         Macos!UninstallProgress, Macos!VerbProgress, shared, macosOnly
<1>. QED
  BY <1>1, MacosEnvironmentKeeps, MacosBeginKeeps, MacosCommandKeeps
  DEF Macos!Next, MacosBegins, MacosCommandStep

-----------------------------------------------------------------------------
(* The inductive invariant of all three builds: each keeps its own, and    *)
(* the platform never changes.                                             *)
THEOREM ServicesCorrect == MCSpec => []ServiceInvariant
<1>1. MCInit => ServiceInvariant
  BY StartsInvariant, WindowsStarts, MacosStarts DEF MCInit, ServiceInvariant
<1>2. ServiceInvariant /\ [MCNext]_allVars => ServiceInvariant'
  BY LinuxKeeps, WindowsKeeps, MacosKeeps DEF ServiceInvariant, MCNext, allVars
<1>. QED
  BY <1>1, <1>2, PTL DEF MCSpec

(* Windows: the daemon has ended before its binary is replaced or removed  *)
(* and before its record and its data are, unless the Service Control      *)
(* Manager started it in between.                                          *)
THEOREM WindowsDaemonEndsFirst == MCSpec => []DaemonEndsFirst
<1>1. ServiceInvariant => DaemonEndsFirst
  BY WindowsInvariantSays DEF ServiceInvariant, DaemonEndsFirst
<1>. QED
  BY <1>1, ServicesCorrect, PTL

(* Windows and macOS: a command that reports success has done all of it,   *)
(* through failures, reboots, crashes and restarts.                        *)
THEOREM SuccessMeansSuccess == MCSpec => []SuccessMeansDone
<1>1. ServiceInvariant => SuccessMeansDone
  BY WindowsInvariantSays, MacosInvariantSays DEF ServiceInvariant, SuccessMeansDone
<1>. QED
  BY <1>1, ServicesCorrect, PTL
=============================================================================
