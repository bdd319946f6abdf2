---------------------------- MODULE ClientProofs ----------------------------
(* Theorems about the processes of the command line and the requests they    *)
(* make: the start and stop of popolad (DaemonProcess), the relay of a       *)
(* follow-up (Relay), one request to the Cursor API (CloudRequest), the      *)
(* dispatch of a cloud task (CloudDispatch), the commands that change the    *)
(* wheel and the skills (SelfUpdate), the private worker (Worker), the       *)
(* preferences (Prefs) and the API key (Credentials).                        *)
EXTENDS MCClients, TLAPS, SequenceTheorems, FiniteSetTheorems, WellFoundedInduction

-----------------------------------------------------------------------------
(* The daemon as a process *)

Busy(c) == cmdPc[c] \notin {"idle", "over"}

NoneUp == \A d \in Commanders : ~IsUp(d)

\* The daemon that lives, if any, serves, and both files and its command say so.
Quiet ==
    \A d \in Commanders :
        IsUp(d) => daemon[d] = "serving" /\ pidFile = d /\ sock = d /\ cmdExit[d] = "ok"

\* What holds while command c, the only one, is where it is.
CommandInv(c) ==
    /\ cmdPc[c] \in {"read", "check"} => Quiet
    /\ cmdPc[c] = "wait" =>
         \A d \in Commanders : IsUp(d) => d = pidRead[c] /\ daemon[d] \in {"ending", "removing"}
    /\ cmdPc[c] \in {"clean", "unlink", "spawn"} => NoneUp
    /\ cmdPc[c] = "poll" =>
         \A d \in Commanders : IsUp(d) =>
             /\ d = c /\ daemon[d] \in {"spawned", "unlinked", "written", "configured", "serving"}
             /\ daemon[d] \in {"written", "configured", "serving"} => pidFile = d
             /\ daemon[d] = "serving" => sock = d

\* Commands that follow one another.
OrderlyInv ==
    /\ \A c, e \in Commanders : Busy(c) /\ Busy(e) => c = e
    /\ (\A c \in Commanders : ~Busy(c)) => Quiet
    /\ \A c \in Commanders : CommandInv(c)

\* At most one command is at work, and the daemons are as it has left them.
ProcessInv ==
    /\ DaemonTypeOK
    /\ \A c \in Commanders : cmdPc[c] # "over" => cmdExit[c] = "none"
    /\ orderly => OrderlyInv

\* A step of command c, the only one at work, moves no other.
LEMMA OneActs ==
    ASSUME OrderlyInv, NEW c \in Commanders, Busy(c),
           \A e \in Commanders \ {c} : cmdPc'[e] = cmdPc[e],
           Busy(c)' => CommandInv(c)', ~Busy(c)' => Quiet'
    PROVE  OrderlyInv'
<1>1. \A e \in Commanders \ {c} : ~Busy(e) /\ ~Busy(e)'
  BY DEF OrderlyInv, Busy
<1>2. \A e \in Commanders \ {c} : CommandInv(e)'
  BY <1>1 DEF CommandInv, Busy
<1>3. ~Busy(c)' => CommandInv(c)'
  BY DEF CommandInv, Busy
<1>4. \A e \in Commanders : CommandInv(e)'
  BY <1>2, <1>3
<1>5. \A e, g \in Commanders : Busy(e)' /\ Busy(g)' => e = g
  BY <1>1
<1>6. (\A e \in Commanders : ~Busy(e)') => Quiet'
  OBVIOUS
<1> QED BY <1>4, <1>5, <1>6 DEF OrderlyInv

\* A step of a daemon moves no command.
LEMMA DaemonActs ==
    ASSUME OrderlyInv, UNCHANGED <<order, cmdPc, pidRead, cmdExit, orderly>>,
           Quiet => Quiet', \A c \in Commanders : Busy(c) => CommandInv(c)'
    PROVE  OrderlyInv'
<1>1. \A c \in Commanders : Busy(c)' <=> Busy(c)
  BY DEF Busy
<1>2. \A c \in Commanders : CommandInv(c)'
  <2> SUFFICES ASSUME NEW c \in Commanders, ~Busy(c) PROVE CommandInv(c)'
    OBVIOUS
  <2> QED BY <1>1 DEF CommandInv, Busy
<1> QED BY <1>1, <1>2 DEF OrderlyInv

LEMMA ProcessTypes == DaemonTypeOK /\ [DaemonNext]_daemonVars => DaemonTypeOK'
<1> SUFFICES ASSUME DaemonTypeOK, [DaemonNext]_daemonVars PROVE DaemonTypeOK'
  OBVIOUS
<1> USE DEF DaemonTypeOK, Becomes, KeepFiles, CmdGoesTo, CmdEnds, GoOnOrEnd, NoCommand, Stages
<1>1. ASSUME NEW c \in Commanders, BeginCommand(c) PROVE DaemonTypeOK'
  BY <1>1 DEF BeginCommand
<1>2. ASSUME NEW c \in Commanders, CommandStep(c) PROVE DaemonTypeOK'
  <2>1. CASE FindNoPid(c)
    BY <2>1 DEF FindNoPid, Orders
  <2>2. CASE SendTerm(c)
    <3>1. pidFile \in Commanders /\ Terminated(pidFile) \in Stages
      BY <2>2 DEF SendTerm, Terminated
    <3> QED BY <2>2, <3>1 DEF SendTerm
  <2>3. CASE SeeItGone(c) \/ CheckRunning(c) \/ UnlinkSocket(c) \/ SeeItUp(c) \/ SeeItExited(c)
    BY <2>3 DEF SeeItGone, CheckRunning, UnlinkSocket, SeeItUp, SeeItExited
  <2>4. CASE SendKill(c)
    <3>1. DaemonKilled(pidRead[c]) \in Stages
      BY DEF DaemonKilled
    <3> QED BY <2>4, <3>1 DEF SendKill
  <2>5. CASE CleanupFiles(c) \/ Spawn(c)
    BY <2>5 DEF CleanupFiles, Spawn
  <2>6. CASE CommandGivesUp(c)
    <3>1. Terminated(c) \in Stages
      BY DEF Terminated
    <3> QED BY <2>6, <3>1 DEF CommandGivesUp
  <2> QED BY <1>2, <2>1, <2>2, <2>3, <2>4, <2>5, <2>6 DEF CommandStep
<1>3. ASSUME NEW d \in Commanders, MainStep(d) \/ Crash(d) \/ Reuse(d) PROVE DaemonTypeOK'
  BY <1>3 DEF MainStep, DaemonUnlinks, WritePid, LoadConfig, Serve, RemovePidFile, RemoveSocket,
     Crash, Reuse
<1>4. CASE CommandsOver \/ UNCHANGED daemonVars
  BY <1>4 DEF CommandsOver, daemonVars
<1> QED BY <1>1, <1>2, <1>3, <1>4 DEF DaemonNext

\* Every step keeps the order of the commands and what each of them relies on.
LEMMA ProcessStep == ProcessInv /\ [DaemonNext]_daemonVars => ProcessInv'
<1> SUFFICES ASSUME ProcessInv, [DaemonNext]_daemonVars PROVE ProcessInv'
  OBVIOUS
<1>0. /\ DaemonTypeOK /\ (orderly => OrderlyInv)
      /\ \A c \in Commanders : cmdPc[c] # "over" => cmdExit[c] = "none"
  BY DEF ProcessInv
<1>t. /\ cmdPc \in [Commanders -> {"idle", "read", "wait", "clean", "check", "unlink", "spawn",
                                   "poll", "over"}]
      /\ pidRead \in [Commanders -> Commanders \cup {None}]
      /\ cmdExit \in [Commanders -> {"none", "ok", "error"}]
      /\ daemon \in [Commanders -> Stages]
      /\ pidFile \in Commanders \cup {None} /\ sock \in Commanders \cup {None}
      /\ None \notin Commanders
  BY <1>0, NoneAssumption DEF DaemonTypeOK
<1>T. DaemonTypeOK'
  BY <1>0, ProcessTypes
\* A step of command c.
<1>c. ASSUME NEW c \in Commanders, NEW pc, cmdPc' = [cmdPc EXCEPT ![c] = pc],
             \/ pc # "over" /\ cmdExit' = cmdExit /\ cmdPc[c] # "over"
             \/ pc = "over" /\ \E code : cmdExit' = [cmdExit EXCEPT ![c] = code],
             orderly' => (orderly /\ Busy(c)
                          /\ (CommandInv(c) => (Busy(c)' => CommandInv(c)') /\ (~Busy(c)' => Quiet')))
      PROVE  ProcessInv'
  <2>1. \A e \in Commanders \ {c} : cmdPc'[e] = cmdPc[e] /\ cmdExit'[e] = cmdExit[e]
    BY <1>c, <1>t
  <2>2. cmdPc'[c] = pc
    BY <1>c, <1>t
  <2>3. \A e \in Commanders : cmdPc'[e] # "over" => cmdExit'[e] = "none"
    <3>1. CASE pc = "over"
      BY <1>0, <2>1, <2>2, <3>1
    <3>2. CASE pc # "over"
      BY <1>0, <1>c, <2>1, <2>2, <3>2
    <3> QED BY <3>1, <3>2
  <2>4. orderly' => OrderlyInv'
    <3> SUFFICES ASSUME orderly' PROVE OrderlyInv'
      OBVIOUS
    <3>1. OrderlyInv /\ CommandInv(c) /\ Busy(c)
      BY <1>0, <1>c DEF OrderlyInv
    <3> QED BY <1>c, <2>1, <3>1, OneActs
  <2> QED BY <1>T, <2>3, <2>4 DEF ProcessInv
<1>1. ASSUME NEW c \in Commanders, BeginCommand(c) PROVE ProcessInv'
  <2>1. /\ cmdPc[c] = "idle"
        /\ cmdPc' = [cmdPc EXCEPT ![c] = IF order[c] = "start" THEN "check" ELSE "read"]
        /\ orderly' = (orderly /\ \A o \in Commanders : cmdPc[o] \in {"idle", "over"})
        /\ UNCHANGED <<order, pidRead, daemon, cmdExit, pidFile, sock>>
    BY <1>1 DEF BeginCommand, CmdGoesTo, KeepFiles
  <2>2. \A e \in Commanders : cmdPc'[e] # "over" => cmdExit'[e] = "none"
    BY <1>0, <1>t, <2>1
  <2>3. orderly' => OrderlyInv'
    <3> SUFFICES ASSUME orderly' PROVE OrderlyInv'
      OBVIOUS
    <3>1. (\A e \in Commanders : ~Busy(e)) /\ OrderlyInv
      BY <1>0, <2>1 DEF Busy
    <3>2. Quiet /\ Quiet'
      BY <2>1, <3>1 DEF OrderlyInv, Quiet, IsUp
    <3>3. \A e \in Commanders \ {c} : ~Busy(e)' /\ cmdPc'[e] = cmdPc[e]
      BY <1>t, <2>1, <3>1 DEF Busy
    <3>4. cmdPc'[c] \in {"check", "read"}
      BY <1>t, <2>1
    <3>5. \A e \in Commanders : CommandInv(e)'
      BY <3>2, <3>3, <3>4 DEF CommandInv, Busy
    <3> QED BY <3>2, <3>3, <3>5 DEF OrderlyInv
  <2> QED BY <1>T, <2>2, <2>3 DEF ProcessInv
<1>2. ASSUME NEW c \in Commanders, FindNoPid(c) PROVE ProcessInv'
  <2>1. /\ cmdPc[c] = "read" /\ pidFile = None
        /\ sock' = IF order[c] = "stop" THEN None ELSE sock
        /\ UNCHANGED <<order, pidRead, daemon, pidFile, orderly>>
        /\ \/ cmdPc' = [cmdPc EXCEPT ![c] = "check"] /\ cmdExit' = cmdExit
           \/ cmdPc' = [cmdPc EXCEPT ![c] = "over"] /\ cmdExit' = [cmdExit EXCEPT ![c] = "ok"]
    BY <1>2 DEF FindNoPid, GoOnOrEnd, CmdGoesTo, CmdEnds
  <2>2. Busy(c)
    BY <2>1 DEF Busy
  <2>3. CommandInv(c) => NoneUp
    BY <1>t, <2>1 DEF CommandInv, Quiet, NoneUp
  <2>4. CommandInv(c) => Quiet'
    BY <2>1, <2>3 DEF Quiet, NoneUp, IsUp
  <2>5. CASE cmdPc' = [cmdPc EXCEPT ![c] = "check"] /\ cmdExit' = cmdExit
    <3>1. CommandInv(c) => CommandInv(c)'
      BY <1>t, <2>4, <2>5 DEF CommandInv
    <3>2. Busy(c)'
      BY <1>t, <2>5 DEF Busy
    <3> QED BY <1>c, <2>1, <2>2, <2>5, <3>1, <3>2
  <2>6. CASE cmdPc' = [cmdPc EXCEPT ![c] = "over"] /\ cmdExit' = [cmdExit EXCEPT ![c] = "ok"]
    <3>1. ~Busy(c)'
      BY <1>t, <2>6 DEF Busy
    <3> QED BY <1>c, <2>1, <2>2, <2>4, <2>6, <3>1
  <2> QED BY <2>1, <2>5, <2>6
<1>3. ASSUME NEW c \in Commanders, SendTerm(c) PROVE ProcessInv'
  <2>1. /\ cmdPc[c] = "read" /\ pidFile # None /\ pidFile \in Commanders
        /\ pidRead' = [pidRead EXCEPT ![c] = pidFile]
        /\ UNCHANGED <<order, orderly, pidFile, sock, cmdExit>>
        /\ \/ /\ PidAlive(pidFile)
              /\ daemon' = [daemon EXCEPT ![pidFile] = Terminated(pidFile)]
              /\ cmdPc' = [cmdPc EXCEPT ![c] = "wait"]
           \/ /\ ~PidAlive(pidFile) /\ daemon' = daemon
              /\ \E pc \in {"check", "clean"} : cmdPc' = [cmdPc EXCEPT ![c] = pc]
    BY <1>3, <1>t DEF SendTerm, Becomes, CmdGoesTo, KeepFiles
  <2>2. Busy(c)
    BY <2>1 DEF Busy
  <2>3. CASE /\ PidAlive(pidFile)
             /\ daemon' = [daemon EXCEPT ![pidFile] = Terminated(pidFile)]
             /\ cmdPc' = [cmdPc EXCEPT ![c] = "wait"]
    <3>1. CommandInv(c) => \A d \in Commanders :
                              IsUp(d)' => d = pidFile /\ daemon'[d] \in {"ending", "removing"}
      <4> SUFFICES ASSUME Quiet, NEW d \in Commanders, IsUp(d)'
                   PROVE  d = pidFile /\ daemon'[d] \in {"ending", "removing"}
        BY <2>1 DEF CommandInv
      <4>1. CASE d # pidFile
        <5>1. daemon'[d] = daemon[d]
          BY <1>t, <2>3, <4>1
        <5> QED BY <4>1, <5>1 DEF Quiet, IsUp
      <4>2. CASE d = pidFile
        <5>1. daemon'[d] = Terminated(d)
          BY <1>t, <2>1, <2>3, <4>2
        <5>2. IsUp(d) => daemon[d] = "serving"
          BY DEF Quiet
        <5>3. daemon[d] = "serving" => Terminated(d) = "ending"
          BY DEF Terminated
        <5>4. daemon[d] \in {"unborn", "dead", "reused"} => Terminated(d) = daemon[d]
          BY DEF Terminated
        <5> QED BY <4>2, <5>1, <5>2, <5>3, <5>4 DEF IsUp
      <4> QED BY <4>1, <4>2
    <3>2. cmdPc'[c] = "wait" /\ pidRead'[c] = pidFile
      BY <1>t, <2>1, <2>3
    <3>3. (CommandInv(c) => CommandInv(c)') /\ Busy(c)'
      BY <3>1, <3>2 DEF CommandInv, Busy
    <3> QED BY <1>c, <2>1, <2>2, <2>3, <3>3
  <2>4. ASSUME ~PidAlive(pidFile), daemon' = daemon, NEW pc \in {"check", "clean"},
               cmdPc' = [cmdPc EXCEPT ![c] = pc]
        PROVE  ProcessInv'
    <3>1. cmdPc'[c] = pc
      BY <1>t, <2>4
    <3>2. CommandInv(c) => NoneUp'
      BY <2>1, <2>4 DEF CommandInv, Quiet, NoneUp, PidAlive, IsUp
    <3>3. (CommandInv(c) => CommandInv(c)') /\ Busy(c)'
      BY <3>1, <3>2 DEF CommandInv, Busy, Quiet, NoneUp
    <3> QED BY <1>c, <2>1, <2>2, <2>4, <3>3
  <2> QED BY <2>1, <2>3, <2>4
<1>4. ASSUME NEW c \in Commanders, SeeItGone(c) PROVE ProcessInv'
  <2>1. /\ cmdPc[c] = "wait" /\ ~PidAlive(pidRead[c])
        /\ cmdPc' = [cmdPc EXCEPT ![c] = "clean"]
        /\ UNCHANGED <<order, pidRead, daemon, orderly, pidFile, sock, cmdExit>>
    BY <1>4 DEF SeeItGone, CmdGoesTo, KeepFiles
  <2>2. cmdPc'[c] = "clean"
    BY <1>t, <2>1
  <2>3. CommandInv(c) => NoneUp'
    BY <1>t, <2>1 DEF CommandInv, NoneUp, PidAlive, IsUp
  <2>4. (CommandInv(c) => CommandInv(c)') /\ Busy(c)' /\ Busy(c)
    BY <2>1, <2>2, <2>3 DEF CommandInv, Busy
  <2> QED BY <1>c, <2>1, <2>4
<1>5. ASSUME NEW c \in Commanders, SendKill(c) PROVE ProcessInv'
  <2>1. /\ cmdPc[c] = "wait" /\ PidAlive(pidRead[c])
        /\ daemon' = [daemon EXCEPT ![pidRead[c]] = DaemonKilled(pidRead[c])]
        /\ cmdPc' = [cmdPc EXCEPT ![c] = "clean"]
        /\ UNCHANGED <<order, pidRead, orderly, pidFile, sock, cmdExit>>
    BY <1>5 DEF SendKill, Becomes, CmdGoesTo, KeepFiles
  <2>2. cmdPc'[c] = "clean"
    BY <1>t, <2>1
  <2>3. CommandInv(c) => NoneUp'
    <3> SUFFICES ASSUME CommandInv(c), NEW d \in Commanders PROVE ~IsUp(d)'
      BY DEF NoneUp
    <3>1. CASE d = pidRead[c]
      <4>1. daemon'[d] = DaemonKilled(d)
        BY <1>t, <2>1, <3>1
      <4> QED BY <4>1 DEF DaemonKilled, IsUp
    <3>2. CASE d # pidRead[c]
      <4>1. daemon'[d] = daemon[d] /\ ~IsUp(d)
        BY <1>t, <2>1, <3>2 DEF CommandInv
      <4> QED BY <4>1 DEF IsUp
    <3> QED BY <3>1, <3>2
  <2>4. (CommandInv(c) => CommandInv(c)') /\ Busy(c)' /\ Busy(c)
    BY <2>1, <2>2, <2>3 DEF CommandInv, Busy
  <2> QED BY <1>c, <2>1, <2>4
<1>6. ASSUME NEW c \in Commanders, CleanupFiles(c) PROVE ProcessInv'
  <2>1. /\ cmdPc[c] = "clean" /\ pidFile' = None /\ sock' = None
        /\ UNCHANGED <<order, pidRead, daemon, orderly>>
        /\ \/ cmdPc' = [cmdPc EXCEPT ![c] = "check"] /\ cmdExit' = cmdExit
           \/ cmdPc' = [cmdPc EXCEPT ![c] = "over"] /\ cmdExit' = [cmdExit EXCEPT ![c] = "ok"]
    BY <1>6 DEF CleanupFiles, GoOnOrEnd, CmdGoesTo, CmdEnds
  <2>2. Busy(c)
    BY <2>1 DEF Busy
  <2>4. CommandInv(c) => Quiet'
    BY <2>1 DEF CommandInv, Quiet, NoneUp, IsUp
  <2>5. CASE cmdPc' = [cmdPc EXCEPT ![c] = "check"] /\ cmdExit' = cmdExit
    <3>1. CommandInv(c) => CommandInv(c)'
      BY <1>t, <2>4, <2>5 DEF CommandInv
    <3>2. Busy(c)'
      BY <1>t, <2>5 DEF Busy
    <3> QED BY <1>c, <2>1, <2>2, <2>5, <3>1, <3>2
  <2>6. CASE cmdPc' = [cmdPc EXCEPT ![c] = "over"] /\ cmdExit' = [cmdExit EXCEPT ![c] = "ok"]
    <3>1. ~Busy(c)'
      BY <1>t, <2>6 DEF Busy
    <3> QED BY <1>c, <2>1, <2>2, <2>4, <2>6, <3>1
  <2> QED BY <2>1, <2>5, <2>6
<1>7. ASSUME NEW c \in Commanders, CheckRunning(c) PROVE ProcessInv'
  <2>1. /\ cmdPc[c] = "check"
        /\ UNCHANGED <<order, pidRead, daemon, orderly, pidFile, sock>>
        /\ \/ /\ PidAlive(pidFile) /\ cmdPc' = [cmdPc EXCEPT ![c] = "over"]
              /\ cmdExit' = [cmdExit EXCEPT ![c] = "error"]
           \/ /\ ~PidAlive(pidFile) /\ cmdPc' = [cmdPc EXCEPT ![c] = "unlink"]
              /\ cmdExit' = cmdExit
    BY <1>7 DEF CheckRunning, CmdGoesTo, CmdEnds, KeepFiles
  <2>2. Busy(c) /\ cmdExit[c] = "none"
    BY <1>0, <2>1 DEF Busy
  <2>3. CASE /\ PidAlive(pidFile) /\ cmdPc' = [cmdPc EXCEPT ![c] = "over"]
             /\ cmdExit' = [cmdExit EXCEPT ![c] = "error"]
    <3>1. ~Busy(c)'
      BY <1>t, <2>3 DEF Busy
    <3>2. CommandInv(c) => Quiet'
      <4> SUFFICES ASSUME Quiet, NEW d \in Commanders, IsUp(d)'
                   PROVE  daemon'[d] = "serving" /\ pidFile' = d /\ sock' = d /\ cmdExit'[d] = "ok"
        BY <2>1 DEF CommandInv, Quiet
      <4>1. IsUp(d)
        BY <2>1 DEF IsUp
      <4>2. daemon[d] = "serving" /\ pidFile = d /\ sock = d /\ cmdExit[d] = "ok" /\ d # c
        BY <2>2, <4>1 DEF Quiet
      <4> QED BY <1>t, <2>1, <2>3, <4>2
    <3> QED BY <1>c, <2>1, <2>2, <2>3, <3>1, <3>2
  <2>4. CASE /\ ~PidAlive(pidFile) /\ cmdPc' = [cmdPc EXCEPT ![c] = "unlink"]
             /\ cmdExit' = cmdExit
    <3>1. cmdPc'[c] = "unlink"
      BY <1>t, <2>4
    <3>2. CommandInv(c) => NoneUp'
      BY <1>t, <2>1, <2>4 DEF CommandInv, Quiet, NoneUp, PidAlive, IsUp
    <3>3. (CommandInv(c) => CommandInv(c)') /\ Busy(c)'
      BY <3>1, <3>2 DEF CommandInv, Busy
    <3> QED BY <1>c, <2>1, <2>2, <2>4, <3>3
  <2> QED BY <2>1, <2>3, <2>4
<1>8. ASSUME NEW c \in Commanders, UnlinkSocket(c) PROVE ProcessInv'
  <2>1. /\ cmdPc[c] = "unlink" /\ cmdPc' = [cmdPc EXCEPT ![c] = "spawn"]
        /\ UNCHANGED <<order, pidRead, daemon, pidFile, orderly, cmdExit>>
    BY <1>8 DEF UnlinkSocket, CmdGoesTo
  <2>2. cmdPc'[c] = "spawn"
    BY <1>t, <2>1
  <2>4. (CommandInv(c) => CommandInv(c)') /\ Busy(c)' /\ Busy(c)
    BY <2>1, <2>2 DEF CommandInv, Busy, NoneUp, IsUp
  <2> QED BY <1>c, <2>1, <2>4
<1>9. ASSUME NEW c \in Commanders, Spawn(c) PROVE ProcessInv'
  <2>1. /\ cmdPc[c] = "spawn" /\ cmdPc' = [cmdPc EXCEPT ![c] = "poll"]
        /\ daemon' = [daemon EXCEPT ![c] = "spawned"]
        /\ UNCHANGED <<order, pidRead, pidFile, sock, orderly, cmdExit>>
    BY <1>9 DEF Spawn, CmdGoesTo, Becomes, KeepFiles
  <2>2. cmdPc'[c] = "poll" /\ daemon'[c] = "spawned"
    BY <1>t, <2>1
  <2>3. \A d \in Commanders \ {c} : daemon'[d] = daemon[d]
    BY <1>t, <2>1
  <2>4. (CommandInv(c) => CommandInv(c)') /\ Busy(c)' /\ Busy(c)
    BY <2>1, <2>2, <2>3 DEF CommandInv, Busy, NoneUp, IsUp
  <2> QED BY <1>c, <2>1, <2>4
<1>10. ASSUME NEW c \in Commanders, SeeItUp(c) \/ SeeItExited(c) PROVE ProcessInv'
  <2>1. /\ cmdPc[c] = "poll" /\ cmdPc' = [cmdPc EXCEPT ![c] = "over"]
        /\ UNCHANGED <<order, pidRead, daemon, orderly, pidFile, sock>>
        /\ \/ CanConnect /\ cmdExit' = [cmdExit EXCEPT ![c] = "ok"]
           \/ ~PidAlive(c) /\ cmdExit' = [cmdExit EXCEPT ![c] = "error"]
    BY <1>10 DEF SeeItUp, SeeItExited, CmdEnds, KeepFiles
  <2>2. Busy(c) /\ ~Busy(c)'
    BY <1>t, <2>1 DEF Busy
  <2>3. CommandInv(c) => Quiet'
    <3> SUFFICES ASSUME CommandInv(c), NEW d \in Commanders, IsUp(d)'
                 PROVE  daemon'[d] = "serving" /\ pidFile' = d /\ sock' = d /\ cmdExit'[d] = "ok"
      BY DEF Quiet
    <3>1. IsUp(d)
      BY <2>1 DEF IsUp
    <3>2. d = c /\ (daemon[d] = "serving" => (pidFile = d /\ sock = d))
      BY <2>1, <3>1 DEF CommandInv
    <3>3. PidAlive(c)
      BY <1>t, <3>1, <3>2 DEF IsUp, PidAlive
    <3>4. sock # None /\ daemon[sock] = "serving" /\ cmdExit' = [cmdExit EXCEPT ![c] = "ok"]
      BY <2>1, <3>3 DEF CanConnect
    <3>5. sock \in Commanders /\ IsUp(sock)
      BY <1>t, <3>4 DEF IsUp
    <3>6. sock = c
      BY <2>1, <3>5 DEF CommandInv
    <3> QED BY <1>t, <2>1, <3>2, <3>4, <3>6
  <2> QED BY <1>c, <2>1, <2>2, <2>3
<1>11. ASSUME NEW c \in Commanders, CommandGivesUp(c) PROVE ProcessInv'
  <2>1. /\ cmdPc' = [cmdPc EXCEPT ![c] = "over"] /\ cmdExit' = [cmdExit EXCEPT ![c] = "error"]
        /\ orderly' = FALSE
    BY <1>11 DEF CommandGivesUp, CmdEnds
  <2> QED BY <1>c, <2>1
\* A step of a daemon.
<1>d. ASSUME NEW d \in Commanders, NEW s, daemon' = [daemon EXCEPT ![d] = s],
             UNCHANGED <<order, cmdPc, pidRead, cmdExit, orderly>>,
             Quiet => Quiet', \A c \in Commanders : CommandInv(c) => CommandInv(c)'
      PROVE  ProcessInv'
  <2>1. orderly' => OrderlyInv'
    BY <1>0, <1>d, DaemonActs DEF OrderlyInv
  <2> QED BY <1>0, <1>T, <1>d, <2>1 DEF ProcessInv
<1>12. ASSUME NEW d \in Commanders, MainStep(d) PROVE ProcessInv'
  <2>1. /\ UNCHANGED <<order, cmdPc, pidRead, cmdExit, orderly>>
        /\ \/ daemon[d] = "spawned" /\ pidFile' = pidFile /\ daemon' = [daemon EXCEPT ![d] = "unlinked"]
           \/ /\ daemon[d] = "unlinked" /\ pidFile' = d /\ sock' = sock
              /\ daemon' = [daemon EXCEPT ![d] = "written"]
           \/ /\ daemon[d] = "written" /\ pidFile' = pidFile /\ sock' = sock
              /\ \/ daemon' = [daemon EXCEPT ![d] = "configured"]
                 \/ daemon' = [daemon EXCEPT ![d] = "dead"]
           \/ /\ daemon[d] = "configured" /\ pidFile' = pidFile /\ sock' = d
              /\ daemon' = [daemon EXCEPT ![d] = "serving"]
           \/ daemon[d] = "ending" /\ daemon' = [daemon EXCEPT ![d] = "removing"]
           \/ daemon[d] = "removing" /\ daemon' = [daemon EXCEPT ![d] = "dead"]
    BY <1>12 DEF MainStep, DaemonUnlinks, WritePid, LoadConfig, Serve, RemovePidFile, RemoveSocket,
       NoCommand, Becomes, KeepFiles
  <2>2. PICK s : daemon' = [daemon EXCEPT ![d] = s]
    BY <2>1
  <2>3. daemon'[d] = s /\ \A e \in Commanders \ {d} : daemon'[e] = daemon[e] /\ (IsUp(e)' <=> IsUp(e))
    BY <1>t, <2>2 DEF IsUp
  <2>4. IsUp(d) /\ daemon[d] # "serving"
    BY <2>1 DEF IsUp
  <2>5. Quiet => Quiet'
    BY <2>4 DEF Quiet
  <2>6. ASSUME NEW c \in Commanders, CommandInv(c) PROVE CommandInv(c)'
    <3>1. CASE cmdPc[c] \in {"idle", "over"}
      BY <2>1, <3>1 DEF CommandInv
    <3>2. CASE cmdPc[c] \in {"read", "check", "clean", "unlink", "spawn"}
      BY <2>4, <2>6, <3>2 DEF CommandInv, Quiet, NoneUp
    <3>3. CASE cmdPc[c] = "wait"
      <4>1. d = pidRead[c] /\ daemon[d] \in {"ending", "removing"}
        BY <2>4, <2>6, <3>3 DEF CommandInv
      <4>2. s \in {"removing", "dead"}
        BY <1>t, <2>1, <2>3, <4>1
      <4>3. \A e \in Commanders : IsUp(e)' => e = pidRead[c] /\ daemon'[e] \in {"ending", "removing"}
        BY <2>3, <2>6, <3>3, <4>1, <4>2 DEF CommandInv, IsUp
      <4> QED BY <2>1, <3>3, <4>3 DEF CommandInv
    <3>4. CASE cmdPc[c] = "poll"
      <4>1. d = c /\ daemon[d] \in {"spawned", "unlinked", "written", "configured"}
            /\ (daemon[d] \in {"written", "configured"} => pidFile = d)
        BY <2>4, <2>6, <3>4 DEF CommandInv
      <4>2. /\ s \in {"unlinked", "written", "configured", "serving", "dead"}
            /\ s \in {"written", "configured", "serving"} => pidFile' = d
            /\ s = "serving" => sock' = d
        BY <1>t, <2>1, <2>3, <4>1
      <4>3. \A e \in Commanders : IsUp(e)' =>
                /\ e = c
                /\ daemon'[e] \in {"spawned", "unlinked", "written", "configured", "serving"}
                /\ daemon'[e] \in {"written", "configured", "serving"} => pidFile' = e
                /\ daemon'[e] = "serving" => sock' = e
        <5> SUFFICES ASSUME NEW e \in Commanders, IsUp(e)'
                     PROVE  /\ e = c
                            /\ daemon'[e] \in {"spawned", "unlinked", "written", "configured", "serving"}
                            /\ daemon'[e] \in {"written", "configured", "serving"} => pidFile' = e
                            /\ daemon'[e] = "serving" => sock' = e
          OBVIOUS
        <5>1. e = d
          BY <2>3, <2>6, <3>4, <4>1 DEF CommandInv
        <5>2. s # "dead"
          BY <2>3, <5>1 DEF IsUp
        <5> QED BY <2>3, <4>1, <4>2, <5>1, <5>2
      <4> QED BY <2>1, <3>4, <4>3 DEF CommandInv
    <3> QED BY <1>t, <3>1, <3>2, <3>3, <3>4
  <2> QED BY <1>d, <2>1, <2>2, <2>5, <2>6
<1>13. ASSUME NEW d \in Commanders, Crash(d) \/ Reuse(d) PROVE ProcessInv'
  <2>1. /\ UNCHANGED <<order, cmdPc, pidRead, cmdExit, orderly, pidFile, sock>>
        /\ daemon' = [daemon EXCEPT ![d] = "dead"] \/ daemon' = [daemon EXCEPT ![d] = "reused"]
    BY <1>13 DEF Crash, Reuse, NoCommand, Becomes, KeepFiles
  <2>2. PICK s \in {"dead", "reused"} : daemon' = [daemon EXCEPT ![d] = s]
    BY <2>1
  <2>3. ~IsUp(d)' /\ \A e \in Commanders \ {d} : daemon'[e] = daemon[e] /\ (IsUp(e)' <=> IsUp(e))
    BY <1>t, <2>2 DEF IsUp
  <2>4. \A e \in Commanders : IsUp(e)' => IsUp(e) /\ daemon'[e] = daemon[e]
    BY <2>3
  <2>5. Quiet => Quiet'
    BY <2>1, <2>4 DEF Quiet
  <2>6. NoneUp => NoneUp'
    BY <2>4 DEF NoneUp
  <2>7. ASSUME NEW c \in Commanders, CommandInv(c) PROVE CommandInv(c)'
    BY <2>1, <2>4, <2>5, <2>6, <2>7 DEF CommandInv
  <2> QED BY <1>d, <2>1, <2>2, <2>5, <2>7
<1>14. CASE CommandsOver \/ UNCHANGED daemonVars
  <2>1. UNCHANGED daemonVars
    BY <1>14 DEF CommandsOver
  <2> QED BY <1>0, <1>T, <2>1 DEF ProcessInv, OrderlyInv, CommandInv, Quiet, NoneUp, IsUp, Busy, daemonVars
<1> QED BY <1>1, <1>2, <1>3, <1>4, <1>5, <1>6, <1>7, <1>8, <1>9, <1>10, <1>11, <1>12, <1>13, <1>14
        DEF DaemonNext, CommandStep

LEMMA ProcessHolds == DaemonSpec => []ProcessInv
<1>1. DaemonInit => ProcessInv
  <2> SUFFICES ASSUME DaemonInit PROVE ProcessInv
    OBVIOUS
  <2>1. DaemonTypeOK
    BY DEF DaemonInit, DaemonTypeOK, Stages
  <2>2. \A c \in Commanders : cmdPc[c] = "idle" /\ cmdExit[c] = "none" /\ ~IsUp(c)
    BY DEF DaemonInit, IsUp
  <2> QED BY <2>1, <2>2 DEF ProcessInv, OrderlyInv, CommandInv, Busy, Quiet
<1> QED BY <1>1, ProcessStep, PTL DEF DaemonSpec

\* The state of the commands, the daemons and their two files keeps its types.
THEOREM DaemonTypeCorrect == DaemonSpec => []DaemonTypeOK
<1>1. ProcessInv => DaemonTypeOK
  BY DEF ProcessInv
<1> QED BY <1>1, ProcessHolds, PTL

\* As long as commands follow one another and none gives up, at most one daemon
\* lives whenever none is at work, and clients and the next stop find it.
THEOREM OneDaemonIsReachable == DaemonSpec => []OneReachableDaemon
<1>1. ProcessInv => OneReachableDaemon
  <2> SUFFICES ASSUME ProcessInv, orderly, \A c \in Commanders : cmdPc[c] \in {"idle", "over"}
               PROVE  /\ Cardinality({d \in Commanders : IsUp(d)}) <= 1
                      /\ \A d \in Commanders :
                           daemon[d] = "serving" => pidFile = d /\ sock = d /\ cmdExit[d] = "ok"
    BY DEF OneReachableDaemon
  <2>1. Quiet
    BY DEF ProcessInv, OrderlyInv, Busy
  <2>2. {d \in Commanders : IsUp(d)} \subseteq {pidFile}
    BY <2>1 DEF Quiet
  <2>3. Cardinality({d \in Commanders : IsUp(d)}) <= Cardinality({pidFile})
    BY <2>2, FS_Singleton, FS_Subset
  <2>4. Cardinality({pidFile}) = 1
    BY FS_Singleton
  <2> QED BY <2>1, <2>3, <2>4 DEF Quiet, IsUp
<1> QED BY <1>1, ProcessHolds, PTL
-----------------------------------------------------------------------------
(* The relay *)

Outcomes ==
    {"rejected_payload_too_large", "rejected_secret_detected", "rejected_allowlist",
     "rejected_allowlist_empty", "dry_run_passed", "dispatched_idempotent",
     "dispatch_inflight", "dispatched", "unreadable"} \cup DOMAIN CloudExits

Gates ==
    {"in_allowlist", "override_confirm_allowlist", "rejected_allowlist",
     "rejected_allowlist_empty", "skipped_for_dry_run", "none"}

AuditRows == [relay : Relays \cup {"none"}, outcome : Outcomes, gate : Gates]

\* The gate is open to the command.
GateOpen == command.text # "large" /\ ~ScanFinds /\ (InAllowlist \/ command.override)

AskedBy(r) == \E a \in asked : a.relay = r

\* The log can be trusted: nothing has failed, aged or been cut short in it.
LogIsWhole == ~diskFailed /\ aged = 0 /\ \A i \in DOMAIN audit : audit[i] # Unreadable

\* A relay that is past a check has passed it, and one that has sent its request has
\* come to an end or is about to write its row.
PastInv(r) ==
    /\ relayPc[r] \in {"gated", "announce", "key", "post", "record"} => GateOpen
    /\ relayPc[r] \in {"announce", "key", "post", "record"} => ~command.dry
    /\ AskedBy(r) => GateOpen /\ ~command.dry /\ relayPc[r] \in {"record", "ended", "killed"}

\* The row that announces the request precedes what needs it.
AnnouncedInv(r) ==
    (relayPc[r] \in {"key", "post", "record"} \/ AskedBy(r)) =>
        \E i \in DOMAIN audit : \/ audit[i] = Row(r, "dispatch_inflight", GateDecision)
                                \/ audit[i] = Unreadable

\* A relay that has reported success has left the row that the next one looks for.
SuccessInv(r) ==
    /\ relayExit[r] # NoCode => relayPc[r] = "ended"
    /\ (relayExit[r] = 0 /\ ~command.dry /\ LogIsWhole) =>
           \E i \in DOMAIN audit : audit[i].outcome = "dispatched"

\* A relay that started after such a success does not come near the request.
RetryInv(r) ==
    /\ \A q \in retryOf[r] : relayPc[q] \in {"ended", "killed"}
    /\ (LogIsWhole /\ \E q \in retryOf[r] : relayExit[q] = 0) =>
           relayPc[r] \notin {"announce", "key", "post", "record"} /\ ~AskedBy(r)

RelayInv ==
    /\ RelayTypeOK
    /\ audit \in Seq(AuditRows)
    /\ \A r \in Relays : PastInv(r) /\ AnnouncedInv(r) /\ SuccessInv(r) /\ RetryInv(r)

\* A step of relay r as the log sees it: it grows by a row, or not at all.
LogGrows ==
    /\ audit' = audit \/ \E row \in AuditRows : audit' = Append(audit, row)
    /\ torn' \in BOOLEAN /\ diskFailed' \in BOOLEAN /\ (diskFailed => diskFailed')
    /\ UNCHANGED <<relayConfig, command, aged>>

\* The log keeps its rows, and is whole after a step only if it was before.
LEMMA LogKept ==
    ASSUME audit \in Seq(AuditRows), aged \in 0..Len(audit), LogGrows
    PROVE  /\ audit' \in Seq(AuditRows) /\ aged' \in 0..Len(audit')
           /\ \A i \in DOMAIN audit : i \in DOMAIN audit' /\ audit'[i] = audit[i]
           /\ LogIsWhole' => LogIsWhole
<1>1. /\ audit' \in Seq(AuditRows) /\ Len(audit) <= Len(audit')
      /\ \A i \in DOMAIN audit : i \in DOMAIN audit' /\ audit'[i] = audit[i]
  <2>1. CASE audit' = audit
    BY <2>1
  <2>2. CASE \E row \in AuditRows : audit' = Append(audit, row)
    <3> PICK row \in AuditRows : audit' = Append(audit, row)
      BY <2>2
    <3>1. /\ audit' \in Seq(AuditRows) /\ Len(audit') = Len(audit) + 1
          /\ \A i \in 1..Len(audit) : audit'[i] = audit[i]
      BY AppendProperties
    <3>2. DOMAIN audit = 1..Len(audit) /\ DOMAIN audit' = 1..Len(audit') /\ Len(audit) \in Nat
      BY <3>1, LenProperties
    <3> QED BY <3>1, <3>2
  <2> QED BY <2>1, <2>2 DEF LogGrows
<1>2. aged' \in 0..Len(audit')
  BY <1>1, LenProperties DEF LogGrows
<1>3. LogIsWhole' => LogIsWhole
  BY <1>1 DEF LogIsWhole, LogGrows
<1> QED BY <1>1, <1>2, <1>3

\* The line that takes the place of two is a row too.
LEMMA UnreadableIsRow == Unreadable \in AuditRows
BY DEF AuditRows, Unreadable, Outcomes, Gates

\* A row that is written is there to be read, or shares its line with a torn one.
LEMMA RowIsThere ==
    ASSUME audit \in Seq(AuditRows), NEW row \in AuditRows, Written(row)
    PROVE  \E i \in DOMAIN audit' : audit'[i] = row \/ audit'[i] = Unreadable
<1> DEFINE line == IF torn THEN Unreadable ELSE row
<1>1. line \in AuditRows
  BY UnreadableIsRow
<1>2. audit' = Append(audit, line)
  BY DEF Written
<1>3. line = row \/ line = Unreadable
  OBVIOUS
<1> HIDE DEF line
<1>4. Len(audit') = Len(audit) + 1 /\ audit'[Len(audit) + 1] = line /\ audit' \in Seq(AuditRows)
  BY <1>1, <1>2, AppendProperties
<1>5. Len(audit) + 1 \in DOMAIN audit'
  BY <1>4, LenProperties
<1> QED BY <1>3, <1>4, <1>5

\* Whether it is written or refused, a row only adds to the log.
LEMMA RowAdds ==
    ASSUME RelayTypeOK, NEW row \in AuditRows, AppendRow(row) \/ NoRow, UnchangedInputs
    PROVE  LogGrows
<1>1. CASE Written(row)
  <2>1. (IF torn THEN Unreadable ELSE row) \in AuditRows
    BY UnreadableIsRow
  <2> QED BY <1>1, <2>1 DEF Written, LogGrows, UnchangedInputs, RelayTypeOK
<1>2. CASE AppendFails
  BY <1>2 DEF AppendFails, LogGrows, UnchangedInputs, RelayTypeOK
<1>3. CASE NoRow
  BY <1>3 DEF NoRow, LogGrows, UnchangedInputs, RelayTypeOK
<1> QED BY <1>1, <1>2, <1>3 DEF AppendRow

\* A step of relay r disturbs no other.
LEMMA RelayActs ==
    ASSUME RelayInv, NEW r \in Relays, relayPc[r] \notin {"ended", "killed"}, LogGrows,
           NEW pc \in {"checked", "gated", "announce", "key", "post", "record", "ended", "killed"},
           relayPc' = [relayPc EXCEPT ![r] = pc],
           NEW code \in Exits, relayExit' = [relayExit EXCEPT ![r] = code],
           NEW others \in SUBSET Relays, retryOf' = [retryOf EXCEPT ![r] = others],
           NEW sent \in SUBSET [relay : {r}, accepted : BOOLEAN], asked' = asked \cup sent,
           PastInv(r)', AnnouncedInv(r)', SuccessInv(r)', RetryInv(r)'
    PROVE  RelayInv'
<1>t. /\ relayPc \in [Relays -> {"idle", "checked", "gated", "scan", "announce", "key",
                                 "post", "record", "ended", "killed"}]
      /\ relayExit \in [Relays -> Exits] /\ retryOf \in [Relays -> SUBSET Relays]
      /\ audit \in Seq(AuditRows) /\ aged \in 0..Len(audit)
  BY DEF RelayInv, RelayTypeOK
<1>l. /\ audit' \in Seq(AuditRows) /\ aged' \in 0..Len(audit')
      /\ \A i \in DOMAIN audit : i \in DOMAIN audit' /\ audit'[i] = audit[i]
      /\ LogIsWhole' => LogIsWhole
  BY <1>t, LogKept
<1>1. /\ \A e \in Relays \ {r} : /\ relayPc'[e] = relayPc[e] /\ relayExit'[e] = relayExit[e]
                                 /\ retryOf'[e] = retryOf[e] /\ (AskedBy(e)' <=> AskedBy(e))
      /\ relayPc'[r] = pc /\ relayExit'[r] = code
  <2>1. \A e \in Relays \ {r} : AskedBy(e)' <=> AskedBy(e)
    BY DEF AskedBy
  <2> QED BY <1>t, <2>1
<1>2. RelayTypeOK'
  <2>1. \A i \in DOMAIN audit' : audit'[i].relay \in Relays \cup {"none"}
    <3>1. \A i \in DOMAIN audit' : audit'[i] \in AuditRows
      BY <1>l, LenProperties
    <3> QED BY <3>1 DEF AuditRows
  <2>2. relayPc' \in [Relays -> {"idle", "checked", "gated", "scan", "announce", "key",
                                 "post", "record", "ended", "killed"}]
    BY <1>t
  <2>3. relayExit' \in [Relays -> Exits] /\ retryOf' \in [Relays -> SUBSET Relays]
    BY <1>t
  <2>4. asked' \subseteq [relay : Relays, accepted : BOOLEAN]
    BY DEF RelayInv, RelayTypeOK
  <2>5. relayConfig' \in Configs /\ command' \in Commands /\ torn' \in BOOLEAN /\ diskFailed' \in BOOLEAN
    BY DEF RelayInv, RelayTypeOK, LogGrows
  <2> QED BY <1>l, <2>1, <2>2, <2>3, <2>4, <2>5 DEF RelayTypeOK
<1>3. UNCHANGED <<GateOpen, GateDecision, command.dry>>
  BY DEF LogGrows, GateOpen, GateDecision, InAllowlist, ScanFinds, FallbackFinds
<1>4. ASSUME NEW e \in Relays \ {r}
      PROVE  PastInv(e)' /\ AnnouncedInv(e)' /\ SuccessInv(e)' /\ RetryInv(e)'
  <2>0. PastInv(e) /\ AnnouncedInv(e) /\ SuccessInv(e) /\ RetryInv(e)
    BY DEF RelayInv
  <2>1. PastInv(e)'
    BY <1>1, <1>3, <2>0 DEF PastInv
  <2>2. AnnouncedInv(e)'
    BY <1>1, <1>3, <1>l, <2>0 DEF AnnouncedInv, Row
  <2>3. SuccessInv(e)'
    BY <1>1, <1>3, <1>l, <2>0 DEF SuccessInv
  <2>4. RetryInv(e)'
    <3>1. \A q \in retryOf[e] : q \in Relays \ {r}
      BY <1>t, <2>0 DEF RetryInv
    <3> QED BY <1>1, <1>l, <2>0, <3>1 DEF RetryInv
  <2> QED BY <2>1, <2>2, <2>3, <2>4
<1> QED BY <1>2, <1>l, <1>4 DEF RelayInv
LEMMA RowsAreTyped ==
    ASSUME NEW r \in Relays
    PROVE  /\ \A o \in Outcomes : \A g \in Gates : Row(r, o, g) \in AuditRows
           /\ GateDecision \in Gates
           /\ \A g \in Gates : Presumed(g) \in Gates
           /\ ~InAllowlist /\ ~command.override => GateDecision \in Outcomes
BY DEF Row, AuditRows, Gates, Outcomes, GateDecision, Presumed

LEMMA RelayProgress ==
    ASSUME RelayInv, NEW r \in Relays, RelayStep(r)
    PROVE  RelayInv'
<1>t. /\ relayPc \in [Relays -> {"idle", "checked", "gated", "scan", "announce", "key",
                                 "post", "record", "ended", "killed"}]
      /\ relayExit \in [Relays -> Exits] /\ retryOf \in [Relays -> SUBSET Relays]
      /\ audit \in Seq(AuditRows) /\ aged \in 0..Len(audit) /\ RelayTypeOK
      /\ torn \in BOOLEAN /\ diskFailed \in BOOLEAN
  BY DEF RelayInv, RelayTypeOK
<1>i. PastInv(r) /\ AnnouncedInv(r) /\ SuccessInv(r) /\ RetryInv(r)
  BY DEF RelayInv
<1>r. /\ \A o \in Outcomes : \A g \in Gates : Row(r, o, g) \in AuditRows
      /\ GateDecision \in Gates
      /\ \A g \in Gates : Presumed(g) \in Gates
      /\ ~InAllowlist /\ ~command.override => GateDecision \in Outcomes
  BY RowsAreTyped
<1>k. LogGrows => /\ \A i \in DOMAIN audit : i \in DOMAIN audit' /\ audit'[i] = audit[i]
                  /\ LogIsWhole' => LogIsWhole
                  /\ UNCHANGED <<GateOpen, GateDecision, command.dry>>
  <2>1. LogGrows => UNCHANGED <<GateOpen, GateDecision, command.dry>>
    BY DEF LogGrows, GateOpen, GateDecision, InAllowlist, ScanFinds, FallbackFinds
  <2> QED BY <1>t, <2>1, LogKept
\* A relay that goes to pc without a request.
<1>g. ASSUME relayPc[r] \notin {"ended", "killed"}, LogGrows,
             NEW pc \in {"checked", "gated", "announce", "key", "post", "killed"},
             relayPc' = [relayPc EXCEPT ![r] = pc], UNCHANGED <<relayExit, retryOf, asked>>,
             pc \in {"gated", "announce", "key", "post"} => GateOpen,
             pc \in {"announce", "key", "post"} => ~command.dry /\ ~AskedBy(r),
             AskedBy(r) => pc = "killed",
             pc \in {"key", "post"} =>
                \E i \in DOMAIN audit' : \/ audit'[i] = Row(r, "dispatch_inflight", GateDecision)
                                         \/ audit'[i] = Unreadable,
             (LogIsWhole' /\ \E q \in retryOf[r] : relayExit[q] = 0) =>
                pc \notin {"announce", "key", "post"}
      PROVE  RelayInv'
  <2>1. relayPc'[r] = pc /\ (AskedBy(r)' <=> AskedBy(r)) /\ relayExit[r] = NoCode
    BY <1>t, <1>g, <1>i DEF AskedBy, SuccessInv
  <2>2. PastInv(r)'
    BY <1>g, <1>i, <1>k, <2>1 DEF PastInv
  <2>3. AnnouncedInv(r)'
    <3>1. CASE pc \in {"key", "post"}
      BY <1>g, <1>k, <3>1 DEF AnnouncedInv
    <3>2. CASE pc \notin {"key", "post"}
      BY <1>g, <1>i, <1>k, <2>1, <3>2 DEF AnnouncedInv
    <3> QED BY <3>1, <3>2
  <2>4. SuccessInv(r)'
    BY <1>g, <2>1 DEF SuccessInv, NoCode
  <2>5. RetryInv(r)'
    <3>1. \A q \in retryOf[r] : q # r /\ q \in Relays
      BY <1>t, <1>g, <1>i DEF RetryInv
    <3> QED BY <1>t, <1>g, <1>i, <1>k, <2>1, <3>1 DEF RetryInv
  <2>6. relayExit' = [relayExit EXCEPT ![r] = relayExit[r]] /\ relayExit[r] \in Exits
        /\ retryOf' = [retryOf EXCEPT ![r] = retryOf[r]] /\ retryOf[r] \in SUBSET Relays
        /\ asked' = asked \cup {}
    BY <1>t, <1>g
  <2> QED BY <1>g, <2>2, <2>3, <2>4, <2>5, <2>6, RelayActs
\* A relay that comes to its end without a request in this step.
<1>e. ASSUME relayPc[r] \notin {"ended", "killed"}, LogGrows, NEW code \in Exits,
             Exit(r, code), UNCHANGED <<retryOf, asked>>,
             (code = 0 /\ ~command.dry /\ LogIsWhole') =>
                \E i \in DOMAIN audit' : audit'[i].outcome = "dispatched"
      PROVE  RelayInv'
  <2>1. relayPc' = [relayPc EXCEPT ![r] = "ended"] /\ relayExit' = [relayExit EXCEPT ![r] = code]
    BY <1>e DEF Exit
  <2>2. relayPc'[r] = "ended" /\ relayExit'[r] = code /\ (AskedBy(r)' <=> AskedBy(r))
    BY <1>t, <1>e, <2>1 DEF AskedBy
  <2>3. PastInv(r)'
    BY <1>i, <1>k, <1>e, <2>2 DEF PastInv
  <2>4. AnnouncedInv(r)'
    BY <1>i, <1>k, <1>e, <2>2 DEF AnnouncedInv
  <2>5. SuccessInv(r)'
    BY <1>k, <1>e, <2>2 DEF SuccessInv
  <2>6. RetryInv(r)'
    <3>1. \A q \in retryOf[r] : q # r /\ q \in Relays
      BY <1>t, <1>e, <1>i DEF RetryInv
    <3>2. \A q \in retryOf[r] : relayPc'[q] = relayPc[q] /\ relayExit'[q] = relayExit[q]
      BY <1>t, <2>1, <3>1
    <3> QED BY <1>e, <1>i, <1>k, <2>2, <3>2 DEF RetryInv
  <2>7. retryOf' = [retryOf EXCEPT ![r] = retryOf[r]] /\ retryOf[r] \in SUBSET Relays
        /\ asked' = asked \cup {}
    BY <1>t, <1>e
  <2> QED BY <1>e, <2>1, <2>3, <2>4, <2>5, <2>6, <2>7, RelayActs
<1>1. CASE Check(r)
  <2> DEFINE others == {q \in Relays : relayPc[q] \in {"ended", "killed"}}
  <2>1. /\ relayPc[r] = "idle" /\ retryOf' = [retryOf EXCEPT ![r] = others]
        /\ UNCHANGED asked /\ NoRow /\ UnchangedInputs
    BY <1>1 DEF Check
  <2>2. PICK pc \in {"ended", "checked"}, code \in {2, relayExit[r]} :
           /\ relayPc' = [relayPc EXCEPT ![r] = pc]
           /\ relayExit' = [relayExit EXCEPT ![r] = code]
           /\ pc # "ended" => code = relayExit[r]
    BY <1>t, <1>1 DEF Check, Exit, GoTo
  <2>3. relayPc'[r] = pc /\ relayExit'[r] = code /\ code \in Exits /\ code # 0
        /\ (code # NoCode => pc = "ended") /\ ~AskedBy(r) /\ ~AskedBy(r)'
    <3>1. relayExit[r] = NoCode /\ ~AskedBy(r)
      BY <1>i, <2>1 DEF SuccessInv, PastInv
    <3>2. ~AskedBy(r)'
      BY <2>1, <3>1 DEF AskedBy
    <3> QED BY <1>t, <2>1, <2>2, <3>1, <3>2 DEF NoCode, Exits
  <2>4. LogGrows
    BY <1>t, <2>1 DEF NoRow, UnchangedInputs, LogGrows
  <2>5. PastInv(r)' /\ AnnouncedInv(r)' /\ SuccessInv(r)'
    BY <2>2, <2>3 DEF PastInv, AnnouncedInv, SuccessInv
  <2>6. RetryInv(r)'
    <3>1. retryOf'[r] = others
      BY <1>t, <2>1
    <3>2. \A q \in others : relayPc'[q] = relayPc[q]
      BY <1>t, <2>1, <2>2
    <3> QED BY <2>3, <3>1, <3>2 DEF RetryInv
  <2>7. others \in SUBSET Relays /\ asked' = asked \cup {}
    BY <2>1
  <2> HIDE DEF others
  <2> QED BY <2>1, <2>2, <2>3, <2>4, <2>5, <2>6, <2>7, RelayActs
<1>2. CASE TooLarge(r)
  <2>1. Row(r, "rejected_payload_too_large", Presumed("in_allowlist")) \in AuditRows
    BY <1>r DEF Outcomes, Gates
  <2>2. relayPc[r] = "checked" /\ LogGrows /\ Exit(r, 1) /\ UNCHANGED <<retryOf, asked>>
    BY <1>2, <1>t, <2>1, RowAdds DEF TooLarge
  <2> QED BY <2>2, <1>e DEF Exits
<1>3. CASE SecretFound(r)
  <2>1. Row(r, "rejected_secret_detected", Presumed("rejected_allowlist_empty")) \in AuditRows
    BY <1>r DEF Outcomes, Gates
  <2>2. relayPc[r] = "checked" /\ LogGrows /\ Exit(r, 1) /\ UNCHANGED <<retryOf, asked>>
    BY <1>3, <1>t, <2>1, RowAdds DEF SecretFound
  <2> QED BY <2>2, <1>e DEF Exits
<1>4. CASE NotAllowed(r)
  <2>1. Row(r, GateDecision, GateDecision) \in AuditRows
    BY <1>r, <1>4 DEF NotAllowed
  <2>2. relayPc[r] = "checked" /\ LogGrows /\ Exit(r, 1) /\ UNCHANGED <<retryOf, asked>>
    BY <1>4, <1>t, <2>1, RowAdds DEF NotAllowed
  <2> QED BY <2>2, <1>e DEF Exits
<1>5. CASE PassGate(r)
  <2>1. /\ relayPc[r] = "checked" /\ LogGrows /\ UNCHANGED <<relayExit, retryOf, asked>>
        /\ relayPc' = [relayPc EXCEPT ![r] = "gated"] /\ GateOpen
    BY <1>5, <1>t DEF PassGate, GoTo, NoRow, UnchangedInputs, LogGrows, GateOpen
  <2>2. ~AskedBy(r)
    BY <1>i, <2>1 DEF PastInv
  <2> QED BY <2>1, <2>2, <1>g
<1>6. CASE DryRun(r)
  <2>1. Row(r, "dry_run_passed", "skipped_for_dry_run") \in AuditRows
    BY <1>r DEF Outcomes, Gates
  <2>2. relayPc[r] = "gated" /\ command.dry /\ LogGrows /\ Exit(r, 0) /\ UNCHANGED <<retryOf, asked>>
    BY <1>6, <1>t, <2>1, RowAdds DEF DryRun
  <2> QED BY <2>2, <1>e DEF Exits
<1>p. ASSUME NEW i \in Prior PROVE i \in DOMAIN audit /\ audit[i].outcome = "dispatched"
  BY <1>t, <1>p, LenProperties DEF Prior
<1>7. CASE FindsPrior(r)
  <2>1. Row(r, "dispatched_idempotent", GateDecision) \in AuditRows
    BY <1>r DEF Outcomes
  <2>2. /\ relayPc[r] = "gated" /\ LogGrows /\ Exit(r, 0) /\ UNCHANGED <<retryOf, asked>>
        /\ Prior # {}
    BY <1>7, <1>t, <2>1, RowAdds DEF FindsPrior
  <2>3. \E i \in DOMAIN audit' : audit'[i].outcome = "dispatched"
    <3>1. PICK i \in Prior : TRUE
      BY <2>2
    <3> QED BY <1>p, <1>k, <2>2, <3>1
  <2> QED BY <2>2, <2>3, <1>e DEF Exits
<1>8. CASE FindsNone(r)
  <2>1. /\ relayPc[r] = "gated" /\ LogGrows /\ UNCHANGED <<relayExit, retryOf, asked>>
        /\ relayPc' = [relayPc EXCEPT ![r] = "announce"] /\ ~command.dry
        /\ diskFailed' = (diskFailed \/ Prior # {}) /\ audit' = audit
    BY <1>8, <1>t DEF FindsNone, GoTo, UnchangedInputs, LogGrows
  <2>2. ~AskedBy(r) /\ GateOpen
    BY <1>i, <2>1 DEF PastInv
  <2>3. ~(LogIsWhole' /\ \E q \in retryOf[r] : relayExit[q] = 0)
    <3> SUFFICES ASSUME LogIsWhole', NEW q \in retryOf[r], relayExit[q] = 0 PROVE FALSE
      OBVIOUS
    <3>1. LogIsWhole /\ q \in Relays /\ Prior = {} /\ aged = 0
      BY <1>t, <1>k, <2>1 DEF LogIsWhole, LogGrows
    <3>2. \E i \in DOMAIN audit : audit[i].outcome = "dispatched"
      BY <2>1, <3>1 DEF RelayInv, SuccessInv
    <3>3. PICK i \in DOMAIN audit : audit[i].outcome = "dispatched"
      BY <3>2
    <3>4. i \in (aged + 1)..Len(audit)
      BY <1>t, <3>1, LenProperties
    <3> QED BY <3>1, <3>3, <3>4 DEF Prior
  <2> QED BY <2>1, <2>2, <2>3, <1>g
<1>9. CASE Announce(r)
  <2>1. Row(r, "dispatch_inflight", GateDecision) \in AuditRows
    BY <1>r DEF Outcomes
  <2>2. relayPc[r] = "announce" /\ LogGrows /\ UNCHANGED <<retryOf, asked>>
    BY <1>9, <1>t, <2>1, RowAdds DEF Announce, AppendRow
  <2>3. GateOpen /\ ~command.dry /\ ~AskedBy(r)
    BY <1>i, <2>2 DEF PastInv
  <2>4. CASE Exit(r, 75)
    BY <2>2, <2>4, <1>e DEF Exits
  <2>5. CASE Written(Row(r, "dispatch_inflight", GateDecision)) /\ GoTo(r, "key")
    <3>1. \E i \in DOMAIN audit' : \/ audit'[i] = Row(r, "dispatch_inflight", GateDecision)
                                  \/ audit'[i] = Unreadable
      BY <1>t, <2>1, <2>5, RowIsThere
    <3>2. ~(LogIsWhole' /\ \E q \in retryOf[r] : relayExit[q] = 0)
      BY <1>i, <1>k, <2>2 DEF RetryInv
    <3>3. relayPc' = [relayPc EXCEPT ![r] = "key"] /\ UNCHANGED relayExit
      BY <2>5 DEF GoTo
    <3> QED BY <2>2, <2>3, <3>1, <3>2, <3>3, <1>g
  <2> QED BY <1>9, <2>4, <2>5 DEF Announce
<1>10. CASE ReadKey(r)
  <2>1. Row(r, "cloud_auth_error", GateDecision) \in AuditRows
    BY <1>r DEF Outcomes, CloudExits
  <2>2. relayPc[r] = "key" /\ LogGrows /\ UNCHANGED <<retryOf, asked>>
    BY <1>10, <1>t, <2>1, RowAdds DEF ReadKey
  <2>3. CASE Exit(r, 77)
    BY <2>2, <2>3, <1>e DEF Exits
  <2>4. CASE GoTo(r, "post") /\ NoRow
    <3>1. relayPc' = [relayPc EXCEPT ![r] = "post"] /\ UNCHANGED relayExit /\ audit' = audit
      BY <2>4 DEF GoTo, NoRow
    <3>2. ~(LogIsWhole' /\ \E q \in retryOf[r] : relayExit[q] = 0)
      BY <1>i, <1>k, <2>2 DEF RetryInv
    <3>3. GateOpen /\ ~command.dry /\ ~AskedBy(r)
      BY <1>i, <2>2 DEF PastInv
    <3>4. \E i \in DOMAIN audit' : \/ audit'[i] = Row(r, "dispatch_inflight", GateDecision)
                                  \/ audit'[i] = Unreadable
      BY <1>i, <2>2, <3>1 DEF AnnouncedInv
    <3> QED BY <2>2, <3>1, <3>2, <3>3, <3>4, <1>g
  <2> QED BY <1>10, <2>3, <2>4 DEF ReadKey
<1>11. CASE PostRelay(r)
  <2>1. \A o \in DOMAIN CloudExits : /\ Row(r, o, GateDecision) \in AuditRows
                                    /\ CloudExits[o] \in Exits /\ CloudExits[o] # 0
                                    /\ CloudExits[o] # NoCode
    <3>1. \A o \in DOMAIN CloudExits : Row(r, o, GateDecision) \in AuditRows
      BY <1>r DEF Outcomes
    <3>2. \A o \in DOMAIN CloudExits : CloudExits[o] \in {77, 100, 78, 102, 75}
      BY DEF CloudExits
    <3> QED BY <3>1, <3>2 DEF Exits, NoCode
  <2>2. relayPc[r] = "post" /\ UNCHANGED retryOf
    BY <1>11 DEF PostRelay
  <2>3. PICK pc \in {"record", "ended"}, code \in Exits, accepted \in BOOLEAN :
           /\ asked' = asked \cup {[relay |-> r, accepted |-> accepted]} /\ LogGrows
           /\ relayPc' = [relayPc EXCEPT ![r] = pc] /\ relayExit' = [relayExit EXCEPT ![r] = code]
           /\ code # 0 /\ (code # NoCode => pc = "ended")
    <3>1. CASE /\ asked' = asked \cup {[relay |-> r, accepted |-> TRUE]}
               /\ GoTo(r, "record") /\ NoRow
      <4>1. LogGrows
        BY <1>11, <1>t, <3>1 DEF PostRelay, NoRow, UnchangedInputs, LogGrows
      <4>2. relayExit[r] = NoCode /\ relayExit' = [relayExit EXCEPT ![r] = relayExit[r]]
        BY <1>t, <1>i, <2>2, <3>1 DEF SuccessInv, GoTo
      <4> QED BY <1>t, <3>1, <4>1, <4>2 DEF GoTo, NoCode, Exits
    <3>2. CASE \E result \in DOMAIN CloudExits, accepted \in BOOLEAN :
                 /\ asked' = asked \cup {[relay |-> r, accepted |-> accepted]}
                 /\ AppendRow(Row(r, result, GateDecision))
                 /\ Exit(r, CloudExits[result])
      <4>1. PICK result \in DOMAIN CloudExits, accepted \in BOOLEAN :
                 /\ asked' = asked \cup {[relay |-> r, accepted |-> accepted]}
                 /\ AppendRow(Row(r, result, GateDecision))
                 /\ Exit(r, CloudExits[result])
        BY <3>2
      <4>2. LogGrows
        BY <1>11, <1>t, <2>1, <4>1, RowAdds DEF PostRelay
      <4> QED BY <2>1, <4>1, <4>2 DEF Exit
    <3> QED BY <1>11, <3>1, <3>2 DEF PostRelay
  <2>4. relayPc'[r] = pc /\ relayExit'[r] = code /\ AskedBy(r)'
    <3>1. [relay |-> r, accepted |-> accepted] \in asked'
      BY <2>3
    <3> QED BY <1>t, <2>3, <3>1 DEF AskedBy
  <2>5. GateOpen /\ ~command.dry /\ ~(LogIsWhole' /\ \E q \in retryOf[r] : relayExit[q] = 0)
    BY <1>i, <1>k, <2>2, <2>3 DEF PastInv, RetryInv
  <2>6. PastInv(r)'
    BY <1>k, <2>3, <2>4, <2>5 DEF PastInv
  <2>7. AnnouncedInv(r)'
    BY <1>i, <1>k, <2>2, <2>3 DEF AnnouncedInv
  <2>8. SuccessInv(r)'
    BY <2>3, <2>4 DEF SuccessInv
  <2>9. RetryInv(r)'
    <3>1. \A q \in retryOf[r] : q # r /\ q \in Relays
      BY <1>t, <1>i, <2>2 DEF RetryInv
    <3>2. \A q \in retryOf[r] : relayPc'[q] = relayPc[q] /\ relayExit'[q] = relayExit[q]
      BY <1>t, <2>3, <3>1
    <3> QED BY <1>i, <2>2, <2>5, <3>2 DEF RetryInv
  <2>10. retryOf' = [retryOf EXCEPT ![r] = retryOf[r]] /\ retryOf[r] \in SUBSET Relays
         /\ {[relay |-> r, accepted |-> accepted]} \in SUBSET [relay : {r}, accepted : BOOLEAN]
    BY <1>t, <2>2, <2>3
  <2> QED BY <2>2, <2>3, <2>6, <2>7, <2>8, <2>9, <2>10, RelayActs
<1>12. CASE Record(r)
  <2>1. Row(r, "dispatched", GateDecision) \in AuditRows
    BY <1>r DEF Outcomes
  <2>2. relayPc[r] = "record" /\ LogGrows /\ Exit(r, 0) /\ UNCHANGED <<retryOf, asked>>
    BY <1>12, <1>t, <2>1, RowAdds DEF Record
  <2>3. ASSUME LogIsWhole' PROVE \E i \in DOMAIN audit' : audit'[i].outcome = "dispatched"
    <3>1. Written(Row(r, "dispatched", GateDecision))
      BY <1>12, <2>3 DEF Record, AppendRow, AppendFails, LogIsWhole
    <3>2. PICK i \in DOMAIN audit' : \/ audit'[i] = Row(r, "dispatched", GateDecision)
                                    \/ audit'[i] = Unreadable
      BY <1>t, <2>1, <3>1, RowIsThere
    <3> QED BY <2>3, <3>2 DEF LogIsWhole, Row
  <2> QED BY <2>2, <2>3, <1>e DEF Exits
<1>13. CASE Kill(r)
  <2>1. /\ relayPc[r] \notin {"ended", "killed"} /\ LogGrows
        /\ relayPc' = [relayPc EXCEPT ![r] = "killed"] /\ UNCHANGED <<relayExit, retryOf, asked>>
    BY <1>13, <1>t DEF Kill, UnchangedInputs, LogGrows
  <2> QED BY <2>1, <1>g
<1> QED BY <1>1, <1>2, <1>3, <1>4, <1>5, <1>6, <1>7, <1>8, <1>9, <1>10, <1>11, <1>12, <1>13
        DEF RelayStep

LEMMA RelayHolds == RelaySpec => []RelayInv
<1>1. RelayInit => RelayInv
  <2> SUFFICES ASSUME RelayInit PROVE RelayInv
    OBVIOUS
  <2>0. audit = <<>> /\ Len(audit) = 0 /\ DOMAIN audit = {} /\ audit \in Seq(AuditRows)
    BY EmptySeq DEF RelayInit
  <2>1. RelayTypeOK
    <3>1. /\ relayPc \in [Relays -> {"idle", "checked", "gated", "scan", "announce", "key",
                                     "post", "record", "ended", "killed"}]
          /\ relayExit \in [Relays -> Exits]
          /\ retryOf \in [Relays -> SUBSET Relays]
      BY DEF RelayInit, Exits
    <3>2. aged \in 0..Len(audit) /\ \A i \in DOMAIN audit : audit[i].relay \in Relays \cup {"none"}
      BY <2>0 DEF RelayInit
    <3> QED BY <3>1, <3>2 DEF RelayInit, RelayTypeOK
  <2>2. \A r \in Relays : PastInv(r) /\ AnnouncedInv(r) /\ SuccessInv(r) /\ RetryInv(r)
    BY DEF RelayInit, PastInv, AnnouncedInv, SuccessInv, RetryInv, AskedBy, NoCode
  <2> QED BY <2>0, <2>1, <2>2 DEF RelayInv
<1>2. RelayInv /\ [RelayNext]_relayVars => RelayInv'
  <2> SUFFICES ASSUME RelayInv, [RelayNext]_relayVars PROVE RelayInv'
    OBVIOUS
  <2>1. CASE WindowPasses
    <3>1. /\ UNCHANGED <<relayConfig, command, relayPc, relayExit, retryOf, audit, torn,
                         diskFailed, asked>>
          /\ aged # Len(audit) /\ aged' = Len(audit)
      BY <2>1 DEF WindowPasses
    <3>2. Len(audit) \in Nat /\ aged \in 0..Len(audit) /\ aged' # 0
      BY <3>1, LenProperties DEF RelayInv, RelayTypeOK
    <3>3. RelayTypeOK'
      BY <3>1, <3>2 DEF RelayInv, RelayTypeOK
    <3>4. ~LogIsWhole'
      BY <3>2 DEF LogIsWhole
    <3>5. \A r \in Relays : PastInv(r)' /\ AnnouncedInv(r)' /\ SuccessInv(r)' /\ RetryInv(r)'
      BY <3>1, <3>4 DEF RelayInv, PastInv, AnnouncedInv, SuccessInv, RetryInv, AskedBy, GateOpen,
         ScanFinds, FallbackFinds, InAllowlist, GateDecision
    <3> QED BY <3>1, <3>3, <3>5 DEF RelayInv
  <2>2. CASE UNCHANGED relayVars
    BY <2>2 DEF relayVars, RelayInv, RelayTypeOK, PastInv, AnnouncedInv, SuccessInv, RetryInv,
       AskedBy, GateOpen, ScanFinds, FallbackFinds, InAllowlist, GateDecision, LogIsWhole
  <2> QED BY <2>1, <2>2, RelayProgress DEF RelayNext, RelaysOver
<1> QED BY <1>1, <1>2, PTL DEF RelaySpec

\* The state of the relays and of their audit log keeps its types.
THEOREM RelayTypeCorrect == RelaySpec => []RelayTypeOK
<1>1. RelayInv => RelayTypeOK
  BY DEF RelayInv
<1> QED BY <1>1, RelayHolds, PTL

\* Whichever relays run, fail or are killed, a request that reached Cursor passed the
\* gate and has the row that announces it, or the line that swallowed that row.
THEOREM RequestsAreAccountedFor == RelaySpec => []RequestIsAccountedFor
<1>1. RelayInv => RequestIsAccountedFor
  <2> SUFFICES ASSUME RelayInv, NEW a \in asked
               PROVE  /\ \E i \in DOMAIN audit :
                            \/ audit[i] = Row(a.relay, "dispatch_inflight", GateDecision)
                            \/ audit[i] = Unreadable
                      /\ ~command.dry
                      /\ command.text # "shape"
                      /\ GateDecision \in {"in_allowlist", "override_confirm_allowlist"}
    BY DEF RequestIsAccountedFor
  <2>1. a.relay \in Relays /\ AskedBy(a.relay)
    BY DEF RelayInv, RelayTypeOK, AskedBy
  <2>2. PastInv(a.relay) /\ AnnouncedInv(a.relay)
    BY <2>1 DEF RelayInv
  <2>3. GateOpen /\ ~command.dry
    BY <2>1, <2>2 DEF PastInv
  <2> QED BY <2>1, <2>2, <2>3 DEF AnnouncedInv, GateOpen, GateDecision, ScanFinds, FallbackFinds
<1> QED BY <1>1, RelayHolds, PTL

\* A relay that starts after another has reported success sends nothing, while the log
\* that tells it so is whole and young.
THEOREM SuccessesAreNotRepeated == RelaySpec => []SuccessIsNotRepeated
<1>1. RelayInv => SuccessIsNotRepeated
  BY DEF RelayInv, SuccessIsNotRepeated, RetryInv, LogIsWhole, AskedBy
<1> QED BY <1>1, RelayHolds, PTL
-----------------------------------------------------------------------------
(* The request *)

\* What the catalog says may be retried, and it says so of nothing else.
EntryIsRight(e) ==
    \/ e.retry = TRUE /\ e.http \subseteq {429, 500, 502, 503, 504}
    \/ e.retry = FALSE /\ e.http \subseteq 400..499

LEMMA AccessErrorsAreRight ==
    \A i \in 1..10 : EntryIsRight(AccessErrors[i])
<1> DEFINE E(i) == AccessErrors[i]
<1>1. /\ E(1).http = {401} /\ E(2).http = {401} /\ E(3).http = {403} /\ E(4).http = {403}
      /\ E(5).http = {403} /\ E(6).http = {404} /\ E(7).http = {409} /\ E(8).http = {409}
      /\ E(9).http = {409} /\ E(10).http = {410}
  BY DEF AccessErrors, Entry
<1>2. /\ E(1).retry = FALSE /\ E(2).retry = FALSE /\ E(3).retry = FALSE /\ E(4).retry = FALSE
      /\ E(5).retry = FALSE /\ E(6).retry = FALSE /\ E(7).retry = FALSE /\ E(8).retry = FALSE
      /\ E(9).retry = FALSE /\ E(10).retry = FALSE
  BY DEF AccessErrors, Entry
<1> HIDE DEF E
<1>3. \A i \in 1..10 : E(i).http \subseteq 400..499 /\ E(i).retry = FALSE
  BY <1>1, <1>2
<1> QED BY <1>3, ZenonT(60) DEF E, EntryIsRight

LEMMA IntegrationErrorsAreRight ==
    \A i \in 1..6 : EntryIsRight(IntegrationErrors[i])
<1> DEFINE E(i) == IntegrationErrors[i]
<1>1. /\ E(1).http = {422, 400, 403} /\ E(2).http = {422, 403} /\ E(3).http = {422, 403}
      /\ E(4).http = {400} /\ E(5).http = {400} /\ E(6).http = {400}
  BY DEF IntegrationErrors, Entry
<1>2. /\ E(1).retry = FALSE /\ E(2).retry = FALSE /\ E(3).retry = FALSE /\ E(4).retry = FALSE
      /\ E(5).retry = FALSE /\ E(6).retry = FALSE
  BY DEF IntegrationErrors, Entry
<1> HIDE DEF E
<1>3. \A i \in 1..6 : E(i).http \subseteq 400..499 /\ E(i).retry = FALSE
  BY <1>1, <1>2
<1> QED BY <1>3, ZenonT(60) DEF E, EntryIsRight

LEMMA OtherErrorsAreRight ==
    \A i \in 1..3 : EntryIsRight(OtherErrors[i])
<1> DEFINE E(i) == OtherErrors[i]
<1>1. E(1).http = {400, 422} /\ E(2).http = {429} /\ E(3).http = {500, 502, 503, 504}
  BY DEF OtherErrors, Entry
<1>2. E(1).retry = FALSE /\ E(2).retry = TRUE /\ E(3).retry = TRUE
  BY DEF OtherErrors, Entry
<1> HIDE DEF E
<1>3. /\ E(1).http \subseteq 400..499
      /\ E(2).http \subseteq {429, 500, 502, 503, 504} /\ E(3).http \subseteq {429, 500, 502, 503, 504}
  BY <1>1
<1>a. EntryIsRight(E(1))
  BY <1>2, <1>3, ZenonT(60) DEF EntryIsRight
<1>b. EntryIsRight(E(2))
  BY <1>2, <1>3, ZenonT(60) DEF EntryIsRight
<1>c. EntryIsRight(E(3))
  BY <1>2, <1>3, ZenonT(60) DEF EntryIsRight
<1>4. EntryIsRight(E(1)) /\ EntryIsRight(E(2)) /\ EntryIsRight(E(3))
  BY <1>a, <1>b, <1>c
<1>5. \A i \in 1..3 : i = 1 \/ i = 2 \/ i = 3
  OBVIOUS
<1> QED BY <1>4, <1>5, Zenon DEF E

\* The entries of the catalog are right, whichever part they are in.
LEMMA CatalogIsRight ==
    /\ DOMAIN Catalog = 1..19
    /\ \A i \in DOMAIN Catalog : EntryIsRight(Catalog[i])
<1> DEFINE A == AccessErrors
           B == IntegrationErrors
           C == OtherErrors
           S == {A[1], A[2], A[3], A[4], A[5], A[6], A[7], A[8], A[9], A[10],
                 B[1], B[2], B[3], B[4], B[5], B[6], C[1], C[2], C[3]}
<1>1. Len(A) = 10 /\ Len(B) = 6 /\ Len(C) = 3
  BY DEF AccessErrors, IntegrationErrors, OtherErrors
<1>2. A \in Seq({A[1], A[2], A[3], A[4], A[5], A[6], A[7], A[8], A[9], A[10]})
  BY DEF AccessErrors
<1>3. B \in Seq({B[1], B[2], B[3], B[4], B[5], B[6]})
  BY DEF IntegrationErrors
<1>4. C \in Seq({C[1], C[2], C[3]})
  BY DEF OtherErrors
<1>5. \A e \in S : EntryIsRight(e)
  <2>1. \A i \in 1..10 : EntryIsRight(A[i])
    BY AccessErrorsAreRight
  <2>2. \A i \in 1..6 : EntryIsRight(B[i])
    BY IntegrationErrorsAreRight
  <2>3. \A i \in 1..3 : EntryIsRight(C[i])
    BY OtherErrorsAreRight
  <2> HIDE DEF A, B, C
  <2> QED BY <2>1, <2>2, <2>3
<1>6. Catalog = (A \o B) \o C
  BY DEF Catalog
<1> HIDE DEF A, B, C
<1>7. A \in Seq(S) /\ B \in Seq(S) /\ C \in Seq(S)
  BY <1>2, <1>3, <1>4
<1> HIDE DEF S
<1>8. A \o B \in Seq(S) /\ Len(A \o B) = Len(A) + Len(B)
  BY <1>7, ConcatProperties
<1>9. (A \o B) \o C \in Seq(S) /\ Len((A \o B) \o C) = Len(A \o B) + Len(C)
  BY <1>7, <1>8, ConcatProperties
<1>10. Catalog \in Seq(S) /\ Len(Catalog) = 19
  BY <1>1, <1>6, <1>8, <1>9
<1>11. DOMAIN Catalog = 1..19 /\ \A i \in DOMAIN Catalog : Catalog[i] \in S
  BY <1>10, LenProperties, ElementOfSeq
<1> QED BY <1>5, <1>11

\* Every set of natural numbers that is not empty has a least one.
LessThan == {p \in Nat \X Nat : p[1] < p[2]}

LEMMA LeastNatural ==
    ASSUME NEW T, T \subseteq Nat, T # {}
    PROVE  \E m \in T : \A k \in T : m <= k
<1>1. IsWellFoundedOn(LessThan, Nat)
  BY NatLessThanWellFounded DEF OpToRel, LessThan
<1>2. PICK m \in T : \A k \in T : ~(<<k, m>> \in LessThan)
  BY <1>1, WFMin
<1>3. \A k \in T : ~(k < m)
  BY <1>2 DEF LessThan
<1> QED BY <1>3

\* One of the entries that match a response is the best.
LEMMA BestIsCandidate ==
    ASSUME NEW r, Candidates(r) # {}
    PROVE  Best(r) \in Candidates(r)
<1> DEFINE score(i) == Score(Catalog[i], r)
           rank(i) == 100 * (20 - score(i)) + i
           T == {rank(i) : i \in Candidates(r)}
<1>1. \A i \in Candidates(r) : score(i) \in {1, 6, 11, 16}
  <2> SUFFICES ASSUME NEW i \in Candidates(r) PROVE score(i) \in {1, 6, 11, 16}
    OBVIOUS
  <2>1. PICK a \in {0, 10}, b \in {0, 5} : score(i) = 1 + a + b
    <3>1. (IF r.code # "" THEN 10 ELSE 0) \in {0, 10}
      OBVIOUS
    <3>2. (IF Catalog[i].pattern # "" /\ r.msg # "" THEN 5 ELSE 0) \in {0, 5}
      OBVIOUS
    <3> QED BY <3>1, <3>2 DEF Score
  <2> HIDE DEF score
  <2> QED BY <2>1
<1>2. \A i \in Candidates(r) : i \in 1..19
  BY CatalogIsRight DEF Candidates
<1> HIDE DEF score
<1>3. \A i \in Candidates(r) : rank(i) \in Nat
  BY <1>1, <1>2
<1>4. PICK i \in Candidates(r) : \A j \in Candidates(r) : rank(i) <= rank(j)
  <2>1. T \subseteq Nat /\ T # {}
    BY <1>3
  <2>2. PICK m \in T : \A k \in T : m <= k
    BY <2>1, LeastNatural
  <2> QED BY <2>2
<1>5. ASSUME NEW j \in Candidates(r)
      PROVE  score(i) > score(j) \/ (score(i) = score(j) /\ i <= j)
  <2>1. score(i) \in {1, 6, 11, 16} /\ score(j) \in {1, 6, 11, 16} /\ i \in 1..19 /\ j \in 1..19
    BY <1>1, <1>2
  <2>2. 100 * (20 - score(i)) + i <= 100 * (20 - score(j)) + j
    BY <1>4
  <2> QED BY <2>1, <2>2
<1>6. \E k \in Candidates(r) : \A j \in Candidates(r) :
         \/ Score(Catalog[k], r) > Score(Catalog[j], r)
         \/ Score(Catalog[k], r) = Score(Catalog[j], r) /\ k <= j
  BY <1>5 DEF score
<1> QED BY <1>6, Zenon DEF Best

\* What an error response is taken for.
LEMMA MappedRightly ==
    ASSUME NEW r \in Responses
    PROVE  /\ MapHttpError(r).retry \in BOOLEAN
           /\ r.status >= 500 => MapHttpError(r).retry
           /\ MapHttpError(r).retry => r.status >= 500 \/ r.status = 429
<1>1. r.status \in {200, 400, 401, 403, 404, 408, 409, 410, 422, 429, 500, 501, 503}
  BY DEF Responses
<1>2. CASE r.status = 422 /\ (Candidates(r) = {} \/ Score(Catalog[Best(r)], r) < 5)
  <2>1. MapHttpError(r) = [class |-> "validation", retry |-> FALSE]
    BY <1>2, Zenon DEF MapHttpError
  <2>2. MapHttpError(r).retry = FALSE
    BY <2>1
  <2>3. ~(r.status >= 500)
    BY <1>2
  <2> QED BY <2>2, <2>3
<1>3. CASE ~(r.status = 422 /\ (Candidates(r) = {} \/ Score(Catalog[Best(r)], r) < 5))
           /\ Candidates(r) = {}
  <2>1. MapHttpError(r) = [class |-> "generic", retry |-> r.status >= 500]
    BY <1>3, Zenon DEF MapHttpError, Uncataloged
  <2> DEFINE m == MapHttpError(r)
             late == r.status >= 500
  <2>4. m.retry = late /\ late \in BOOLEAN
    BY <2>1
  <2> HIDE DEF m
  <2>2. late => m.retry = TRUE
    BY <2>4
  <2>3. ~late => m.retry = FALSE
    BY <2>4
  <2> HIDE DEF late
  <2>5. m.retry \in BOOLEAN /\ (late => m.retry) /\ (m.retry => late)
    BY <2>2, <2>3
  <2> QED BY <2>5 DEF m, late
<1>4. CASE ~(r.status = 422 /\ (Candidates(r) = {} \/ Score(Catalog[Best(r)], r) < 5))
           /\ Candidates(r) # {}
  <2> DEFINE e == Catalog[Best(r)]
  <2>1. EntryIsRight(e) /\ r.status \in e.http
    BY <1>4, BestIsCandidate, CatalogIsRight DEF Candidates, Matches
  <2>2. MapHttpError(r) = [class |-> e.class, retry |-> e.retry]
    BY <1>4, Zenon DEF MapHttpError
  <2> HIDE DEF e
  <2>3. MapHttpError(r).retry = e.retry
    BY <2>2
  <2>4. CASE e.retry = TRUE /\ e.http \subseteq {429, 500, 502, 503, 504}
    <3>1. r.status >= 500 \/ r.status = 429
      BY <2>1, <2>4
    <3> QED BY <2>3, <2>4, <3>1, ZenonT(60)
  <2>5. CASE e.retry = FALSE /\ e.http \subseteq 400..499
    <3>1. ~(r.status >= 500)
      BY <2>1, <2>5
    <3> QED BY <2>3, <2>5, <3>1
  <2> QED BY <2>1, <2>4, <2>5 DEF EntryIsRight
<1> QED BY <1>2, <1>3, <1>4

\* Every delay is a natural number of milliseconds.
LEMMA BackoffIsNatural ==
    ASSUME NEW k \in 0..MaxRetries, NEW asked0 \in Nat \cup {-1}
    PROVE  Backoff(k, asked0) \subseteq Nat
<1> DEFINE capped(ms) == IF ms < MaxBackoff THEN ms ELSE MaxBackoff
<1>1. \A ms \in Nat : capped(ms) \in Nat
  BY BackoffAssumption
<1>2. \A ms \in Nat : Jitter(ms) \subseteq Nat
  BY DEF Jitter
<1>3. 2^k \in Nat
  BY PowersAssumption
<1>4. BaseBackoff * 2^k \in Nat
  BY <1>3, BackoffAssumption
<1>5. Backoff(k, asked0) = IF asked0 >= 0 THEN {capped(asked0)} ELSE Jitter(capped(BaseBackoff * 2^k))
  BY Zenon DEF Backoff
<1> HIDE DEF capped
<1> QED BY <1>1, <1>2, <1>4, <1>5

Brackets == {"queued_quota_exceeded", "exit success", "exit exhausted"}

\* The error that the caller gets is what the last response is taken for.
RequestInv ==
    /\ RequestTypeOK
    /\ waited \in Seq(Nat) /\ bracket \in Seq(Brackets)
    /\ reqPc = "answered" => response \in Responses
    /\ (reqPc = "raised" /\ response.status # 0) =>
           response \in Responses /\ error = MapHttpError(response)

LEMMA RequestHolds == RequestSpec => []RequestInv
<1>1. RequestInit => RequestInv
  <2> SUFFICES ASSUME RequestInit PROVE RequestInv
    OBVIOUS
  <2>1. waited = <<>> /\ bracket = <<>> /\ attempt = 0 /\ reqPc = "asking" /\ response = NoResponse
    BY DEF RequestInit
  <2>2. waited \in Seq(Nat) /\ bracket \in Seq(Brackets) /\ Len(waited) = 0 /\ DOMAIN bracket = {}
    BY <2>1, EmptySeq
  <2>3. attempt \in 0..MaxRetries
    BY <2>1, BackoffAssumption
  <2>4. error.retry \in BOOLEAN
    BY DEF RequestInit, NoError
  <2>5. RequestTypeOK
    <3>1. (\A i \in 1..attempt : waited[i] \in Nat) /\ Len(waited) = attempt
      BY <2>1, <2>2
    <3>2. \A i \in DOMAIN bracket :
             bracket[i] \in {"queued_quota_exceeded", "exit success", "exit exhausted"}
      BY <2>2
    <3> QED BY <2>1, <2>3, <2>4, <3>1, <3>2 DEF RequestTypeOK
  <2> QED BY <2>1, <2>2, <2>5 DEF RequestInv
<1>2. RequestInv /\ [RequestNext]_requestVars => RequestInv'
  <2> SUFFICES ASSUME RequestInv, [RequestNext]_requestVars PROVE RequestInv'
    OBVIOUS
  <2>t. /\ attempt \in 0..MaxRetries /\ Len(waited) = attempt /\ waited \in Seq(Nat)
        /\ bracket \in Seq(Brackets) /\ response \in Responses \cup {NoResponse}
        /\ error.retry \in BOOLEAN /\ MaxRetries \in Nat
    BY BackoffAssumption DEF RequestInv, RequestTypeOK
  <2>n. <<"queued_quota_exceeded">> \in Seq(Brackets) /\ <<"exit exhausted">> \in Seq(Brackets)
    <3>1. "queued_quota_exceeded" \in Brackets /\ "exit exhausted" \in Brackets
      BY DEF Brackets
    <3>2. \A b \in Brackets : <<b>> \in Seq(Brackets)
      OBVIOUS
    <3> QED BY <3>1, <3>2
  \* What a step has to say of the types that it changes.
  <2>s. ASSUME reqPc' \in {"asking", "answered", "returned", "raised"},
               attempt' \in 0..MaxRetries, waited' \in Seq(Nat), Len(waited') = attempt',
               bracket' \in Seq(Brackets), response' \in Responses \cup {NoResponse},
               error'.retry \in BOOLEAN,
               reqPc' = "answered" => response' \in Responses,
               (reqPc' = "raised" /\ response'.status # 0) =>
                  response' \in Responses /\ error' = MapHttpError(response')
        PROVE  RequestInv'
    <3>1. \A i \in 1..attempt' : waited'[i] \in Nat
      BY <2>s, ElementOfSeq
    <3>2. \A i \in DOMAIN bracket' : bracket'[i] \in Brackets
      BY <2>s, LenProperties, ElementOfSeq
    <3>3. \A i \in DOMAIN bracket' :
             bracket'[i] \in {"queued_quota_exceeded", "exit success", "exit exhausted"}
      BY <3>2 DEF Brackets
    <3>4. RequestTypeOK'
      BY <2>s, <3>1, <3>3 DEF RequestTypeOK
    <3> QED BY <2>s, <3>4 DEF RequestInv
  <2>1. CASE Ask
    <3>0. UNCHANGED <<attempt, waited, bracket>>
      BY <2>1 DEF Ask
    <3>1. CASE reqPc' = "answered" /\ response' \in Responses /\ UNCHANGED error
      BY <2>s, <2>t, <3>0, <3>1
    <3>2. CASE /\ reqPc' = "raised" /\ response' = NoResponse
               /\ error' = [class |-> "transport", retry |-> TRUE]
      <4>1. error'.retry = TRUE /\ response'.status = 0
        BY <3>2 DEF NoResponse
      <4> QED BY <2>s, <2>t, <3>0, <3>2, <4>1
    <3> QED BY <2>1, <3>1, <3>2 DEF Ask
  <2>2. CASE Succeed
    <3>1. bracket' \in Seq(Brackets)
      <4>1. "exit success" \in Brackets
        BY DEF Brackets
      <4> QED BY <2>2, <2>t, <4>1, AppendProperties DEF Succeed
    <3> QED BY <2>2, <2>s, <2>t, <3>1 DEF Succeed
  <2>3. CASE WaitAndRetry
    <3>1. /\ reqPc = "answered" /\ attempt < MaxRetries
          /\ attempt' = attempt + 1 /\ reqPc' = "asking" /\ response' = NoResponse /\ UNCHANGED error
      BY <2>3 DEF WaitAndRetry
    <3>2. PICK ms \in Backoff(attempt, response.retryAfter) : waited' = Append(waited, ms)
      BY <2>3 DEF WaitAndRetry
    <3>3. response.retryAfter \in Nat \cup {-1}
      <4>1. response \in Responses
        BY <3>1 DEF RequestInv
      <4>2. response.retryAfter \in ServerWaits \cup {-1}
        BY <4>1 DEF Responses
      <4> QED BY <4>2, BackoffAssumption
    <3>4. ms \in Nat
      BY <2>t, <3>2, <3>3, BackoffIsNatural
    <3>5. waited' \in Seq(Nat) /\ Len(waited') = attempt'
      BY <2>t, <3>1, <3>2, <3>4, AppendProperties
    <3>6. bracket' = <<"queued_quota_exceeded">> \/ bracket' = bracket
      BY <2>3 DEF WaitAndRetry
    <3>7. bracket' \in Seq(Brackets)
      BY <2>t, <2>n, <3>6
    <3>8. attempt' \in 0..MaxRetries
      BY <2>t, <3>1
    <3> QED BY <2>s, <2>t, <3>1, <3>5, <3>7, <3>8
  <2>4. ASSUME reqPc = "answered", NEW marks \in Seq(Brackets),
               Raise(MapHttpError(response), marks)
        PROVE  RequestInv'
    <3>1. /\ reqPc' = "raised" /\ error' = MapHttpError(response) /\ bracket' = bracket \o marks
          /\ UNCHANGED <<attempt, waited, response>>
      BY <2>4 DEF Raise
    <3>2. response \in Responses
      BY <2>4 DEF RequestInv
    <3>3. error'.retry \in BOOLEAN
      BY <3>1, <3>2, MappedRightly
    <3>4. bracket' \in Seq(Brackets)
      BY <2>t, <2>4, <3>1, ConcatProperties
    <3> QED BY <2>s, <2>t, <3>1, <3>2, <3>3, <3>4
  <2>5. CASE GiveUp
    <3> QED BY <2>4, <2>5, <2>n DEF GiveUp
  <2>6. CASE RaiseOther
    <3>1. <<>> \in Seq(Brackets)
      BY EmptySeq
    <3> QED BY <2>4, <2>6, <3>1 DEF RaiseOther
  <2>7. CASE UNCHANGED requestVars
    BY <2>7, <2>t DEF requestVars, RequestInv, RequestTypeOK
  <2> QED BY <2>1, <2>2, <2>3, <2>5, <2>6, <2>7 DEF RequestNext, RequestOver
<1> QED BY <1>1, <1>2, PTL DEF RequestSpec

\* The state of a request keeps its types: no more attempts than retries are allowed,
\* and a delay that is a number of milliseconds before each of them.
THEOREM RequestTypeCorrect == RequestSpec => []RequestTypeOK
<1>1. RequestInv => RequestTypeOK
  BY DEF RequestInv
<1> QED BY <1>1, RequestHolds, PTL

\* Whatever status, code and message a response has, the best entry of the catalog
\* lets it be retried if it is a server error, and else only if it is a rate limit.
THEOREM RetriesOnlyWhatMayPass == RequestSpec => []RetryOnlyWhatMayPass
<1>1. RequestInv => RetryOnlyWhatMayPass
  <2> SUFFICES ASSUME RequestInv, reqPc = "raised", response.status # 0
               PROVE  /\ response.status >= 500 => error.retry
                      /\ error.retry => response.status >= 500 \/ response.status = 429
    BY DEF RetryOnlyWhatMayPass
  <2>1. response \in Responses /\ error = MapHttpError(response)
    BY DEF RequestInv
  <2> QED BY <2>1, MappedRightly
<1> QED BY <1>1, RequestHolds, PTL
----------------------------------------------------------------------------
(* The dispatch of a cloud task                                             *)

\* The extra fields as every stage leaves them, and the names a machine may have.
Machines == {"", "W", "M", "D", "U"}

Words == {"", "self-hosted", "cursor-managed", "P", "true", "false", "session-jwt", "label",
          "unknown", "repo", "pr", "wrong type"}

Envs == [type : {"", "machine", "pool"}, name : Machines \cup Words]

Extras ==
    [target : Words, worker : Machines, machine : Machines, pool : Words, private : Words,
     auth : Words, emit : Words, repo : Words, other : Words, knob : Words, env : Envs]

\* What Cursor may run.
Agents == [via : {"rest", "path_b"}, machine : Machines, exact : BOOLEAN]

\* The user names a self-hosted worker, and no local CLI.
AsksForWorker == opt.replay = "" /\ opt.target = "self-hosted" /\ opt.cli \notin Locals

\* What the pipeline has made of it at each stage.
WorkerInv ==
    AsksForWorker =>
        /\ stage # "rest"
        /\ stage = "select" => cli = "cursor-cloud" /\ extra.emit = opt.xemit
        /\ stage \in {"auth", "post", "spawn", "path_b"} =>
               /\ cli = "cursor-cloud" /\ extra.target = "self-hosted"
               /\ extra.worker = opt.name /\ extra.emit = opt.xemit
        /\ stage \in {"post", "spawn", "path_b"} => extra.auth = "session-jwt"

\* A request that names a self-hosted worker has got past the warning.
WarnedInv ==
    /\ stage = "auth" => cli # ""
    /\ stage \in {"spawn", "rest", "path_b"} => cli \notin Locals
    /\ (/\ opt.replay = "" /\ stage \in {"post", "spawn", "path_b"}
        /\ cli \notin Locals /\ extra.target = "self-hosted" /\ extra.worker # "")
       => warned = TRUE

\* The local CLI on its way is the wanted one, or the user has agreed to another.
WantedInv ==
    /\ stage \in {"start", "select"} => wanted = ""
    /\ (stage \in {"auth", "post"} /\ wanted # "" /\ cli # wanted) =>
           opt.fallback = "yes" /\ opt.target # "self-hosted"

DispatchInv ==
    /\ DispatchTypeOK
    /\ extra \in Extras
    /\ extra.env.type = "machine" => extra.env.name \in Machines
    /\ stage # "done" => agents = {} /\ ran = ""
    /\ stage = "rest" => extra.target # "self-hosted"
    /\ WorkerInv
    /\ WantedInv
    /\ WarnedInv
    /\ NoSilentFallback

LEMMA OptionsAreTyped ==
    ASSUME DispatchTypeOK
    PROVE  /\ opt.cli \in {"", "cursor-cloud"} \cup Locals
           /\ opt.name \in {"", "W"} /\ opt.replay \in {"", "yes"}
           /\ ParsedFlags \in Extras
           /\ ParsedFlags.env.type = "" /\ ParsedFlags.emit = opt.xemit
<1>1. \A f \in DOMAIN Values : opt[f] \in Values[f]
  BY DEF DispatchTypeOK
<1>2. DOMAIN Values = {"cli", "target", "name", "auth", "knobs", "wizard", "fallback", "replay",
                       "xtarget", "xworker", "xmachine", "xpool", "xprivate", "xauth", "xemit",
                       "xrepo", "xother", "xknob"}
  BY DEF Values
<1>3. /\ opt.cli \in Values.cli /\ opt.name \in Values.name /\ opt.replay \in Values.replay
      /\ opt.xtarget \in Values.xtarget /\ opt.xworker \in Values.xworker
      /\ opt.xmachine \in Values.xmachine /\ opt.xpool \in Values.xpool
      /\ opt.xprivate \in Values.xprivate /\ opt.xauth \in Values.xauth
      /\ opt.xemit \in Values.xemit /\ opt.xrepo \in Values.xrepo
      /\ opt.xother \in Values.xother /\ opt.xknob \in Values.xknob
  BY <1>1, <1>2
<1>4. opt.cli \in {"", "cursor-cloud"} \cup Locals /\ opt.name \in {"", "W"} /\ opt.replay \in {"", "yes"}
  BY <1>3 DEF Values
<1>5. /\ opt.xtarget \in Words /\ opt.xworker \in Machines /\ opt.xmachine \in Machines
      /\ opt.xpool \in Words /\ opt.xprivate \in Words /\ opt.xauth \in Words
      /\ opt.xemit \in Words /\ opt.xrepo \in Words /\ opt.xother \in Words /\ opt.xknob \in Words
  <2>1. /\ Values.xtarget \subseteq Words /\ Values.xworker \subseteq Machines
        /\ Values.xmachine \subseteq Machines /\ Values.xpool \subseteq Words
        /\ Values.xprivate \subseteq Words /\ Values.xauth \subseteq Words
        /\ Values.xemit \subseteq Words /\ Values.xrepo \subseteq Words
        /\ Values.xother \subseteq Words /\ Values.xknob \subseteq Words
    BY DEF Values, Words, Machines
  <2> QED BY <1>3, <2>1
<1>6. [type |-> "", name |-> ""] \in Envs
  BY DEF Envs, Machines
<1>7. ParsedFlags \in Extras
  BY <1>5, <1>6 DEF ParsedFlags, Extras
<1>8. ParsedFlags.env.type = "" /\ ParsedFlags.emit = opt.xemit
  BY DEF ParsedFlags
<1> QED BY <1>4, <1>7, <1>8

\* What is given on the command line is one of the values that may be given.
LEMMA CommandLinesAreTyped ==
    ASSUME NEW o \in CommandLines
    PROVE  \A f \in DOMAIN Values : o[f] \in Values[f]
<1>1. \A f \in DOMAIN Values : /\ Plain[f] \in Values[f] /\ SelfHosted[f] \in Values[f]
                              /\ Replayed[f] \in Values[f]
  <2>1. /\ "" \in Values.cli /\ "" \in Values.target /\ "" \in Values.name /\ "" \in Values.auth
        /\ "" \in Values.knobs /\ "" \in Values.wizard /\ "" \in Values.fallback
        /\ "" \in Values.replay /\ "" \in Values.xtarget /\ "" \in Values.xworker
        /\ "" \in Values.xmachine /\ "" \in Values.xpool /\ "" \in Values.xprivate
        /\ "" \in Values.xauth /\ "" \in Values.xemit /\ "" \in Values.xother
        /\ "" \in Values.xknob /\ "repo" \in Values.xrepo
        /\ "self-hosted" \in Values.target /\ "W" \in Values.name /\ "yes" \in Values.replay
        /\ "cursor-cloud" \in Values.cli /\ "self-hosted" \in Values.xtarget
        /\ "W" \in Values.xworker /\ "session-jwt" \in Values.xauth
    BY DEF Values
  <2>2. DOMAIN Values = {"cli", "target", "name", "auth", "knobs", "wizard", "fallback", "replay",
                         "xtarget", "xworker", "xmachine", "xpool", "xprivate", "xauth", "xemit",
                         "xrepo", "xother", "xknob"}
    BY DEF Values
  <2>3. \A f \in DOMAIN Values : Plain[f] = IF f = "xrepo" THEN "repo" ELSE ""
    BY DEF Plain
  <2>4. \A f \in DOMAIN Values :
            SelfHosted[f] = IF f = "target" THEN "self-hosted" ELSE IF f = "name" THEN "W"
                            ELSE Plain[f]
    BY DEF SelfHosted, Plain
  <2>5. \A f \in DOMAIN Values :
            Replayed[f] = IF f = "replay" THEN "yes" ELSE IF f = "cli" THEN "cursor-cloud"
                          ELSE IF f = "xtarget" THEN "self-hosted" ELSE IF f = "xworker" THEN "W"
                          ELSE IF f = "xauth" THEN "session-jwt" ELSE Plain[f]
    BY DEF Replayed, Plain
  <2>6. \A f \in DOMAIN Values : Plain[f] \in Values[f]
    BY <2>1, <2>2, <2>3
  <2>7. \A f \in DOMAIN Values : SelfHosted[f] \in Values[f]
    BY <2>1, <2>4, <2>6
  <2>8. \A f \in DOMAIN Values : Replayed[f] \in Values[f]
    BY <2>1, <2>5, <2>6
  <2> QED BY <2>6, <2>7, <2>8
<1>2. \A a \in Options : a[1] \in DOMAIN Values /\ a[2] \in Values[a[1]]
  BY DEF Options
<1>3. DOMAIN Plain = DOMAIN Values /\ DOMAIN SelfHosted = DOMAIN Values
      /\ DOMAIN Replayed = DOMAIN Values
  BY DEF Plain, SelfHosted, Replayed
<1>4. PICK base \in {Plain, SelfHosted, Replayed}, a, b \in Options :
           o = [base EXCEPT ![a[1]] = a[2], ![b[1]] = b[2]]
  BY DEF CommandLines
<1> SUFFICES ASSUME NEW f \in DOMAIN Values PROVE o[f] \in Values[f]
  OBVIOUS
<1>5. o[f] = IF f = b[1] THEN b[2] ELSE IF f = a[1] THEN a[2] ELSE base[f]
  BY <1>3, <1>4
<1> QED BY <1>1, <1>2, <1>5

\* A step that ends the pipeline with a refusal.
LEMMA RefusalIsSafe ==
    ASSUME DispatchInv, stage # "done", Refused
    PROVE  DispatchInv'
<1>1. /\ stage' = "done" /\ outcome' = "refused"
      /\ UNCHANGED <<opt, prefs, cli, extra, wanted, ran, warned, agents, handle>>
  BY DEF Refused
<1>2. DispatchTypeOK'
  BY <1>1 DEF DispatchInv, DispatchTypeOK
<1>3. WorkerInv' /\ WantedInv' /\ WarnedInv'
  BY <1>1 DEF WorkerInv, WantedInv, WarnedInv
<1>4. NoSilentFallback'
  BY <1>1 DEF DispatchInv, NoSilentFallback
<1> QED BY <1>1, <1>2, <1>3, <1>4 DEF DispatchInv

\* A step that goes on to the next stage.
LEMMA GoingIsSafe ==
    ASSUME DispatchInv, stage # "done",
           NEW next \in {"select", "auth", "post", "spawn", "rest", "path_b"},
           NEW c \in {"", "cursor-cloud"} \cup Locals, NEW e \in Extras,
           stage' = next, cli' = c, extra' = e, UNCHANGED <<opt, ran, agents, outcome>>,
           handle' \in {"none", "registered", "starting", "failed"},
           e.env.type = "machine" => e.env.name \in Machines,
           prefs' \in Preferences, wanted' \in {""} \cup Locals,
           next = "rest" => e.target # "self-hosted",
           warned' \in BOOLEAN, WorkerInv', WantedInv', WarnedInv'
    PROVE  DispatchInv'
<1>1. agents' = {} /\ ran' = ""
  BY DEF DispatchInv
<1>2. DispatchTypeOK'
  BY DEF DispatchInv, DispatchTypeOK
<1>3. NoSilentFallback'
  BY <1>1 DEF NoSilentFallback
<1> QED BY <1>1, <1>2, <1>3 DEF DispatchInv

\* What a rewrite of the extra fields keeps of their types.
LEMMA ExtrasRewritten ==
    ASSUME NEW e \in Extras, NEW t \in Words, NEW w \in Machines, NEW r \in Words, NEW a \in Words
    PROVE  /\ [e EXCEPT !.target = t] \in Extras
           /\ [e EXCEPT !.auth = a] \in Extras
           /\ [e EXCEPT !.target = t, !.worker = w, !.auth = a] \in Extras
           /\ [e EXCEPT !.target = t, !.worker = w, !.repo = r] \in Extras
           /\ e.target \in Words /\ e.worker \in Machines /\ e.repo \in Words /\ e.auth \in Words
BY DEF Extras

\* The preferences send a task to the cloud, and one that is asked to go to a
\* self-hosted worker to that worker.
LEMMA CloudPreferencesAreRight ==
    ASSUME DispatchTypeOK, NEW e \in Extras, CloudPreferences(e)
    PROVE  \E f \in Extras :
              /\ Go("auth", "cursor-cloud", f)
              /\ f.env = e.env /\ f.emit = e.emit
              /\ opt.target = "self-hosted" => f.target = "self-hosted" /\ f.worker = opt.name
<1>1. CASE ResolvedTarget = "ask-each-time"
  <2>1. Go("auth", "cursor-cloud", e)
    BY <1>1 DEF CloudPreferences
  <2>2. opt.target # "self-hosted"
    BY <1>1 DEF ResolvedTarget
  <2> QED BY <2>1, <2>2
<1>2. CASE ResolvedTarget = "cursor-managed"
  <2> DEFINE f == [e EXCEPT !.target = "cursor-managed"]
  <2>1. Go("auth", "cursor-cloud", f)
    BY <1>2 DEF CloudPreferences
  <2>2. opt.target # "self-hosted"
    BY <1>2 DEF ResolvedTarget
  <2>3. "cursor-managed" \in Words
    BY DEF Words
  <2>4. f \in Extras /\ f.env = e.env /\ f.emit = e.emit
    BY <2>3 DEF Extras
  <2> QED BY <2>1, <2>2, <2>4
<1>3. CASE ResolvedTarget \notin {"ask-each-time", "cursor-managed"}
  <2>1. PICK w \in IF opt.target # "" THEN {opt.name} ELSE DetectedWorkers(e),
             r \in DerivedRepos(e) :
               Go("auth", "cursor-cloud", [e EXCEPT !.target = "self-hosted", !.worker = w, !.repo = r])
    BY <1>3 DEF CloudPreferences
  <2> DEFINE f == [e EXCEPT !.target = "self-hosted", !.worker = w, !.repo = r]
  <2>2. e.worker \in Machines /\ e.repo \in Words
    BY DEF Extras
  <2>3. w \in Machines
    BY <2>1, <2>2, OptionsAreTyped DEF DetectedWorkers, Machines
  <2>4. r \in Words
    BY <2>1, <2>2 DEF DerivedRepos, Words
  <2>5. "self-hosted" \in Words
    BY DEF Words
  <2>6. f \in Extras /\ f.env = e.env /\ f.emit = e.emit /\ f.target = "self-hosted" /\ f.worker = w
    BY <2>3, <2>4, <2>5 DEF Extras
  <2>7. opt.target = "self-hosted" => w = opt.name
    BY <2>1
  <2> HIDE DEF f
  <2>8. Go("auth", "cursor-cloud", f)
    BY <2>1 DEF f
  <2> QED BY <2>6, <2>7, <2>8
<1> QED BY <1>1, <1>2, <1>3

LEMMA ReplayIsSafe ==
    ASSUME DispatchInv, Replay PROVE DispatchInv'
<1>1. CASE Refused
  BY <1>1, RefusalIsSafe DEF Replay
<1>2. CASE opt.cli # "" /\ Go("post", opt.cli, ParsedFlags) /\ UNCHANGED <<prefs, wanted, warned>>
  <2>1. /\ stage = "start" /\ opt.replay = "yes" /\ wanted = "" /\ DispatchTypeOK
    BY DEF Replay, DispatchInv, WantedInv
  <2>2. /\ stage' = "post" /\ cli' = opt.cli /\ extra' = ParsedFlags
        /\ UNCHANGED <<opt, ran, agents, handle, outcome, prefs, wanted, warned>>
    BY <1>2 DEF Go
  <2>3. WorkerInv' /\ WantedInv' /\ WarnedInv'
    BY <2>1, <2>2 DEF WorkerInv, WantedInv, WarnedInv, AsksForWorker
  <2>4. warned \in BOOLEAN /\ handle \in {"none", "registered", "starting", "failed"} /\ prefs \in Preferences
    BY <2>1 DEF DispatchTypeOK
  <2>5. /\ ParsedFlags \in Extras /\ ParsedFlags.env.type # "machine"
        /\ opt.cli \in {"", "cursor-cloud"} \cup Locals
    BY <2>1, OptionsAreTyped
  <2> QED BY <2>1, <2>2, <2>3, <2>4, <2>5, GoingIsSafe
<1> QED BY <1>1, <1>2 DEF Replay

LEMMA SubmitIsSafe ==
    ASSUME DispatchInv, Submit PROVE DispatchInv'
<1>1. /\ stage = "start" /\ opt.replay = "" /\ wanted = "" /\ DispatchTypeOK
  BY DEF Submit, DispatchInv, WantedInv
<1>2. CASE ~TargetAllowed
  BY <1>1, <1>2, RefusalIsSafe DEF Submit
<1>3. CASE TargetAllowed
  <2> DEFINE c == IF opt.target # "" /\ opt.cli = "" THEN "cursor-cloud" ELSE opt.cli
  <2>1. /\ stage' = "select" /\ cli' = c /\ extra' = ParsedFlags /\ prefs' \in Preferences
        /\ UNCHANGED <<opt, ran, agents, handle, outcome, wanted, warned>>
    BY <1>3 DEF Submit, Go
  <2>2. c \in {"", "cursor-cloud"} \cup Locals /\ (AsksForWorker => c = "cursor-cloud")
    BY <1>1, OptionsAreTyped DEF AsksForWorker
  <2> HIDE DEF c
  <2>3. WorkerInv'
    BY <1>1, <2>1, <2>2, OptionsAreTyped DEF WorkerInv, AsksForWorker
  <2>4. WantedInv' /\ WarnedInv'
    BY <1>1, <2>1 DEF WantedInv, WarnedInv
  <2>5. warned \in BOOLEAN /\ handle \in {"none", "registered", "starting", "failed"}
    BY <1>1 DEF DispatchTypeOK
  <2>6. ParsedFlags \in Extras /\ ParsedFlags.env.type # "machine"
    BY <1>1, OptionsAreTyped
  <2> QED BY <1>1, <2>1, <2>2, <2>3, <2>4, <2>5, <2>6, GoingIsSafe
<1> QED BY <1>2, <1>3

\* Every way to a CLI: the one given, the cloud, the wizard, or a local one that is
\* wanted, with the consent to another.
LEMMA SelectIsSafe ==
    ASSUME DispatchInv, SelectCli PROVE DispatchInv'
<1>0. /\ stage = "select" /\ wanted = "" /\ DispatchTypeOK /\ extra \in Extras
      /\ extra.env.type = "machine" => extra.env.name \in Machines
      /\ UNCHANGED <<prefs, warned>> /\ prefs \in Preferences /\ warned \in BOOLEAN
      /\ handle \in {"none", "registered", "starting", "failed"}
      /\ AsksForWorker => cli = "cursor-cloud" /\ extra.emit = opt.xemit
  BY DEF SelectCli, DispatchInv, WantedInv, WorkerInv, DispatchTypeOK
<1>1. ASSUME NEW c \in {"cursor-cloud"} \cup Locals, NEW e \in Extras, Go("auth", c, e),
             e.env = extra.env, wanted' \in {""} \cup Locals,
             AsksForWorker => /\ c = "cursor-cloud" /\ e.target = "self-hosted"
                              /\ e.worker = opt.name /\ e.emit = opt.xemit,
             wanted' # "" /\ c # wanted' => opt.fallback = "yes" /\ opt.target # "self-hosted"
      PROVE  DispatchInv'
  <2>1. /\ stage' = "auth" /\ cli' = c /\ extra' = e
        /\ UNCHANGED <<opt, ran, agents, handle, outcome>>
    BY <1>1 DEF Go
  <2>2. WorkerInv'
    BY <1>1, <2>1 DEF WorkerInv, AsksForWorker
  <2>3. WantedInv' /\ WarnedInv'
    BY <1>1, <2>1, LocalsAssumption DEF WantedInv, WarnedInv
  <2> QED BY <1>0, <1>1, <2>1, <2>2, <2>3, GoingIsSafe
<1>2. CASE cli \in Locals /\ Go("auth", cli, extra) /\ wanted' = cli
  <2>1. ~AsksForWorker
    BY <1>0, <1>2, LocalsAssumption
  <2> QED BY <1>0, <1>1, <1>2, <2>1
<1>3. ASSUME CloudPreferences(extra), UNCHANGED wanted PROVE DispatchInv'
  <2>1. PICK f \in Extras :
              /\ Go("auth", "cursor-cloud", f)
              /\ f.env = extra.env /\ f.emit = extra.emit
              /\ opt.target = "self-hosted" => f.target = "self-hosted" /\ f.worker = opt.name
    BY <1>0, <1>3, CloudPreferencesAreRight
  <2>2. AsksForWorker => f.target = "self-hosted" /\ f.worker = opt.name /\ f.emit = opt.xemit
    BY <1>0, <2>1 DEF AsksForWorker
  <2> QED BY <1>0, <1>1, <1>3, <2>1, <2>2
<1>4. ASSUME ~AsksForWorker, Wizard, UNCHANGED wanted PROVE DispatchInv'
  <2>1. PICK c \in {"cursor-cloud"} \cup Locals, e \in Extras :
             Go("auth", c, e) /\ e.env = extra.env
    <3>1. CASE \E c \in Locals : Go("auth", c, extra)
      BY <1>0, <3>1
    <3> DEFINE e1 == [extra EXCEPT !.target = "cursor-managed"]
               e2 == [extra EXCEPT !.target = "self-hosted", !.worker = "U", !.auth = "session-jwt"]
    <3>2. e1 \in Extras /\ e2 \in Extras
      <4>1. "cursor-managed" \in Words /\ "self-hosted" \in Words /\ "session-jwt" \in Words
            /\ "U" \in Machines
        BY DEF Words, Machines
      <4> QED BY <1>0, <4>1 DEF Extras
    <3>3. e1.env = extra.env /\ e2.env = extra.env
      BY <1>0 DEF Extras
    <3>4. (\E c \in Locals : Go("auth", c, extra)) \/ Go("auth", "cursor-cloud", e1)
          \/ Go("auth", "cursor-cloud", e2)
      BY <1>4, Zenon DEF Wizard
    <3> HIDE DEF e1, e2
    <3> QED BY <3>1, <3>2, <3>3, <3>4
  <2> QED BY <1>0, <1>1, <1>4, <2>1
<1>5. ASSUME ~AsksForWorker, NEW c \in Locals, LocalCli(c) PROVE DispatchInv'
  <2>1. PICK d \in Locals : /\ Go("auth", d, extra) /\ wanted' = c
                            /\ d = c \/ (opt.fallback = "yes" /\ opt.target # "self-hosted")
    BY <1>5 DEF LocalCli
  <2> QED BY <1>0, <1>1, <1>5, <2>1
<1>6. CASE cli = "" /\ FromPreferences
  <2>1. ~AsksForWorker
    BY <1>0, <1>6
  <2>2. Cursor \in Locals
    BY DEF Locals
  <2>3. \/ Wizard /\ UNCHANGED wanted
        \/ CloudPreferences(extra) /\ UNCHANGED wanted
        \/ \E c \in Locals : LocalCli(c)
    BY <1>6, <2>2, Zenon DEF FromPreferences
  <2> QED BY <1>3, <1>4, <1>5, <2>1, <2>3
<1> QED BY <1>2, <1>3, <1>6 DEF SelectCli

LEMMA ApplyIsSafe ==
    ASSUME DispatchInv, ApplyPathBFlags PROVE DispatchInv'
<1> DEFINE e == IF OverPathB THEN [extra EXCEPT !.auth = "session-jwt"] ELSE extra
<1>1. /\ stage = "auth" /\ stage' = "post" /\ cli' = cli /\ extra' = e
      /\ UNCHANGED <<opt, ran, agents, handle, outcome, prefs, wanted>>
      /\ ~ExplicitRestRefused /\ warned' = PoolWarning
  BY DEF ApplyPathBFlags, Go
<1>2. /\ extra \in Extras /\ (extra.env.type = "machine" => extra.env.name \in Machines)
      /\ WorkerInv /\ WantedInv /\ WarnedInv
      /\ cli \in {"", "cursor-cloud"} \cup Locals /\ wanted \in {""} \cup Locals
      /\ prefs \in Preferences /\ handle \in {"none", "registered", "starting", "failed"}
  BY DEF DispatchInv, DispatchTypeOK
<1>3. /\ e \in Extras /\ e.env = extra.env /\ e.target = extra.target /\ e.worker = extra.worker
      /\ e.emit = extra.emit
      /\ (cli = "cursor-cloud" /\ AuthMode = "session-jwt") => e.auth = "session-jwt"
  <2>1. "session-jwt" \in Words
    BY DEF Words
  <2> QED BY <1>2, <2>1 DEF Extras, OverPathB
<1>4. AsksForWorker => AuthMode = "session-jwt"
  BY <1>1, <1>2 DEF WorkerInv, ExplicitRestRefused, AuthMode
<1> HIDE DEF e
<1>5. WorkerInv'
  BY <1>1, <1>2, <1>3, <1>4 DEF WorkerInv, AsksForWorker
<1>6. WantedInv'
  BY <1>1, <1>2 DEF WantedInv
<1>7. WarnedInv'
  <2>1. extra.target = "self-hosted" => AuthMode = "session-jwt"
    BY <1>1 DEF ExplicitRestRefused, AuthMode
  <2> QED BY <1>1, <1>2, <1>3, <2>1 DEF WarnedInv, PoolWarning, OverPathB
<1>8. warned' \in BOOLEAN
  BY <1>1 DEF PoolWarning, OverPathB
<1> QED BY <1>1, <1>2, <1>3, <1>5, <1>6, <1>7, <1>8, GoingIsSafe

LEMMA EnvsAreRecords ==
    ASSUME NEW t \in {"", "machine", "pool"}, NEW n \in Machines \cup Words
    PROVE  [type |-> t, name |-> n] \in Envs
BY DEF Envs

\* What the adapter leaves of the extra fields.
LEMMA NormalizedRightly ==
    ASSUME NEW e \in Extras
    PROVE  /\ Normalized(e) \in Extras /\ Normalized(e).target = e.target
           /\ Normalized(e).env.type = "machine" => Normalized(e).env.name \in Machines
           /\ e.auth = "session-jwt" =>
                 /\ Normalized(e).auth = "session-jwt" /\ Normalized(e).emit = e.emit
                 /\ Normalized(e).worker = e.worker
           /\ Normalized(e).worker \in {"", e.worker}
<1>1. Env(e) \in Envs /\ (Env(e).type = "machine" => Env(e).name \in Machines)
  <2>1. MachineNames(e) \subseteq Machines
    BY DEF MachineNames, Extras
  <2>2. CASE MachineNames(e) # {}
    <3> DEFINE n == CHOOSE n \in MachineNames(e) : TRUE
    <3>1. n \in Machines
      BY <2>1, <2>2
    <3>2. Env(e) = [type |-> "machine", name |-> n]
      BY <2>2 DEF Env
    <3> HIDE DEF n
    <3> QED BY <3>1, <3>2 DEF Envs
  <2>3. CASE MachineNames(e) = {}
    <3>1. Env(e) = [type |-> IF e.pool # "" THEN "pool" ELSE "", name |-> e.pool]
      BY <2>3, Zenon DEF Env
    <3>2. e.pool \in Words
      BY DEF Extras
    <3> DEFINE t == IF e.pool # "" THEN "pool" ELSE ""
               n == e.pool
    <3>3. t \in {"", "machine", "pool"} /\ t # "machine" /\ n \in Machines \cup Words
      BY <3>2
    <3>4. Env(e) = [type |-> t, name |-> n]
      BY <3>1
    <3> HIDE DEF t, n
    <3>5. Env(e) \in Envs
      BY <3>3, <3>4, EnvsAreRecords
    <3>6. Env(e).type = t
      BY <3>4
    <3> QED BY <3>3, <3>5, <3>6
  <2> QED BY <2>2, <2>3
<1> DEFINE base == [NoExtra EXCEPT !.target = e.target, !.env = Env(e), !.repo = e.repo]
           full == [base EXCEPT !.auth = e.auth, !.emit = e.emit, !.knob = e.knob,
                                !.worker = e.worker]
<1>2. NoExtra \in Extras
  <2>1. "" \in Words /\ "" \in Machines
    BY DEF Words, Machines
  <2>2. [type |-> "", name |-> ""] \in Envs
    BY <2>1 DEF Envs
  <2> QED BY <2>1, <2>2 DEF NoExtra, Extras
<1>3. base \in Extras /\ base.target = e.target /\ base.env = Env(e) /\ base.worker = ""
  BY <1>1, <1>2 DEF Extras, NoExtra
<1>4. Normalized(e) = IF e.auth = "session-jwt" THEN full ELSE base
  BY Zenon DEF Normalized
<1> HIDE DEF base
<1>5. /\ full \in Extras /\ full.target = base.target /\ full.env = base.env /\ full.auth = e.auth
      /\ full.emit = e.emit /\ full.worker = e.worker
  BY <1>3 DEF Extras
<1> HIDE DEF full
<1> QED BY <1>1, <1>3, <1>4, <1>5

LEMMA PostIsSafe ==
    ASSUME DispatchInv, Post PROVE DispatchInv'
<1>0. /\ stage = "post" /\ DispatchTypeOK /\ extra \in Extras /\ WorkerInv /\ WantedInv
      /\ agents = {} /\ WarnedInv /\ warned \in BOOLEAN
      /\ cli \in {"", "cursor-cloud"} \cup Locals /\ wanted \in {""} \cup Locals
      /\ prefs \in Preferences
  BY DEF Post, DispatchInv, DispatchTypeOK
<1>1. CASE cli \in Locals
  <2>1. /\ stage' = "done" /\ outcome' = "local" /\ ran' = cli /\ handle' = "registered"
        /\ UNCHANGED <<opt, prefs, cli, extra, wanted, warned, agents>>
    BY <1>1 DEF Post
  <2>2. ~AsksForWorker
    BY <1>0, <1>1, LocalsAssumption DEF WorkerInv
  <2>3. DispatchTypeOK'
    BY <1>0, <1>1, <2>1 DEF DispatchTypeOK
  <2>4. WorkerInv' /\ WantedInv' /\ WarnedInv'
    BY <2>1 DEF WorkerInv, WantedInv, WarnedInv
  <2>5. NoSilentFallback'
    BY <1>0, <2>1, <2>2 DEF NoSilentFallback, AsksForWorker, WantedInv
  <2> QED BY <1>0, <2>1, <2>3, <2>4, <2>5 DEF DispatchInv
<1>2. CASE cli \notin Locals /\ WellTyped(extra) /\ RoutingAgrees(extra)
  <2>1. /\ stage' = "spawn" /\ extra' = Normalized(extra) /\ handle' = "registered"
        /\ UNCHANGED <<opt, prefs, cli, wanted, ran, warned, agents, outcome>>
    BY <1>2 DEF Post
  <2>2. WorkerInv'
    BY <1>0, <2>1, NormalizedRightly DEF WorkerInv, AsksForWorker
  <2>3. WantedInv' /\ WarnedInv'
    <3>1. WantedInv'
      BY <2>1 DEF WantedInv
    <3>2. Normalized(extra).target = extra.target /\ Normalized(extra).worker \in {"", extra.worker}
      BY <1>0, NormalizedRightly
    <3>3. WarnedInv'
      BY <1>0, <1>2, <2>1, <3>2 DEF WarnedInv
    <3> QED BY <3>1, <3>3
  <2>4. /\ Normalized(extra) \in Extras
        /\ Normalized(extra).env.type = "machine" => Normalized(extra).env.name \in Machines
    BY <1>0, NormalizedRightly
  <2> QED BY <1>0, <2>1, <2>2, <2>3, <2>4, GoingIsSafe
<1>3. CASE cli \notin Locals /\ ~(WellTyped(extra) /\ RoutingAgrees(extra))
  <2>1. Refused
    BY <1>3 DEF Post
  <2> QED BY <1>0, <2>1, RefusalIsSafe
<1> QED BY <1>1, <1>2, <1>3

LEMMA AtMostOne ==
    ASSUME NEW S, S = {} \/ \E a \in S : S = {a}
    PROVE  Cardinality(S) <= 1
<1>1. CASE S = {}
  <2>1. Cardinality(S) = 0
    BY <1>1, FS_EmptySet, Zenon
  <2> QED BY <2>1
<1>2. CASE \E a \in S : S = {a}
  <2>1. PICK a \in S : S = {a}
    BY <1>2
  <2>2. Cardinality(S) = 1
    BY <2>1, FS_Singleton, Zenon
  <2> QED BY <2>2
<1> QED BY <1>1, <1>2

\* A step that ends the pipeline with what Cursor runs.
LEMMA EndIsSafe ==
    ASSUME DispatchInv, stage # "done", NEW some,
           some = {} \/ \E a \in Agents : some = {a},
           stage' = "done", agents' = agents \cup some,
           outcome' \in {"none", "refused", "local", "running", "failed"},
           handle' \in {"none", "registered", "starting", "failed"},
           UNCHANGED <<opt, prefs, cli, extra, wanted, ran, warned>>,
           \A a \in some : extra.target = "self-hosted" => a.via = "path_b",
           AsksForWorker =>
              \A a \in some : a.via = "path_b" /\ (opt.xemit = "" => a.machine = opt.name),
           some # {} /\ opt.replay = "" /\ extra.target = "self-hosted" /\ extra.worker # ""
              => warned = TRUE
    PROVE  DispatchInv'
<1>0. agents' = some /\ ran' = "" /\ DispatchTypeOK /\ extra \in Extras
  BY DEF DispatchInv
<1>1. Cardinality(some) <= 1 /\ some \subseteq Agents
  <2>1. Cardinality(some) <= 1
    BY AtMostOne
  <2>2. some \subseteq Agents
    OBVIOUS
  <2> QED BY <2>1, <2>2
<1>2. DispatchTypeOK'
  <2>1. agents' \subseteq [via : {"rest", "path_b"}, machine : {"", "W", "M", "D", "U"},
                            exact : BOOLEAN]
        /\ Cardinality(agents') <= 1
    BY <1>0, <1>1 DEF Agents, Machines
  <2> QED BY <1>0, <2>1 DEF DispatchTypeOK
<1>3. WorkerInv' /\ WantedInv' /\ WarnedInv'
  BY DEF WorkerInv, WantedInv, WarnedInv
<1>4. NoSilentFallback'
  BY <1>0 DEF NoSilentFallback, AsksForWorker
<1> QED BY <1>0, <1>2, <1>3, <1>4 DEF DispatchInv

LEMMA SupervisorIsSafe ==
    ASSUME DispatchInv, SpawnCloud \/ RestFails \/ CreateAgent \/ PathBFails \/ StartComposer
    PROVE  DispatchInv'
<1>0. /\ DispatchTypeOK /\ extra \in Extras /\ WorkerInv /\ WantedInv /\ WarnedInv
      /\ warned \in BOOLEAN
      /\ extra.env.type = "machine" => extra.env.name \in Machines
      /\ stage = "rest" => extra.target # "self-hosted"
      /\ cli \in {"", "cursor-cloud"} \cup Locals /\ wanted \in {""} \cup Locals
      /\ prefs \in Preferences /\ handle \in {"none", "registered", "starting", "failed"}
  BY DEF DispatchInv, DispatchTypeOK
<1>a. /\ RestAgent \in Agents /\ RestAgent.via = "rest"
      /\ PathBAgent \in Agents /\ PathBAgent.via = "path_b"
      /\ extra.emit = "" => PathBAgent.machine = extra.worker
  <2>1. "" \in Machines /\ extra.worker \in Machines
    BY <1>0 DEF Machines, Extras
  <2> QED BY <1>0, <2>1 DEF RestAgent, PathBAgent, Agents
<1>1. ASSUME stage = "rest", NEW some \in {{}, {RestAgent}}, Fail(some) \/ Seed(RestAgent)
      PROVE  DispatchInv'
  <2>1. ~AsksForWorker /\ extra.target # "self-hosted"
    BY <1>0, <1>1 DEF WorkerInv
  <2>2. CASE Fail(some)
    BY <1>1, <1>a, <2>1, <2>2, EndIsSafe DEF Fail
  <2>3. CASE Seed(RestAgent)
    <3>1. {RestAgent} = {} \/ \E a \in Agents : {RestAgent} = {a}
      BY <1>a
    <3> QED BY <1>1, <1>a, <2>1, <2>3, <3>1, EndIsSafe DEF Seed
  <2> QED BY <1>1, <2>2, <2>3
<1>2. ASSUME stage = "path_b", NEW some \in {{}, {PathBAgent}}, Fail(some) \/ Seed(PathBAgent)
      PROVE  DispatchInv'
  <2>1. /\ AsksForWorker => (opt.xemit = "" => PathBAgent.machine = opt.name)
        /\ (opt.replay = "" /\ extra.target = "self-hosted" /\ extra.worker # "") => warned = TRUE
    BY <1>0, <1>a, <1>2 DEF WorkerInv, WarnedInv
  <2>2. CASE Fail(some)
    BY <1>2, <1>a, <2>1, <2>2, EndIsSafe DEF Fail
  <2>3. CASE Seed(PathBAgent)
    <3>1. {PathBAgent} = {} \/ \E a \in Agents : {PathBAgent} = {a}
      BY <1>a
    <3> QED BY <1>2, <1>a, <2>1, <2>3, <3>1, EndIsSafe DEF Seed
  <2> QED BY <1>2, <2>2, <2>3
<1>3. CASE SpawnCloud
  <2>1. CASE extra.target = "self-hosted" /\ extra.auth # "session-jwt"
    <3>1. stage = "spawn" /\ Fail({})
      BY <1>3, <2>1 DEF SpawnCloud
    <3> DEFINE some == {}
    <3>2. /\ stage' = "done" /\ agents' = agents \cup some /\ outcome' = "failed"
          /\ handle' = "failed" /\ UNCHANGED <<opt, prefs, cli, extra, wanted, ran, warned>>
      BY <3>1 DEF Fail
    <3>3. some = {} /\ \A a \in some : FALSE
      OBVIOUS
    <3> HIDE DEF some
    <3> QED BY <3>1, <3>2, <3>3, EndIsSafe
  <2>2. CASE ~(extra.target = "self-hosted" /\ extra.auth # "session-jwt")
    <3> DEFINE next == IF extra.auth = "session-jwt" THEN "path_b" ELSE "rest"
    <3>1. /\ stage = "spawn" /\ stage' = next /\ cli' = cli /\ extra' = extra
          /\ UNCHANGED <<opt, ran, agents, handle, outcome, prefs, wanted, warned>>
      BY <1>3, <2>2 DEF SpawnCloud, Go
    <3>2. next \in {"path_b", "rest"} /\ (next = "rest" => extra.target # "self-hosted")
          /\ (AsksForWorker => next = "path_b")
      BY <1>0, <2>2, <3>1 DEF WorkerInv
    <3> HIDE DEF next
    <3>3. WorkerInv'
      BY <1>0, <3>1, <3>2 DEF WorkerInv, AsksForWorker
    <3>4. WantedInv' /\ WarnedInv'
      BY <1>0, <3>1, <3>2 DEF WantedInv, WarnedInv
    <3> QED BY <1>0, <3>1, <3>2, <3>3, <3>4, GoingIsSafe
  <2> QED BY <2>1, <2>2
<1>4. CASE RestFails
  BY <1>1, <1>4 DEF RestFails
<1>5. CASE CreateAgent
  BY <1>1, <1>5 DEF CreateAgent
<1>6. CASE PathBFails
  BY <1>2, <1>6 DEF PathBFails
<1>7. CASE StartComposer
  BY <1>2, <1>7 DEF StartComposer
<1> QED BY <1>3, <1>4, <1>5, <1>6, <1>7

LEMMA DispatchHolds == DispatchSpec => []DispatchInv
<1>1. DispatchInit => DispatchInv
  <2> SUFFICES ASSUME DispatchInit PROVE DispatchInv
    OBVIOUS
  <2>1. /\ stage = "start" /\ agents = {} /\ ran = "" /\ wanted = "" /\ extra = NoExtra
    BY DEF DispatchInit
  <2>2. extra \in Extras /\ extra.env.type # "machine"
    <3>1. "" \in Words /\ "" \in Machines
      BY DEF Words, Machines
    <3>2. [type |-> "", name |-> ""] \in Envs
      BY <3>1 DEF Envs
    <3> QED BY <2>1, <3>1, <3>2 DEF NoExtra, Extras
  <2>3. \A f \in DOMAIN Values : opt[f] \in Values[f]
    BY CommandLinesAreTyped DEF DispatchInit
  <2>4. prefs \in Preferences
    <3>1. prefs = [DefaultPreferences EXCEPT !.file = "missing"]
      BY DEF DispatchInit
    <3>2. \E f \in {"missing", "broken"} : prefs = [DefaultPreferences EXCEPT !.file = f]
      BY <3>1
    <3>3. prefs \in {[DefaultPreferences EXCEPT !.file = f] : f \in {"missing", "broken"}}
      BY <3>2
    <3> QED BY <3>3 DEF Preferences
  <2>5. Cardinality(agents) <= 1
    <3>1. Cardinality(agents) = 0
      BY <2>1, FS_EmptySet, Zenon
    <3> QED BY <3>1
  <2>6. DispatchTypeOK
    BY <2>1, <2>3, <2>4, <2>5 DEF DispatchInit, DispatchTypeOK
  <2> QED BY <2>1, <2>2, <2>6 DEF DispatchInv, WorkerInv, WantedInv, WarnedInv, NoSilentFallback
<1>2. DispatchInv /\ [DispatchNext]_dispatchVars => DispatchInv'
  <2> SUFFICES ASSUME DispatchInv, [DispatchNext]_dispatchVars PROVE DispatchInv'
    OBVIOUS
  <2>1. CASE SelectFails \/ AuthFails \/ PostFails
    BY <2>1, RefusalIsSafe DEF SelectFails, AuthFails, PostFails
  <2>2. CASE UNCHANGED dispatchVars
    <3>1. UNCHANGED <<opt, stage, prefs, cli, extra, wanted, ran, warned, agents, handle, outcome>>
      BY <2>2 DEF dispatchVars
    <3>2. DispatchTypeOK'
      BY <3>1 DEF DispatchInv, DispatchTypeOK
    <3>3. WorkerInv' /\ WantedInv' /\ WarnedInv' /\ NoSilentFallback'
      BY <3>1 DEF DispatchInv, WorkerInv, WantedInv, WarnedInv, AsksForWorker, NoSilentFallback
    <3> QED BY <3>1, <3>2, <3>3 DEF DispatchInv
  <2> QED BY <2>1, <2>2, ReplayIsSafe, SubmitIsSafe, SelectIsSafe, ApplyIsSafe, PostIsSafe,
             SupervisorIsSafe DEF DispatchNext, Dispatched
<1> QED BY <1>1, <1>2, PTL DEF DispatchSpec

\* The state of a dispatch keeps its types, and Cursor runs at most one agent for it.
THEOREM DispatchTypeCorrect == DispatchSpec => []DispatchTypeOK
<1>1. DispatchInv => DispatchTypeOK
  BY DEF DispatchInv
<1> QED BY <1>1, DispatchHolds, PTL

\* Whatever options, preferences and envelope it is given, a dispatch to a self-hosted
\* worker is not turned into a REST request, a local task or a request for another
\* machine; the command has warned, but for a replay, that Cursor may run it elsewhere in
\* the pool; and no CLI takes the place of the wanted one without consent.
THEOREM FallbacksAreNotSilent == DispatchSpec => []NoSilentFallback
<1>1. DispatchInv => NoSilentFallback
  BY DEF DispatchInv
<1> QED BY <1>1, DispatchHolds, PTL
-----------------------------------------------------------------------------
(* The commands that change the wheel and the skills                        *)

\* The wheel is that of a command that has begun, a place the command names is
\* brought up to date or is still to be visited, and so all are when it exits 0.
SkillsAsked == ~cmd.dryRun /\ (cmd.verb = "update" => ~cmd.noSkills)

Done(p) ==
    /\ skill[p] = IF cmd.verb = "uninstall" THEN Absent ELSE wheel
    /\ cmd.verb \in {"update", "upgrade"} => marker[p] = wheel

\* What a visit is to leave at a place.
NowDone(p) ==
    /\ skill'[p] = IF cmd.verb = "uninstall" THEN Absent ELSE wheel
    /\ cmd.verb \in {"update", "upgrade"} => marker'[p] = wheel

KnownCommand == cmd \in UpdateCommands \cup SkillCommands

VisitInv ==
    updateStage \in {"skills", "marker"} /\ SkillsAsked =>
        \A p \in NamedPlaces(cmd) : p \in PlacesAt(todo) \/ Done(p)

UpdateInv ==
    /\ UpdateTypeOK
    /\ updateStage # "idle" \/ cmdResult = "ok" => KnownCommand
    /\ updateStage = "pip" =>
         /\ cmd.verb = "update"
         /\ todo = {i \in DOMAIN SkillTargets : SkillTargets[i] \in NamedPlaces(cmd)}
    /\ updateStage = "marker" =>
         /\ todo # {} /\ ~cmd.dryRun
         /\ skill[Place] = IF cmd.verb = "uninstall" THEN Absent ELSE wheel
    /\ VisitInv
    /\ ExitZeroMeansDone

\* The next place is one of those to be visited.
LEMMA PositionIsNext ==
    ASSUME UpdateTypeOK, todo # {}
    PROVE  Position \in todo /\ Place \in Places
<1>1. todo \subseteq Nat
  BY DEF UpdateTypeOK, SkillTargets
<1>2. \E i \in todo : \A j \in todo : i <= j
  BY <1>1, LeastNatural
<1>3. Position \in todo
  BY <1>2 DEF Position
<1> QED BY <1>3 DEF Place, Places, PlacesAt, UpdateTypeOK

\* After a visit only the place visited is no longer to be visited.
LEMMA OthersRemain ==
    ASSUME NEW p, p \in PlacesAt(todo), p # Place
    PROVE  p \in PlacesAt(Rest)
<1>1. PICK i \in todo : p = SkillTargets[i]
  BY DEF PlacesAt
<1>2. i \in Rest
  BY <1>1 DEF Place, Rest
<1> QED BY <1>1, <1>2 DEF PlacesAt

LEMMA PlacesAreNamed ==
    ASSUME NEW c
    PROVE  /\ NamedPlaces(c) \subseteq Places
           /\ NamedPlaces(c) =
                PlacesAt({i \in DOMAIN SkillTargets : SkillTargets[i] \in NamedPlaces(c)})
<1>1. NamedPlaces(c) \subseteq Places
  BY DEF NamedPlaces
<1> QED BY <1>1 DEF Places, PlacesAt

LEMMA ContentsHold == Absent \in Contents /\ NoVersion \in Contents /\ 1..MaxVersion \subseteq Contents
BY DEF Contents

\* A command that has not ended well says nothing.
LEMMA EndsBadly ==
    ASSUME UpdateInv, UpdateTypeOK', cmdResult' # "ok", updateStage' = "idle"
    PROVE  UpdateInv'
BY DEF UpdateInv, VisitInv, ExitZeroMeansDone

\* A visit that leaves the place done, and every other place alone.
LEMMA VisitKeeps ==
    ASSUME UpdateInv, UpdateTypeOK', todo # {}, updateStage \in {"skills", "marker"},
           todo' = Rest, updateStage' = "skills", Kept, UNCHANGED cmdResult,
           SkillsAsked => NowDone(Place),
           \A p \in Places : p # Place => skill'[p] = skill[p] /\ marker'[p] = marker[p]
    PROVE  UpdateInv'
<1>k. UNCHANGED <<cmd, wheel>>
  BY DEF Kept
<1>1. VisitInv'
  <2> SUFFICES ASSUME SkillsAsked, NEW p \in NamedPlaces(cmd)
               PROVE  p \in PlacesAt(todo)' \/ Done(p)'
    BY <1>k DEF VisitInv, SkillsAsked
  <2>1. CASE p = Place
    BY <2>1, <1>k DEF NowDone, Done
  <2>2. CASE p # Place /\ p \in PlacesAt(todo)
    BY <2>2, OthersRemain
  <2>3. CASE p # Place /\ Done(p)
    BY <2>3, <1>k, PlacesAreNamed DEF Done
  <2>4. p \in PlacesAt(todo) \/ Done(p)
    BY DEF UpdateInv, VisitInv
  <2> QED BY <2>1, <2>2, <2>3, <2>4
<1>2. KnownCommand'
  BY <1>k DEF UpdateInv, KnownCommand
<1> QED BY <1>1, <1>2 DEF UpdateInv, ExitZeroMeansDone

\* Every step of a command keeps the invariant.
THEOREM UpdateHolds == UpdateSpec => []UpdateInv
<1>v. MaxVersion \in Nat \ {0} /\ MaxCommands \in Nat
  BY VersionsAssumption
<1>1. UpdateInit => UpdateInv
  <2> SUFFICES ASSUME UpdateInit PROVE UpdateInv
    OBVIOUS
  <2>1. skill \in [Places -> Contents]
    BY <1>v, ContentsHold DEF UpdateInit
  <2>2. marker \in [Places -> Contents]
    BY <1>v, ContentsHold DEF UpdateInit
  <2>3. UpdateTypeOK
    BY <1>v, <2>1, <2>2 DEF UpdateInit, UpdateTypeOK
  <2> QED BY <2>3 DEF UpdateInit, UpdateInv, VisitInv, ExitZeroMeansDone
<1>2. UpdateInv /\ [UpdateNext]_updateVars => UpdateInv'
  <2> SUFFICES ASSUME UpdateInv, [UpdateNext]_updateVars PROVE UpdateInv'
    OBVIOUS
  <2>t. UpdateTypeOK
    BY DEF UpdateInv
  <2>s. /\ skill \in [Places -> Contents] /\ marker \in [Places -> Contents]
        /\ wheel \in 1..MaxVersion
    BY <2>t DEF UpdateTypeOK
  <2>1. ASSUME NEW c \in UpdateCommands \cup SkillCommands, Start(c) PROVE UpdateInv'
    <3>1. /\ cmd' = c /\ commands' \in 0..MaxCommands /\ running' = wheel
          /\ UNCHANGED <<installKind, wheel, skill, marker>>
      BY <2>1, <2>t, <1>v DEF Start, fileVars, UpdateTypeOK
    <3>2. CASE Ends("refused")
      <4>1. UpdateTypeOK'
        BY <3>1, <3>2, <2>t DEF UpdateTypeOK, Ends
      <4> QED BY <4>1, <3>2, EndsBadly DEF Ends
    <3>3. CASE /\ updateStage' = IF c.verb = "update" THEN "pip" ELSE "skills"
               /\ todo' = {i \in DOMAIN SkillTargets : SkillTargets[i] \in NamedPlaces(c)}
               /\ cmdResult' = "none"
      <4>1. UpdateTypeOK'
        BY <3>1, <3>3, <2>t DEF UpdateTypeOK
      <4>2. VisitInv'
        BY <3>1, <3>3, PlacesAreNamed DEF VisitInv
      <4>3. KnownCommand'
        BY <3>1 DEF KnownCommand
      <4>4. updateStage' \in {"pip", "skills"} /\ (updateStage' = "pip" => c.verb = "update")
        BY <3>3
      <4> QED BY <3>1, <3>3, <4>1, <4>2, <4>3, <4>4 DEF UpdateInv, ExitZeroMeansDone
    <3> QED BY <2>1, <3>2, <3>3 DEF Start
  <2>2. CASE RunPipUpgrade
    <3>1. UNCHANGED <<installKind, running, skill, marker, cmd, commands>>
      BY <2>2 DEF RunPipUpgrade
    <3>2. CASE /\ IF cmd.dryRun THEN UNCHANGED wheel ELSE wheel' \in 1..MaxVersion
               /\ todo' = IF cmd.noSkills THEN {} ELSE todo
               /\ updateStage' = "skills"
               /\ UNCHANGED cmdResult
      <4>1. UpdateTypeOK'
        BY <3>1, <3>2, <2>t DEF UpdateTypeOK
      <4>2. /\ todo = {i \in DOMAIN SkillTargets : SkillTargets[i] \in NamedPlaces(cmd)}
            /\ cmd.verb = "update" /\ KnownCommand
        BY <2>2 DEF UpdateInv, RunPipUpgrade
      <4>3. VisitInv'
        <5> SUFFICES ASSUME SkillsAsked', NEW p \in NamedPlaces(cmd)
                     PROVE  p \in PlacesAt(todo)'
          BY <3>1 DEF VisitInv
        <5>1. todo' = todo
          BY <3>1, <3>2, <4>2 DEF SkillsAsked
        <5>2. p \in PlacesAt(todo)
          BY <4>2, PlacesAreNamed
        <5> QED BY <5>1, <5>2
      <4>4. KnownCommand'
        BY <3>1, <4>2 DEF KnownCommand
      <4> QED BY <3>1, <3>2, <4>1, <4>3, <4>4 DEF UpdateInv, ExitZeroMeansDone
    <3>3. CASE Ends("error") /\ UNCHANGED wheel
      <4>1. UpdateTypeOK'
        BY <3>1, <3>3, <2>t DEF UpdateTypeOK, Ends
      <4> QED BY <4>1, <3>3, EndsBadly DEF Ends
    <3> QED BY <2>2, <3>2, <3>3 DEF RunPipUpgrade
  <2>3. CASE SkipPlace
    <3>1. /\ updateStage = "skills" /\ todo # {} /\ todo' = Rest /\ LeavesAlone(Place)
          /\ UNCHANGED <<updateStage, cmdResult, skill, marker, wheel, cmd, installKind,
                         running, commands>>
      BY <2>3 DEF SkipPlace, AtPlace, Kept
    <3>2. UpdateTypeOK'
      BY <3>1, <2>t DEF UpdateTypeOK, Rest
    <3>3. KnownCommand
      BY <3>1 DEF UpdateInv
    <3>4. SkillsAsked => NowDone(Place)
      BY <3>1, <3>3 DEF SkillsAsked, LeavesAlone, NowDone, KnownCommand, UpdateCommands,
         SkillCommands
    <3> QED BY <3>1, <3>2, <3>4, VisitKeeps DEF Kept
  <2>4. CASE WriteSkill
    <3>1. /\ updateStage = "skills" /\ todo # {} /\ updateStage' = "marker"
          /\ cmd.verb # "uninstall" /\ ~cmd.dryRun
          /\ skill' = [skill EXCEPT ![Place] = wheel]
          /\ UNCHANGED <<cmdResult, marker, todo, wheel, cmd, installKind, running, commands>>
      BY <2>4 DEF WriteSkill, AtPlace, Kept, LeavesAlone
    <3>2. Place \in Places /\ Place' = Place
      BY <3>1, <2>t, PositionIsNext DEF Place, Position
    <3>3. skill' \in [Places -> Contents] /\ skill'[Place] = wheel
      BY <3>1, <3>2, <2>s, ContentsHold
    <3>4. UpdateTypeOK'
      BY <3>1, <3>3, <2>t DEF UpdateTypeOK
    <3>5. VisitInv'
      <4> SUFFICES ASSUME SkillsAsked, NEW p \in NamedPlaces(cmd)
                   PROVE  p \in PlacesAt(todo) \/ Done(p)'
        BY <3>1 DEF VisitInv, SkillsAsked, PlacesAt
      <4>1. CASE p = Place
        BY <4>1, <3>1, <2>t, PositionIsNext DEF PlacesAt, Place
      <4>2. CASE p # Place /\ Done(p)
        BY <4>2, <3>1, <2>s, PlacesAreNamed DEF Done
      <4> QED BY <4>1, <4>2, <3>1 DEF UpdateInv, VisitInv
    <3>6. KnownCommand'
      BY <3>1 DEF UpdateInv, KnownCommand
    <3> QED BY <3>1, <3>2, <3>3, <3>4, <3>5, <3>6 DEF UpdateInv, ExitZeroMeansDone
  <2>5. CASE RemoveSkill
    <3>1. /\ updateStage = "skills" /\ todo # {} /\ cmd.verb = "uninstall" /\ ~cmd.dryRun
          /\ skill' = [skill EXCEPT ![Place] = Absent]
          /\ UNCHANGED <<cmdResult, marker, wheel, cmd, installKind, running, commands>>
      BY <2>5 DEF RemoveSkill, AtPlace, Kept, LeavesAlone
    <3>2. Place \in Places
      BY <3>1, <2>t, PositionIsNext
    <3>3. skill' \in [Places -> Contents] /\ skill'[Place] = Absent
      BY <3>1, <3>2, <2>s, ContentsHold
    <3>4. \A p \in Places : p # Place => skill'[p] = skill[p]
      BY <3>1, <2>s
    <3>5. CASE todo' = Rest /\ UNCHANGED updateStage
      <4>1. UpdateTypeOK'
        BY <3>1, <3>3, <3>5, <2>t DEF UpdateTypeOK, Rest
      <4>2. NowDone(Place)
        BY <3>1, <3>3 DEF NowDone
      <4> QED BY <3>1, <3>4, <3>5, <4>1, <4>2, VisitKeeps DEF Kept
    <3>6. CASE updateStage' = "marker" /\ UNCHANGED todo
      <4>1. UpdateTypeOK'
        BY <3>1, <3>3, <3>6, <2>t DEF UpdateTypeOK
      <4>2. VisitInv'
        <5> SUFFICES ASSUME SkillsAsked, NEW p \in NamedPlaces(cmd)
                     PROVE  p \in PlacesAt(todo) \/ Done(p)'
          BY <3>1, <3>6 DEF VisitInv, SkillsAsked, PlacesAt
        <5>1. CASE p = Place
          BY <5>1, <3>1, <2>t, PositionIsNext DEF PlacesAt, Place
        <5>2. CASE p # Place /\ Done(p)
          BY <5>2, <3>1, <3>4, PlacesAreNamed DEF Done
        <5> QED BY <5>1, <5>2, <3>1 DEF UpdateInv, VisitInv
      <4>3. KnownCommand'
        BY <3>1 DEF UpdateInv, KnownCommand
      <4>4. Place' = Place
        BY <3>6 DEF Place, Position
      <4> QED BY <3>1, <3>3, <3>6, <4>1, <4>2, <4>3, <4>4 DEF UpdateInv, ExitZeroMeansDone
    <3> QED BY <2>5, <3>5, <3>6 DEF RemoveSkill
  <2>6. CASE WriteMarker
    <3>1. /\ updateStage = "marker" /\ updateStage' = "skills" /\ todo' = Rest
          /\ marker' = [marker EXCEPT ![Place] =
                           IF cmd.verb = "uninstall" THEN Absent ELSE wheel]
          /\ UNCHANGED <<cmdResult, skill, wheel, cmd, installKind, running, commands>>
      BY <2>6 DEF WriteMarker, Kept
    <3>2. /\ todo # {} /\ Place \in Places
          /\ skill[Place] = IF cmd.verb = "uninstall" THEN Absent ELSE wheel
      BY <3>1, <2>t, PositionIsNext DEF UpdateInv
    <3>3. /\ marker' \in [Places -> Contents]
          /\ marker'[Place] = IF cmd.verb = "uninstall" THEN Absent ELSE wheel
      BY <3>1, <3>2, <2>s, ContentsHold
    <3>4. \A p \in Places : p # Place => marker'[p] = marker[p]
      BY <3>1, <2>s
    <3>5. UpdateTypeOK'
      BY <3>1, <3>3, <2>t DEF UpdateTypeOK, Rest
    <3>6. NowDone(Place)
      BY <3>1, <3>2, <3>3 DEF NowDone
    <3> QED BY <3>1, <3>2, <3>4, <3>5, <3>6, VisitKeeps DEF Kept
  <2>7. CASE WriteFails
    <3>1. Ends("error") /\ Kept
      BY <2>7 DEF WriteFails
    <3>2. skill' \in [Places -> Contents] /\ marker' \in [Places -> Contents]
      BY <2>7, <2>s, ContentsHold DEF WriteFails
    <3>3. UpdateTypeOK'
      BY <3>1, <3>2, <2>t DEF UpdateTypeOK, Ends, Kept
    <3> QED BY <3>1, <3>3, EndsBadly DEF Ends
  <2>8. CASE Finish
    <3>1. /\ updateStage = "skills" /\ todo = {} /\ updateStage' = "idle" /\ todo' = {}
          /\ cmdResult' \in {"drift", "ok"}
          /\ UNCHANGED <<installKind, running, wheel, skill, marker, cmd, commands>>
      BY <2>8 DEF Finish, Ends, fileVars
    <3>2. UpdateTypeOK'
      BY <3>1, <2>t DEF UpdateTypeOK
    <3>3. SkillsAsked => \A p \in NamedPlaces(cmd) : Done(p)
      BY <3>1 DEF UpdateInv, VisitInv, PlacesAt
    <3>4. ExitZeroMeansDone'
      BY <3>1, <3>3 DEF ExitZeroMeansDone, SkillsAsked, Done
    <3>5. KnownCommand'
      BY <3>1 DEF UpdateInv, KnownCommand
    <3> QED BY <3>1, <3>2, <3>4, <3>5 DEF UpdateInv, VisitInv
  <2>9. CASE Killed
    <3>1. UpdateTypeOK'
      BY <2>9, <2>t DEF Killed, Ends, fileVars, UpdateTypeOK
    <3> QED BY <2>9, <3>1, EndsBadly DEF Killed, Ends
  <2>10. CASE UNCHANGED updateVars
    BY <2>10 DEF updateVars, fileVars, UpdateInv, UpdateTypeOK, KnownCommand, VisitInv,
       ExitZeroMeansDone, SkillsAsked, Done, PlacesAt, Place, Position
  <2> QED BY <2>1, <2>2, <2>3, <2>4, <2>5, <2>6, <2>7, <2>8, <2>9, <2>10 DEF UpdateNext
<1> QED BY <1>1, <1>2, PTL DEF UpdateSpec

\* The state of the commands keeps its types: a skill file holds nothing, a text
\* without a version or the skill of some wheel, and so does its marker.
THEOREM UpdateTypeCorrect == UpdateSpec => []UpdateTypeOK
<1>1. UpdateInv => UpdateTypeOK
  BY DEF UpdateInv
<1> QED BY <1>1, UpdateHolds, PTL

\* A command that exits 0 has done what it was to do at every place it names
\* (self_update.py, update_all; skill_install.py, skill_upgrade.py,
\* skill_uninstall.py), for every number of versions and of commands.
THEOREM ExitZeroIsEarned == UpdateSpec => []ExitZeroMeansDone
<1>1. UpdateInv => ExitZeroMeansDone
  BY DEF UpdateInv
<1> QED BY <1>1, UpdateHolds, PTL
-----------------------------------------------------------------------------
(* The worker of a directory                                                *)

\* A start that has not forked has no worker; the worker that a stop has found had
\* become one, and nothing undoes that.
WorkerProcInv ==
    /\ WorkerTypeOK
    /\ \A s \in Starters : startPc[s] \in {"idle", "looked"} => proc[s] = "none"
    /\ stopPc \in {"found", "polling"} =>
           stopFound \in Starters /\ proc[stopFound] \in {"running", "dead"}

\* The step of one worker that ends.
LEMMA DeadIsDead ==
    ASSUME WorkerTypeOK, NEW s \in Starters, Dies(s)
    PROVE  /\ proc' \in [Starters -> {"none", "forked", "running", "failed", "dead"}]
           /\ proc'[s] = "dead" /\ \A r \in Starters \ {s} : proc'[r] = proc[r]
           /\ UNCHANGED <<termed, session>>
<1>1. proc' = [proc EXCEPT ![s] = "dead"] /\ UNCHANGED <<termed, session>>
  BY DEF Dies, ProcGoes
<1>2. proc \in [Starters -> {"none", "forked", "running", "failed", "dead"}]
  BY DEF WorkerTypeOK
<1> QED BY <1>1, <1>2

LEMMA StartMoves ==
    ASSUME WorkerTypeOK, NEW s \in Starters, NEW pc, StartGoes(s, pc),
           pc \in {"idle", "looked", "forking", "spawned", "waiting", "ended", "signaled", "killed"}
    PROVE  /\ startPc' \in [Starters -> {"idle", "looked", "forking", "spawned", "waiting",
                                         "ended", "signaled", "killed"}]
           /\ startPc'[s] = pc /\ \A r \in Starters \ {s} : startPc'[r] = startPc[r]
           /\ UNCHANGED detached
<1>1. startPc' = [startPc EXCEPT ![s] = pc] /\ UNCHANGED detached
  BY DEF StartGoes
<1>2. startPc \in [Starters -> {"idle", "looked", "forking", "spawned", "waiting",
                                "ended", "signaled", "killed"}]
  BY DEF WorkerTypeOK
<1> QED BY <1>1, <1>2

\* What a step of a start or of its worker may do to the two.
StartSteps(s) ==
    /\ UNCHANGED <<detached, stopVars, session, statusVars, sendVars>>
    /\ startPc' \in [Starters -> {"idle", "looked", "forking", "spawned", "waiting",
                                  "ended", "signaled", "killed"}]
    /\ proc' \in [Starters -> {"none", "forked", "running", "failed", "dead"}]
    /\ termed' \subseteq Starters
    /\ \A r \in Starters : proc[r] \in {"running", "dead"} => proc'[r] \in {"running", "dead"}
    /\ \A r \in Starters : startPc'[r] \in {"idle", "looked"} => proc'[r] = "none"
    /\ \A r \in Starters :
          (startPc[r] = "waiting" /\ startPc'[r] \notin {"waiting", "killed"}) => proc[r] = "dead"

LEMMA StartStepIs ==
    ASSUME WorkerProcInv, NEW s \in Starters, StartStep(s)
    PROVE  StartSteps(s)
<1> DEFINE Pcs == {"idle", "looked", "forking", "spawned", "waiting", "ended", "signaled",
                   "killed"}
           Procs == {"none", "forked", "running", "failed", "dead"}
<1>t. /\ startPc \in [Starters -> Pcs] /\ proc \in [Starters -> Procs]
      /\ termed \subseteq Starters /\ WorkerTypeOK
      /\ \A r \in Starters : startPc[r] \in {"idle", "looked"} => proc[r] = "none"
  BY DEF WorkerProcInv, WorkerTypeOK
\* The wrapper moves and leaves the worker alone.
<1>a. ASSUME NEW pc \in Pcs, startPc[s] # "waiting" \/ proc[s] = "dead" \/ pc = "killed",
             StartGoes(s, pc), OnlyStart, UNCHANGED proc, pc \in {"idle", "looked"} => startPc[s] \in {"idle", "looked"}
      PROVE  StartSteps(s)
  <2>1. /\ startPc' \in [Starters -> Pcs] /\ UNCHANGED detached /\ startPc'[s] = pc
        /\ \A r \in Starters \ {s} : startPc'[r] = startPc[r]
    BY <1>a, <1>t, StartMoves
  <2>2. UNCHANGED <<proc, termed, stopVars, session, statusVars, sendVars>>
    BY <1>a DEF OnlyStart
  <2> QED BY <1>t, <1>a, <2>1, <2>2 DEF StartSteps
\* The wrapper forks.
<1>b. ASSUME startPc[s] = "looked", NEW pc \in {"forking", "ended"}, StartGoes(s, pc), OnlyStart,
             ProcGoes(s, "forked")
      PROVE  StartSteps(s)
  <2>1. /\ startPc' \in [Starters -> Pcs] /\ UNCHANGED detached /\ startPc'[s] = pc
        /\ \A r \in Starters \ {s} : startPc'[r] = startPc[r]
    BY <1>b, <1>t, StartMoves
  <2>2. UNCHANGED <<termed, stopVars, session, statusVars, sendVars>>
    BY <1>b DEF OnlyStart
  <2>3. /\ proc' \in [Starters -> Procs] /\ proc[s] = "none"
        /\ \A r \in Starters \ {s} : proc'[r] = proc[r]
    BY <1>b, <1>t DEF ProcGoes
  <2> QED BY <1>t, <1>b, <2>1, <2>2, <2>3 DEF StartSteps
\* The worker moves.
<1>c. ASSUME UNCHANGED <<startVars, termed, session>>, OnlyProc, proc[s] \in {"forked", "running"},
             proc' \in [Starters -> Procs],
             proc[s] = "running" => proc'[s] = "dead",
             \A r \in Starters \ {s} : proc'[r] = proc[r]
      PROVE  StartSteps(s)
  <2>1. UNCHANGED <<startPc, detached, termed, stopVars, session, statusVars, sendVars>>
    BY <1>c DEF startVars, OnlyProc
  <2> QED BY <1>t, <1>c, <2>1 DEF StartSteps
<1>1. CASE Look(s)
  BY <1>1, <1>a DEF Look
<1>2. CASE Fork(s)
  BY <1>2, <1>b DEF Fork
<1>3. CASE PopenReturns(s)
  BY <1>3, <1>a DEF PopenReturns
<1>4. CASE InstallHandlers(s)
  BY <1>4, <1>a DEF InstallHandlers
<1>5. CASE WaitReturns(s)
  BY <1>5, <1>a DEF WaitReturns
<1>6. CASE Detach(s)
  BY <1>6, <1>a, <1>b DEF Detach
<1>7. CASE SignalWrapper(s)
  <2>1. CASE startPc[s] \in {"looked", "forking", "spawned"} /\ StartGoes(s, "signaled")
             /\ UNCHANGED termed
    BY <1>7, <1>a, <2>1 DEF SignalWrapper, OnlyStart, procVars
  <2>2. CASE termed' = termed \cup {s} /\ UNCHANGED startVars
    <3>1. UNCHANGED <<startPc, detached, proc, stopVars, session, statusVars, sendVars>>
      BY <1>7, <2>2 DEF SignalWrapper, startVars
    <3> QED BY <1>t, <2>2, <3>1 DEF StartSteps
  <2> QED BY <1>7, <2>1, <2>2 DEF SignalWrapper
<1>8. CASE Exec(s)
  <2>1. PICK p \in {"running", "failed"} : proc' = [proc EXCEPT ![s] = p]
    BY <1>8 DEF Exec, ProcGoes
  <2>2. proc[s] = "forked" /\ UNCHANGED <<termed, session>> /\ OnlyProc
    BY <1>8 DEF Exec
  <2>3. proc' \in [Starters -> Procs] /\ \A r \in Starters \ {s} : proc'[r] = proc[r]
    BY <1>t, <2>1
  <2> QED BY <1>t, <1>c, <2>2, <2>3 DEF OnlyProc
<1>9. CASE WorkerEnds(s)
  <2>1. proc[s] = "running" /\ Dies(s) /\ OnlyProc
    BY <1>9 DEF WorkerEnds, Dies
  <2> QED BY <1>t, <1>c, <2>1, DeadIsDead DEF OnlyProc
<1>k. CASE KillWrapper(s)
  BY <1>k, <1>a DEF KillWrapper
<1> QED BY <1>1, <1>2, <1>3, <1>4, <1>5, <1>6, <1>7, <1>8, <1>9, <1>k DEF StartStep

\* What a command that is no start does to the processes.
LEMMA StopStepIs ==
    ASSUME WorkerProcInv, Term \/ Polled \/ GraceExpires
    PROVE  /\ WorkerProcInv'
           /\ stopPc' = "over" => proc'[stopFound'] # "running"
           /\ UNCHANGED <<startVars, statusVars, sendVars>>
<1> DEFINE Procs == {"none", "forked", "running", "failed", "dead"}
<1>t. /\ stopFound \in Starters /\ stopPc \in {"found", "polling"} /\ WorkerTypeOK
      /\ proc \in [Starters -> Procs] /\ proc[stopFound] \in {"running", "dead"}
      /\ termed \subseteq Starters /\ session \in [Starters -> {Nothing, "now", "before"}]
  BY DEF WorkerProcInv, WorkerTypeOK, Term, Polled, GraceExpires
<1>1. /\ stopFound' = stopFound /\ stopPc' \in {"polling", "over"}
      /\ UNCHANGED <<startPc, detached, statusVars, sendVars>>
  BY DEF Term, Polled, GraceExpires, StopGoes, OnlyStop, startVars
<1>2. /\ termed' \subseteq Starters /\ session' = session
      /\ proc' = proc \/ Dies(stopFound)
  BY <1>t, DeadIsDead DEF Term, Polled, GraceExpires, StopGoes, procVars, Dies
<1>3. /\ proc' \in [Starters -> Procs] /\ proc'[stopFound] \in {"running", "dead"}
      /\ \A r \in Starters : proc'[r] = proc[r] \/ (r = stopFound /\ proc'[r] = "dead")
  BY <1>t, <1>2, DeadIsDead
<1>4. stopPc' = "over" => proc'[stopFound] # "running"
  <2>1. CASE Term
    BY <1>t, <2>1 DEF Term, StopGoes
  <2>2. CASE Polled
    BY <1>t, <2>2 DEF Polled, procVars
  <2>3. CASE GraceExpires
    BY <1>t, <2>3, DeadIsDead DEF GraceExpires, procVars
  <2> QED BY <2>1, <2>2, <2>3
<1>5. WorkerTypeOK'
  BY <1>t, <1>1, <1>2, <1>3 DEF WorkerTypeOK, statusVars, sendVars
<1>6. \A r \in Starters : startPc'[r] \in {"idle", "looked"} => proc'[r] = "none"
  BY <1>t, <1>1, <1>3 DEF WorkerProcInv
<1> QED BY <1>t, <1>1, <1>3, <1>4, <1>5, <1>6 DEF WorkerProcInv, startVars, statusVars, sendVars

LEMMA StatusStepIs ==
    ASSUME WorkerTypeOK, NEW s \in Starters, StatusStep(s)
    PROVE  /\ WorkerTypeOK' /\ UNCHANGED <<startVars, procVars, stopVars>>
           /\ (~note /\ note' /\ served') => session[answered'] = Nothing
<1>1. UNCHANGED <<startPc, detached, proc, termed, stopPc, stopFound, sendPc, sendName>>
  BY DEF StatusStep, SessionMoves, AskHealth, AskReady, AskMetrics, Answers, OnlyStatus,
     startVars, procVars, stopVars, sendVars
<1>2. CASE SessionMoves(s)
  <2>1. UNCHANGED <<statusPc, answered, health, claimed, served, note>>
    BY <1>2 DEF SessionMoves, statusVars
  <2>2. session' \in [Starters -> {Nothing, "now", "before"}]
    BY <1>2 DEF SessionMoves, WorkerTypeOK
  <2> QED BY <1>1, <2>1, <2>2 DEF WorkerTypeOK, startVars, procVars, stopVars
<1>3. CASE AskHealth(s) \/ AskReady(s)
  <2>1. /\ answered' = s /\ statusPc' \in {"healthy", "ready"} /\ UNCHANGED <<session, served, note>>
        /\ health' \in {"ok", "bad"} /\ claimed' \in BOOLEAN
    BY <1>3 DEF AskHealth, AskReady, Answers, WorkerTypeOK
  <2> QED BY <1>1, <2>1 DEF WorkerTypeOK, startVars, procVars, stopVars
<1>4. CASE AskMetrics(s)
  <2>1. /\ answered' = s /\ statusPc' = "over" /\ UNCHANGED <<session, health, claimed>>
    BY <1>4 DEF AskMetrics, Answers
  <2>2. PICK active \in Gauge(session[s] = "now"), last \in Gauge(session[s] # Nothing) :
             served' = (last # "missing") /\ note' = IsWorkerIdle(active, last)
    BY <1>4 DEF AskMetrics
  <2>3. served' \in BOOLEAN /\ note' \in BOOLEAN
    BY <2>2 DEF IsWorkerIdle
  <2>4. (note' /\ served') => session[s] = Nothing
    BY <2>2 DEF IsWorkerIdle, Gauge
  <2> QED BY <1>1, <2>1, <2>3, <2>4 DEF WorkerTypeOK, startVars, procVars, stopVars
<1> QED BY <1>2, <1>3, <1>4 DEF StatusStep

LEMMA UnreachableIs ==
    ASSUME WorkerTypeOK, Unreachable
    PROVE  WorkerTypeOK' /\ UNCHANGED <<startVars, procVars, stopVars, note>>
<1>1. /\ UNCHANGED <<startPc, detached, proc, termed, stopPc, stopFound, sendPc, sendName>>
      /\ UNCHANGED <<answered, health, claimed, served, note, session>> /\ statusPc' = "over"
  BY DEF Unreachable, OnlyStatus, startVars, procVars, stopVars, sendVars
<1> QED BY <1>1 DEF WorkerTypeOK, startVars, procVars, stopVars

LEMMA SendStepIs ==
    ASSUME WorkerTypeOK, Name \/ Enforce \/ Send
    PROVE  WorkerTypeOK' /\ OnlySend
<1>1. OnlySend
  BY DEF Name, Enforce, Send
<1>2. sendName' \in {CustomName, DefaultName}
  BY DEF Name, Enforce, Send, WorkerName, WorkerTypeOK
<1>3. sendPc' \in {"idle", "named", "checked", "posted", "refused"}
  BY DEF Name, Enforce, Send, CheckOutcomes, SendOutcomes
<1> QED BY <1>1, <1>2, <1>3 DEF WorkerTypeOK, OnlySend, startVars, procVars, stopVars, statusVars

LEMMA FindStepIs ==
    ASSUME WorkerProcInv, Find
    PROVE  WorkerProcInv' /\ stopPc' # "over" /\ UNCHANGED <<startVars, statusVars>>
<1>1. UNCHANGED <<startPc, detached, proc, termed, session, statusVars, sendVars>>
  BY DEF Find, OnlyStop, startVars, procVars
<1>2. \/ \E s \in Starters : proc[s] = "running" /\ stopPc' = "found" /\ stopFound' = s
      \/ stopPc' = "nobody" /\ stopFound' = Nothing
  BY DEF Find, StopGoes, Visible
<1>3. WorkerTypeOK'
  BY <1>1, <1>2 DEF WorkerProcInv, WorkerTypeOK, statusVars, sendVars
<1> QED BY <1>1, <1>2, <1>3 DEF WorkerProcInv, startVars

\* Every step keeps the invariant, and with it what is said of the worker.
LEMMA WorkerStep ==
    ASSUME WorkerProcInv, [WorkerNext]_workerVars
    PROVE  /\ WorkerProcInv'
           /\ (stopPc # "over" /\ stopPc' = "over") => proc'[stopFound'] # "running"
           /\ \A s \in Starters :
                 (~detached[s] /\ startPc[s] = "waiting" /\ startPc'[s] \notin {"waiting", "killed"})
                 => proc[s] = "dead"
           /\ (~note /\ note' /\ served') => session[answered'] = Nothing
<1>t. WorkerTypeOK
  BY DEF WorkerProcInv
<1>1. ASSUME NEW s \in Starters, StartStep(s) PROVE StartSteps(s)
  BY <1>1, StartStepIs
<1>2. ASSUME NEW s \in Starters, StartSteps(s)
      PROVE  /\ WorkerProcInv' /\ UNCHANGED <<stopPc, note>>
             /\ \A r \in Starters : (startPc[r] = "waiting" /\ startPc'[r] \notin {"waiting", "killed"})
                                      => proc[r] = "dead"
  <2>1. UNCHANGED <<detached, stopPc, stopFound, session, statusPc, answered, health, claimed,
                    served, note, sendPc, sendName>>
    BY <1>2 DEF StartSteps, stopVars, statusVars, sendVars
  <2>2. WorkerTypeOK'
    BY <1>t, <1>2, <2>1 DEF WorkerTypeOK, StartSteps
  <2>3. stopPc \in {"found", "polling"} => stopFound \in Starters /\ proc'[stopFound] \in {"running", "dead"}
    BY <1>2 DEF StartSteps, WorkerProcInv
  <2> QED BY <1>2, <2>1, <2>2, <2>3 DEF StartSteps, WorkerProcInv
<1>3. CASE Term \/ Polled \/ GraceExpires
  BY <1>3, StopStepIs DEF startVars, statusVars
<1>4. CASE Find
  BY <1>4, FindStepIs DEF startVars, statusVars
<1>5. ASSUME NEW s \in Starters, StatusStep(s)
      PROVE  /\ WorkerProcInv' /\ UNCHANGED <<startPc, stopPc>>
             /\ (~note /\ note' /\ served') => session[answered'] = Nothing
  <2>1. WorkerTypeOK' /\ UNCHANGED <<startPc, detached, proc, termed, stopPc, stopFound>>
    BY <1>t, <1>5, StatusStepIs DEF startVars, procVars, stopVars
  <2>2. (~note /\ note' /\ served') => session[answered'] = Nothing
    BY <1>t, <1>5, StatusStepIs
  <2> QED BY <2>1, <2>2 DEF WorkerProcInv
<1>8. CASE Unreachable
  BY <1>t, <1>8, UnreachableIs DEF WorkerProcInv, startVars, procVars, stopVars
<1>6. CASE Name \/ Enforce \/ Send
  BY <1>t, <1>6, SendStepIs DEF WorkerProcInv, OnlySend, startVars, procVars, stopVars, statusVars
<1>7. CASE UNCHANGED workerVars
  BY <1>7 DEF workerVars, startVars, procVars, stopVars, statusVars, sendVars, WorkerProcInv,
     WorkerTypeOK
<1> QED BY <1>1, <1>2, <1>3, <1>4, <1>5, <1>6, <1>7, <1>8 DEF WorkerNext, WorkersOver

LEMMA WorkerHolds == WorkerSpec => []WorkerProcInv
<1>1. WorkerInit => WorkerProcInv
  BY DEF WorkerInit, WorkerProcInv, WorkerTypeOK
<1>2. WorkerProcInv /\ [WorkerNext]_workerVars => WorkerProcInv'
  BY WorkerStep
<1> QED BY <1>1, <1>2, PTL DEF WorkerSpec

\* The state of the commands about a worker keeps its types.
THEOREM WorkerTypeCorrect == WorkerSpec => []WorkerTypeOK
<1>1. WorkerProcInv => WorkerTypeOK
  BY DEF WorkerProcInv
<1> QED BY <1>1, WorkerHolds, PTL

\* For any number of starts: a stop that is over leaves the worker it found dead; a
\* wrapper that waits goes only after its worker, if no signal it does not trap ends it;
\* and the note of status is true of the worker that answered last, if that one has told
\* of its last activity (cloud_worker_cmd.py: cmd_worker_stop, _run_subprocess, _is_worker_idle).
THEOREM WorkersAreAsSaid == WorkerSpec => WorkerIsAsSaid
<1>1. WorkerProcInv /\ [WorkerNext]_workerVars =>
        [(stopPc # "over" /\ stopPc' = "over") => proc'[stopFound'] # "running"]_workerVars
  BY WorkerStep
<1>2. WorkerProcInv /\ [WorkerNext]_workerVars =>
        [\A s \in Starters :
            (~detached[s] /\ startPc[s] = "waiting" /\ startPc'[s] \notin {"waiting", "killed"})
            => proc[s] = "dead"]_workerVars
  BY WorkerStep
<1>3. WorkerProcInv /\ [WorkerNext]_workerVars =>
        [(~note /\ note' /\ served') => session[answered'] = Nothing]_workerVars
  BY WorkerStep
<1> QED BY <1>1, <1>2, <1>3, WorkerHolds, PTL
        DEF WorkerSpec, WorkerIsAsSaid, StopMeansDead, WrapperOutlivesWorker, NoteIsTrue

-----------------------------------------------------------------------------
(* The preferences                                                          *)

\* What the file and the command of p hold while nothing disturbs it.
AloneInv(p) ==
    /\ editPc[p] \in {"migrate", "migrating", "loaded", "edit", "writing"} =>
           seen[p] = started[p]
    /\ editPc[p] \in {"migrate", "migrating"} => edit[p] # "reset"
    /\ editPc[p] = "migrate" => toml = started[p]
    /\ editPc[p] = "loaded" =>
           toml = IF edit[p] = "reset" THEN started[p] ELSE Migrated(started[p])
    /\ editPc[p] \in {"edit", "writing"} =>
           reread[p].others = started[p].others /\ edit[p] # "load"

EditInv ==
    /\ PrefsTypeOK
    /\ \A p \in Editors : WellFormed(seen[p]) /\ WellFormed(started[p])
    /\ \A p \in Editors : (editPc[p] # "idle" /\ ~disturbed[p]) => AloneInv(p)


\* What the commands make of a content that is well formed.
LEMMA EditedWell ==
    ASSUME NEW c \in TomlContents, WellFormed(c)
    PROVE  /\ Migrated(c) \in TomlContents /\ WellFormed(Migrated(c))
           /\ Migrated(c).others = c.others
           /\ \A e \in Edits : /\ Edited(e, c) \in TomlContents /\ WellFormed(Edited(e, c))
                               /\ Edited(e, c).others = c.others
<1>1. /\ Migrated(c) \in TomlContents /\ WellFormed(Migrated(c))
      /\ Migrated(c).others = c.others
  BY DEF Migrated, TomlContents, WellFormed
<1>2. /\ WithoutPreferences(c) \in TomlContents /\ WellFormed(WithoutPreferences(c))
      /\ WithoutPreferences(c).others = c.others
  BY DEF WithoutPreferences, NothingRead, TomlContents, WellFormed
<1>3. /\ FromWizard(c) \in TomlContents /\ WellFormed(FromWizard(c))
      /\ FromWizard(c).others = c.others
  BY DEF FromWizard, TomlContents, WellFormed
<1>4. \A e : /\ WithSet(e, c) \in TomlContents /\ WellFormed(WithSet(e, c))
             /\ WithSet(e, c).others = c.others
  BY DEF WithSet, TomlContents, WellFormed
<1> QED BY <1>1, <1>2, <1>3, <1>4 DEF Edited, Edits

LEMMA SameOthers ==
    ASSUME NEW c \in TomlContents, NEW b \in BOOLEAN
    PROVE  /\ [c EXCEPT !.others = b] \in TomlContents
           /\ WellFormed(c) => WellFormed([c EXCEPT !.others = b])
           /\ c.others = b => [c EXCEPT !.others = b] = c
BY DEF TomlContents, WellFormed

LEMMA NothingIsWell == NothingRead \in TomlContents /\ WellFormed(NothingRead)
BY DEF NothingRead, TomlContents, WellFormed

\* Without preferences, and without a file, a reset has nothing to do.
LEMMA NothingToReset ==
    ASSUME NEW c \in TomlContents, WellFormed(c), c.form = "none"
    PROVE  Edited("reset", c) = c
BY DEF Edited, WithoutPreferences, NothingRead, TomlContents, WellFormed

\* A step of p that writes disturbs every other command, and one that does not leaves
\* the file as it is.
LEMMA OthersDisturbed ==
    ASSUME EditInv, NEW p \in Editors, NEW q \in Editors \ {p}, NEW pc,
           EditGoesTo(p, pc), seen'[q] = seen[q], reread'[q] = reread[q],
           started'[q] = started[q], UNCHANGED edit,
           \/ toml' = toml /\ disturbed'[q] = disturbed[q]
           \/ \E c : WriteToml(p, c)
    PROVE  /\ (editPc'[q] # "idle" /\ ~disturbed'[q]) => AloneInv(q)'
           /\ editPc'[q] = editPc[q]
<1>1. editPc'[q] = editPc[q]
  BY DEF EditInv, PrefsTypeOK, EditGoesTo
<1>2. CASE toml' = toml /\ disturbed'[q] = disturbed[q]
  BY <1>1, <1>2 DEF EditInv, AloneInv
<1>3. CASE \E c : WriteToml(p, c)
  <2>1. editPc[q] # "idle" => disturbed'[q]
    BY <1>3 DEF WriteToml
  <2> QED BY <1>1, <2>1
<1> QED BY <1>1, <1>2, <1>3

\* A step of p keeps the invariant if it does so for p.
LEMMA EditorMoves ==
    ASSUME EditInv, NEW p \in Editors,
           NEW pc \in {"idle", "migrate", "migrating", "loaded", "edit", "writing", "ended",
                       "killed"}, EditGoesTo(p, pc), UNCHANGED edit,
           toml' \in TomlContents, WellFormed(toml'),
           seen' \in [Editors -> TomlContents], WellFormed(seen'[p]),
           reread' \in [Editors -> TomlContents],
           started' \in [Editors -> TomlContents], WellFormed(started'[p]),
           disturbed' \in [Editors -> BOOLEAN],
           \A q \in Editors \ {p} : /\ seen'[q] = seen[q] /\ reread'[q] = reread[q]
                                    /\ started'[q] = started[q],
           \/ toml' = toml /\ \A q \in Editors \ {p} : disturbed'[q] = disturbed[q]
           \/ \E c : WriteToml(p, c),
           disturbed'[p] = FALSE => AloneInv(p)'
    PROVE  EditInv'
<1>1. PrefsTypeOK'
  BY DEF EditInv, PrefsTypeOK, EditGoesTo
<1>2. \A q \in Editors : WellFormed(seen'[q]) /\ WellFormed(started'[q])
  BY DEF EditInv
<1>3. ASSUME NEW q \in Editors \ {p}
      PROVE  (editPc'[q] # "idle" /\ ~disturbed'[q]) => AloneInv(q)'
  BY <1>3, OthersDisturbed
<1>4. \A q \in Editors : (editPc'[q] # "idle" /\ ~disturbed'[q]) => AloneInv(q)'
  BY <1>3
<1> QED BY <1>1, <1>2, <1>4 DEF EditInv


\* Every step keeps the invariant, and a command that ends undisturbed has done all it
\* was to do and nothing else.
LEMMA EditStep ==
    ASSUME EditInv, [PrefsNext]_prefsVars
    PROVE  /\ EditInv'
           /\ \A p \in Editors :
                 (editPc[p] # "ended" /\ editPc'[p] = "ended" /\ ~disturbed'[p])
                 => toml' = Edited(edit[p], started[p])
<1> DEFINE Pcs == {"idle", "migrate", "migrating", "loaded", "edit", "writing", "ended", "killed"}
           EndsWell(p) == (editPc[p] # "ended" /\ editPc'[p] = "ended" /\ ~disturbed'[p])
                          => toml' = Edited(edit[p], started[p])
<1>t. /\ toml \in TomlContents /\ WellFormed(toml) /\ edit \in [Editors -> Edits]
      /\ editPc \in [Editors -> Pcs] /\ disturbed \in [Editors -> BOOLEAN]
      /\ seen \in [Editors -> TomlContents] /\ reread \in [Editors -> TomlContents]
      /\ started \in [Editors -> TomlContents]
  BY DEF EditInv, PrefsTypeOK
<1>w. \A p \in Editors : /\ seen[p] \in TomlContents /\ WellFormed(seen[p])
                         /\ started[p] \in TomlContents /\ WellFormed(started[p])
                         /\ reread[p] \in TomlContents /\ edit[p] \in Edits
  BY <1>t DEF EditInv
<1>i. \A p \in Editors : (editPc[p] # "idle" /\ ~disturbed[p]) => AloneInv(p)
  BY DEF EditInv
\* Only the command that moves can end.
<1>o. ASSUME NEW p \in Editors, NEW pc \in Pcs, EditGoesTo(p, pc)
      PROVE  editPc'[p] = pc /\ \A q \in Editors \ {p} : editPc'[q] = editPc[q]
  BY <1>t, <1>o DEF EditGoesTo
\* What a write does to disturbed.
<1>d. ASSUME NEW p \in Editors, NEW c, WriteToml(p, c)
      PROVE  disturbed' \in [Editors -> BOOLEAN] /\ disturbed'[p] = disturbed[p] /\ toml' = c
  BY <1>t, <1>d DEF WriteToml
<1>1. ASSUME NEW p \in Editors, Load(p) PROVE EditInv' /\ \A q \in Editors : EndsWell(q)
  <2> DEFINE pc == IF toml.form = "flat" /\ edit[p] # "reset" THEN "migrate" ELSE "loaded"
  <2>1. /\ EditGoesTo(p, pc) /\ UNCHANGED <<toml, disturbed, edit, reread>>
        /\ seen' = [seen EXCEPT ![p] = toml] /\ started' = [started EXCEPT ![p] = toml]
    BY <1>1 DEF Load, KeepToml
  <2>2. pc \in {"migrate", "loaded"} /\ (pc = "migrate" => edit[p] # "reset")
        /\ (pc = "loaded" /\ edit[p] # "reset" => Migrated(toml) = toml)
    BY DEF Migrated
  <2> HIDE DEF pc
  <2>3. editPc'[p] = pc /\ \A q \in Editors \ {p} : editPc'[q] = editPc[q]
    BY <1>o, <2>1, <2>2
  <2>4. seen'[p] = toml /\ started'[p] = toml
    BY <1>t, <2>1
  <2>5. AloneInv(p)'
    BY <2>1, <2>2, <2>3, <2>4 DEF AloneInv, Migrated
  <2>6. EditInv'
    <3>1. /\ seen' \in [Editors -> TomlContents] /\ started' \in [Editors -> TomlContents]
          /\ \A q \in Editors \ {p} : seen'[q] = seen[q] /\ started'[q] = started[q]
      BY <1>t, <2>1
    <3> QED BY <1>t, <2>1, <2>2, <2>4, <2>5, <3>1, EditorMoves
  <2> QED BY <2>2, <2>3, <2>6
<1>2. ASSUME NEW p \in Editors, MigrateTruncates(p)
      PROVE  EditInv' /\ \A q \in Editors : EndsWell(q)
  <2>1. /\ editPc[p] = "migrate" /\ WriteToml(p, NothingRead) /\ EditGoesTo(p, "migrating")
        /\ UNCHANGED <<edit, seen, reread, started>>
    BY <1>2 DEF MigrateTruncates
  <2>2. editPc'[p] = "migrating" /\ \A q \in Editors \ {p} : editPc'[q] = editPc[q]
    BY <1>o, <2>1
  <2>3. disturbed' \in [Editors -> BOOLEAN] /\ disturbed'[p] = disturbed[p] /\ toml' = NothingRead
    BY <1>d, <2>1
  <2>4. ~disturbed'[p] => AloneInv(p)'
    BY <1>i, <2>1, <2>2, <2>3 DEF AloneInv
  <2>5. EditInv'
    BY <1>t, <1>w, <2>1, <2>3, <2>4, NothingIsWell, EditorMoves
  <2> QED BY <2>2, <2>5
<1>3. ASSUME NEW p \in Editors, MigrateWrites(p)
      PROVE  EditInv' /\ \A q \in Editors : EndsWell(q)
  <2>1. /\ editPc[p] = "migrating" /\ WriteToml(p, Migrated(seen[p])) /\ EditGoesTo(p, "loaded")
        /\ UNCHANGED <<edit, seen, reread, started>>
    BY <1>3 DEF MigrateWrites
  <2>2. editPc'[p] = "loaded" /\ \A q \in Editors \ {p} : editPc'[q] = editPc[q]
    BY <1>o, <2>1
  <2>3. /\ disturbed' \in [Editors -> BOOLEAN] /\ disturbed'[p] = disturbed[p]
        /\ toml' = Migrated(seen[p])
    BY <1>d, <2>1
  <2>4. ~disturbed'[p] => AloneInv(p)'
    BY <1>i, <2>1, <2>2, <2>3 DEF AloneInv, Migrated
  <2>5. EditInv'
    BY <1>t, <1>w, <2>1, <2>3, <2>4, EditedWell, EditorMoves
  <2> QED BY <2>2, <2>5
\* A step that does not write and after which p counts as disturbed.
<1>x. ASSUME NEW p \in Editors, NEW pc \in Pcs, EditGoesTo(p, pc),
             UNCHANGED <<toml, edit, seen, reread, started>>,
             disturbed' = [disturbed EXCEPT ![p] = TRUE]
      PROVE  EditInv' /\ \A q \in Editors : EndsWell(q)
  <2>1. editPc'[p] = pc /\ \A q \in Editors \ {p} : editPc'[q] = editPc[q]
    BY <1>o, <1>x
  <2>2. /\ disturbed' \in [Editors -> BOOLEAN] /\ disturbed'[p] = TRUE
        /\ \A q \in Editors \ {p} : disturbed'[q] = disturbed[q]
    BY <1>t, <1>x
  <2>3. EditInv'
    BY <1>t, <1>w, <1>x, <2>2, EditorMoves
  <2> QED BY <2>1, <2>2, <2>3
<1>4. ASSUME NEW p \in Editors, MigrateFails(p)
      PROVE  EditInv' /\ \A q \in Editors : EndsWell(q)
  BY <1>4, <1>x DEF MigrateFails
<1>5. ASSUME NEW p \in Editors, LoadEnds(p)
      PROVE  EditInv' /\ \A q \in Editors : EndsWell(q)
  <2>1. /\ editPc[p] = "loaded" /\ (edit[p] # "reset" \/ seen[p].form = "none")
        /\ EditGoesTo(p, "ended") /\ UNCHANGED <<toml, edit, seen, reread, started>>
        /\ disturbed' = [disturbed EXCEPT ![p] = @ \/ edit[p] \notin {"load", "reset"}]
    BY <1>5 DEF LoadEnds
  <2>2. editPc'[p] = "ended" /\ \A q \in Editors \ {p} : editPc'[q] = editPc[q]
    BY <1>o, <2>1
  <2>3. /\ disturbed' \in [Editors -> BOOLEAN]
        /\ \A q \in Editors \ {p} : disturbed'[q] = disturbed[q]
        /\ ~disturbed'[p] => ~disturbed[p] /\ edit[p] \in {"load", "reset"}
    BY <1>t, <2>1
  <2>4. AloneInv(p)'
    BY <2>2 DEF AloneInv
  <2>5. EditInv'
    BY <1>t, <1>w, <2>1, <2>3, <2>4, EditorMoves
  <2>6. ASSUME ~disturbed'[p] PROVE toml' = Edited(edit[p], started[p])
    <3>1. AloneInv(p) /\ edit[p] \in {"load", "reset"}
      BY <1>i, <2>1, <2>3, <2>6
    <3>2. CASE edit[p] = "load"
      <4>1. toml = Migrated(started[p])
        BY <2>1, <3>1, <3>2 DEF AloneInv
      <4> QED BY <2>1, <3>2, <4>1 DEF Edited
    <3>3. CASE edit[p] = "reset"
      <4>1. toml = started[p] /\ started[p].form = "none"
        BY <2>1, <3>1, <3>3 DEF AloneInv
      <4> QED BY <1>w, <2>1, <3>3, <4>1, NothingToReset
    <3> QED BY <3>1, <3>2, <3>3
  <2> QED BY <2>2, <2>5, <2>6
<1>6. ASSUME NEW p \in Editors, Reread(p)
      PROVE  EditInv' /\ \A q \in Editors : EndsWell(q)
  <2> DEFINE r == IF edit[p] = "reset" THEN seen[p] ELSE toml
  <2>1. /\ editPc[p] = "loaded" /\ edit[p] # "load" /\ EditGoesTo(p, "edit")
        /\ UNCHANGED <<toml, disturbed, edit, seen, started>>
        /\ reread' = [reread EXCEPT ![p] = r]
    BY <1>6 DEF Reread, KeepToml
  <2>2. editPc'[p] = "edit" /\ \A q \in Editors \ {p} : editPc'[q] = editPc[q]
    BY <1>o, <2>1
  <2>3. r \in TomlContents
    BY <1>t, <1>w
  <2>4. ASSUME ~disturbed[p] PROVE AloneInv(p)'
    <3>1. AloneInv(p)
      BY <1>i, <2>1, <2>4
    <3>2. r.others = started[p].others
      BY <1>w, <2>1, <3>1, EditedWell DEF AloneInv
    <3>3. reread'[p].others = started[p].others
      BY <1>t, <2>1, <3>2
    <3> HIDE DEF r
    <3> QED BY <2>1, <2>2, <3>1, <3>3 DEF AloneInv
  <2> HIDE DEF r
  <2>5. EditInv'
    <3>1. reread' \in [Editors -> TomlContents]
          /\ \A q \in Editors \ {p} : reread'[q] = reread[q]
      BY <1>t, <2>1, <2>3
    <3> QED BY <1>t, <1>w, <2>1, <2>4, <3>1, EditorMoves
  <2> QED BY <2>2, <2>5
<1>7. ASSUME NEW p \in Editors, EditTruncates(p)
      PROVE  EditInv' /\ \A q \in Editors : EndsWell(q)
  <2>1. /\ editPc[p] = "edit" /\ WriteToml(p, NothingRead) /\ EditGoesTo(p, "writing")
        /\ UNCHANGED <<edit, seen, reread, started>>
    BY <1>7 DEF EditTruncates
  <2>2. editPc'[p] = "writing" /\ \A q \in Editors \ {p} : editPc'[q] = editPc[q]
    BY <1>o, <2>1
  <2>3. disturbed' \in [Editors -> BOOLEAN] /\ disturbed'[p] = disturbed[p] /\ toml' = NothingRead
    BY <1>d, <2>1
  <2>4. ~disturbed'[p] => AloneInv(p)'
    BY <1>i, <2>1, <2>2, <2>3 DEF AloneInv
  <2>5. EditInv'
    BY <1>t, <1>w, <2>1, <2>3, <2>4, NothingIsWell, EditorMoves
  <2> QED BY <2>2, <2>5
<1>8. ASSUME NEW p \in Editors, EditWrites(p)
      PROVE  EditInv' /\ \A q \in Editors : EndsWell(q)
  <2> DEFINE c == [Edited(edit[p], seen[p]) EXCEPT !.others = reread[p].others]
  <2>1. /\ editPc[p] = "writing" /\ WriteToml(p, c) /\ EditGoesTo(p, "ended")
        /\ UNCHANGED <<edit, seen, reread, started>>
    BY <1>8 DEF EditWrites
  <2>2. editPc'[p] = "ended" /\ \A q \in Editors \ {p} : editPc'[q] = editPc[q]
    BY <1>o, <2>1
  <2>3. /\ Edited(edit[p], seen[p]) \in TomlContents /\ WellFormed(Edited(edit[p], seen[p]))
        /\ Edited(edit[p], seen[p]).others = seen[p].others
        /\ reread[p].others \in BOOLEAN
    <3>1. reread[p].others \in BOOLEAN
      BY <1>w DEF TomlContents
    <3> QED BY <1>w, <3>1, EditedWell
  <2>4. /\ c \in TomlContents /\ WellFormed(c)
        /\ reread[p].others = seen[p].others => c = Edited(edit[p], seen[p])
    BY <2>3, SameOthers
  <2> HIDE DEF c
  <2>5. disturbed' \in [Editors -> BOOLEAN] /\ disturbed'[p] = disturbed[p] /\ toml' = c
    BY <1>d, <2>1
  <2>6. AloneInv(p)'
    BY <2>2 DEF AloneInv
  <2>7. EditInv'
    BY <1>t, <1>w, <2>1, <2>4, <2>5, <2>6, EditorMoves
  <2>8. ~disturbed'[p] => toml' = Edited(edit[p], started[p])
    BY <1>i, <2>1, <2>4, <2>5 DEF AloneInv
  <2> QED BY <2>2, <2>7, <2>8
<1>9. ASSUME NEW p \in Editors, EditDies(p)
      PROVE  EditInv' /\ \A q \in Editors : EndsWell(q)
  BY <1>9, <1>x DEF EditDies
<1>10. CASE UNCHANGED prefsVars
  BY <1>10 DEF prefsVars, EditInv, PrefsTypeOK, AloneInv
<1> QED BY <1>1, <1>2, <1>3, <1>4, <1>5, <1>6, <1>7, <1>8, <1>9, <1>10 DEF PrefsNext, EditsOver

LEMMA EditHolds == PrefsSpec => []EditInv
<1>1. PrefsInit => EditInv
  BY NothingIsWell DEF PrefsInit, EditInv, PrefsTypeOK
<1>2. EditInv /\ [PrefsNext]_prefsVars => EditInv'
  BY EditStep
<1> QED BY <1>1, <1>2, PTL DEF PrefsSpec

\* The file and the commands that edit it keep their types: whatever they do and
\* wherever they die, what is left can be read.
THEOREM PrefsTypeCorrect == PrefsSpec => []PrefsTypeOK
<1>1. EditInv => PrefsTypeOK
  BY DEF EditInv
<1> QED BY <1>1, EditHolds, PTL

\* For any number of processes, a command that nothing disturbs has the effect of one
\* atomic step on the file it found (write_user_preferences_for_cli,
\* _persist_user_preferences_migration).
THEOREM UndisturbedEditsAreAtomic == PrefsSpec => UndisturbedEditIsAtomic
<1>1. EditInv /\ [PrefsNext]_prefsVars =>
        [\A p \in Editors :
            (editPc[p] # "ended" /\ editPc'[p] = "ended" /\ ~disturbed'[p])
            => toml' = Edited(edit[p], started[p])]_prefsVars
  BY EditStep
<1> QED BY <1>1, EditHolds, PTL DEF PrefsSpec, UndisturbedEditIsAtomic
-----------------------------------------------------------------------------
(* The credentials                                                          *)

\* What the keyring and the files hold while the command of p is alone at work.
KeeperInv(p) ==
    /\ taskPc[p] \in {"load", "tmp", "replace"} =>
           task[p].verb \in {"set", "init"} /\ keyring = task[p].key
    /\ taskPc[p] = "replace" => tmp.key = task[p].key /\ tmp.class = copy[p].class
    /\ taskPc[p] \in {"load_class", "tmp_class", "replace_class"} => task[p].verb = "set"
    /\ taskPc[p] = "load_class" => metadata.key = keyring
    /\ taskPc[p] = "tmp_class" => copy[p].key = keyring
    /\ taskPc[p] = "replace_class" => tmp.key = keyring /\ tmp.class = task[p].class
    /\ taskPc[p] \in {"tmp_clear", "replace_clear"} =>
           task[p].verb = "clear" /\ keyring = "none"
    /\ taskPc[p] = "replace_clear" => tmp.key = "none"

KeysInv ==
    /\ CredentialsTypeOK
    /\ \A p \in Keepers : (Active(p) /\ ~overlap[p]) =>
           KeeperInv(p) /\ \A o \in Keepers \ {p} : ~Active(o)

\* The three chains give the same key, whatever the commands have done.
LEMMA ChainsAgreeAlways == CredentialsTypeOK => ChainsAgree
<1> SUFFICES ASSUME CredentialsTypeOK,
                    environment.envFile = "none", environment.workspace = "none",
                    Resolve("none") = "none" \/ fallback.key = "none", fallback.secure
             PROVE  StatusKey = DaemonKey /\ Resolve(environment.shell) \in {StatusKey, "none"}
  BY DEF ChainsAgree
<1> DEFINE k == IF environment.keyringUp THEN keyring ELSE "none"
<1>1. \A e : Resolve(e) = IF e # "none" THEN e ELSE k
  BY DEF Resolve, FirstOf
<1>2. k = "none" \/ fallback.key = "none"
  BY <1>1
<1> HIDE DEF k
<1>3. StatusKey = IF environment.shell # "none" THEN environment.shell
                  ELSE IF k # "none" THEN k ELSE fallback.key
  BY <1>1 DEF StatusKey, FirstOf
<1>4. DaemonEnv = IF environment.shell # "none" THEN environment.shell ELSE fallback.key
  BY DEF DaemonEnv, ChildEnv, ReadByStart, FirstOf
<1>5. DaemonKey = IF DaemonEnv # "none" THEN DaemonEnv ELSE k
  BY <1>1 DEF DaemonKey
<1> QED BY <1>1, <1>2, <1>3, <1>4, <1>5

\* A step of the command of p disturbs no command that counts as alone.
LEMMA KeeperMoves ==
    ASSUME KeysInv, NEW p \in Keepers, Active(p),
           NEW pc \in {"load", "store", "tmp", "replace", "load_class", "tmp_class",
                       "replace_class", "tmp_clear", "replace_clear", "done", "warned", "failed"},
           TaskGoesTo(p, pc), UNCHANGED <<environment, task, overlap>>,
           keyring' \in MaybeKeys, fallback' \in Fallbacks, metadata' \in MetadataFiles,
           tmp' \in MetadataFiles, copy' \in [Keepers -> MetadataFiles],
           ~overlap[p] => KeeperInv(p)'
    PROVE  /\ KeysInv'
           /\ taskPc'[p] = pc /\ \A q \in Keepers \ {p} : taskPc'[q] = taskPc[q]
<1>1. taskPc'[p] = pc /\ \A q \in Keepers \ {p} : taskPc'[q] = taskPc[q]
  BY DEF KeysInv, CredentialsTypeOK, TaskGoesTo
<1>2. CredentialsTypeOK'
  BY DEF KeysInv, CredentialsTypeOK, TaskGoesTo
<1>3. ASSUME NEW q \in Keepers, Active(q)', ~overlap'[q]
      PROVE  KeeperInv(q)' /\ \A o \in Keepers \ {q} : ~Active(o)'
  <2>1. CASE q = p
    <3>1. \A o \in Keepers \ {p} : ~Active(o)
      BY <1>3, <2>1 DEF KeysInv
    <3> QED BY <1>1, <1>3, <2>1, <3>1 DEF Active
  <2>2. CASE q # p
    <3>1. Active(q) /\ ~overlap[q]
      BY <1>1, <1>3, <2>2 DEF Active
    <3> QED BY <2>2, <3>1 DEF KeysInv
  <2> QED BY <2>1, <2>2
<1> QED BY <1>1, <1>2, <1>3 DEF KeysInv

\* A command begins.
LEMMA KeeperBegins ==
    ASSUME KeysInv, NEW p \in Keepers, NEW verb, NEW mayGoOn, Begins(p, verb, mayGoOn)
    PROVE  KeysInv' /\ \A q \in Keepers : ~(Active(q) /\ taskPc'[q] = "done")
<1>1. /\ taskPc[p] = "idle" /\ taskPc'[p] \in {"failed", "store"}
      /\ \A q \in Keepers \ {p} : taskPc'[q] = taskPc[q]
      /\ taskPc' \in [Keepers -> {"idle", "store", "load", "tmp", "replace", "load_class",
                                  "tmp_class", "replace_class", "tmp_clear", "replace_clear",
                                  "done", "warned", "failed"}]
  BY DEF Begins, TaskGoesTo, KeysInv, CredentialsTypeOK
<1>2. /\ UNCHANGED <<environment, keyring, fallback, metadata, tmp, task, copy>>
      /\ overlap' = [q \in Keepers |-> overlap[q] \/ (q = p /\ \E o \in Keepers : Active(o))
                                       \/ Active(q)]
  BY DEF Begins, NoStore, NoMetadata
<1>3. /\ overlap' \in [Keepers -> BOOLEAN]
      /\ \A q \in Keepers : Active(q) => overlap'[q]
      /\ ~overlap'[p] => \A o \in Keepers : ~Active(o)
  <2>1. \A q \in Keepers : (overlap[q] \/ (q = p /\ \E o \in Keepers : Active(o)) \/ Active(q))
                             \in BOOLEAN
    BY DEF Active, KeysInv, CredentialsTypeOK
  <2> QED BY <1>2, <2>1
<1>4. CredentialsTypeOK'
  BY <1>1, <1>2, <1>3 DEF KeysInv, CredentialsTypeOK
<1>5. ASSUME NEW q \in Keepers, Active(q)', ~overlap'[q]
      PROVE  KeeperInv(q)' /\ \A o \in Keepers \ {q} : ~Active(o)'
  <2>1. q = p
    BY <1>1, <1>3, <1>5 DEF Active
  <2>2. KeeperInv(p)'
    BY <1>1, <1>5, <2>1 DEF KeeperInv, Active
  <2>3. \A o \in Keepers \ {p} : ~Active(o)'
    BY <1>1, <1>3, <1>5, <2>1 DEF Active
  <2> QED BY <2>1, <2>2, <2>3
<1>6. \A q \in Keepers : ~(Active(q) /\ taskPc'[q] = "done")
  BY <1>1 DEF Active
<1> QED BY <1>4, <1>5, <1>6 DEF KeysInv

\* What save_credential_metadata writes.
LEMMA MetadataWritten ==
    ASSUME NEW f \in MetadataFiles, NEW t \in Tasks
    PROVE  /\ [f EXCEPT !.written = TRUE, !.key = t.key] \in MetadataFiles
           /\ [f EXCEPT !.written = TRUE, !.key = t.key].key = t.key
           /\ [f EXCEPT !.written = TRUE, !.key = t.key].class = f.class
           /\ [f EXCEPT !.written = TRUE, !.class = t.class] \in MetadataFiles
           /\ [f EXCEPT !.written = TRUE, !.class = t.class].key = f.key
           /\ [f EXCEPT !.written = TRUE, !.class = t.class].class = t.class
           /\ Emptied \in MetadataFiles /\ Emptied.key = "none"
           /\ NoFile \in MetadataFiles
<1>1. t.key \in MaybeKeys /\ t.class \in {"none", "personal"}
  BY DEF Tasks, MaybeKeys
<1> QED BY <1>1 DEF MetadataFiles, NoFile, Emptied, MaybeKeys

\* Every step keeps the invariant, and a command that succeeds alone leaves the
\* metadata that the keyring calls for.
LEMMA KeysStep ==
    ASSUME KeysInv, [CredentialsNext]_credentialVars
    PROVE  KeysInv' /\ MetadataFollowsKeyring
<1> DEFINE Pcs == {"load", "store", "tmp", "replace", "load_class", "tmp_class",
                   "replace_class", "tmp_clear", "replace_clear", "done", "warned", "failed"}
           Follows(p) ==
               (Active(p) /\ taskPc'[p] = "done" /\ ~overlap[p] /\ environment.keyringUp
                  /\ metadata'.written) =>
                  /\ metadata'.key = keyring'
                  /\ task[p].verb = "set" => metadata'.class = task[p].class
                  /\ task[p].verb = "init" => metadata'.class = copy[p].class
<1>t. /\ environment \in Environments /\ keyring \in MaybeKeys /\ fallback \in Fallbacks
      /\ metadata \in MetadataFiles /\ tmp \in MetadataFiles
      /\ copy \in [Keepers -> MetadataFiles] /\ task \in [Keepers -> Tasks]
  BY DEF KeysInv, CredentialsTypeOK
<1>w. \A p \in Keepers : copy[p] \in MetadataFiles /\ task[p] \in Tasks
                         /\ task[p].key \in MaybeKeys /\ task[p].verb \in {"set", "init", "clear"}
  BY <1>t DEF Tasks, MaybeKeys
<1>i. \A p \in Keepers : (Active(p) /\ ~overlap[p]) => KeeperInv(p)
  BY DEF KeysInv
\* Only the command that moves can succeed.
<1>o. ASSUME NEW p \in Keepers, Follows(p), \A q \in Keepers \ {p} : taskPc'[q] = taskPc[q]
      PROVE  MetadataFollowsKeyring
  <2>1. \A q \in Keepers \ {p} : ~(Active(q) /\ taskPc'[q] = "done")
    BY <1>o DEF Active
  <2> QED BY <1>o, <2>1 DEF MetadataFollowsKeyring
<1>b. ASSUME NEW p \in Keepers, NEW verb, NEW mayGoOn, Begins(p, verb, mayGoOn)
      PROVE  KeysInv' /\ MetadataFollowsKeyring
  BY <1>b, KeeperBegins DEF MetadataFollowsKeyring
\* A command fails, or ends with a warning.
<1>f. ASSUME NEW p \in Keepers, Active(p), NEW pc \in {"warned", "failed"}, TaskGoesTo(p, pc),
             UNCHANGED <<environment, keyring, metadata, copy, task, overlap>>,
             fallback' \in Fallbacks, tmp' \in MetadataFiles
      PROVE  KeysInv' /\ MetadataFollowsKeyring
  <2>1. taskPc'[p] = pc
    BY <1>f DEF KeysInv, CredentialsTypeOK, TaskGoesTo
  <2>2. KeeperInv(p)'
    BY <2>1 DEF KeeperInv
  <2>3. KeysInv' /\ \A q \in Keepers \ {p} : taskPc'[q] = taskPc[q]
    BY <1>t, <1>f, <2>2, KeeperMoves
  <2> QED BY <1>o, <2>1, <2>3
<1>1. ASSUME NEW p \in Keepers, StoreInKeyring(p) PROVE KeysInv' /\ MetadataFollowsKeyring
  <2>1. /\ taskPc[p] = "store" /\ Active(p) /\ task[p].verb \in {"set", "init"}
        /\ UNCHANGED <<environment, fallback, metadata, tmp, copy, task, overlap>>
    BY <1>1 DEF StoreInKeyring, NoMetadata, Active
  <2>2. CASE keyring' = task[p].key /\ TaskGoesTo(p, "load")
    <3>1. taskPc'[p] = "load"
      BY <2>2 DEF KeysInv, CredentialsTypeOK, TaskGoesTo
    <3>2. KeeperInv(p)'
      BY <2>1, <2>2, <3>1 DEF KeeperInv
    <3>3. KeysInv' /\ \A q \in Keepers \ {p} : taskPc'[q] = taskPc[q]
      BY <1>t, <1>w, <2>1, <2>2, <3>2, KeeperMoves
    <3> QED BY <1>o, <3>1, <3>3
  <2>3. CASE UNCHANGED keyring /\ TaskGoesTo(p, "failed")
    BY <1>f, <1>t, <2>1, <2>3
  <2> QED BY <1>1, <2>2, <2>3 DEF StoreInKeyring
<1>2. ASSUME NEW p \in Keepers, StoreInFile(p) PROVE KeysInv' /\ MetadataFollowsKeyring
  <2>1. /\ taskPc[p] = "store" /\ Active(p) /\ task[p].verb = "init" /\ ~environment.keyringUp
        /\ UNCHANGED <<environment, keyring, metadata, tmp, copy, task, overlap>>
    BY <1>2 DEF StoreInFile, ToFile, NoMetadata, Active
  <2>2. /\ \E pc \in {"done", "failed"} : TaskGoesTo(p, pc)
        /\ fallback' \in Fallbacks
    <3>1. task[p].key \in Keys
      BY <1>t, <2>1 DEF Tasks
    <3>2. fallback.secure \in BOOLEAN
      <4>1. CASE fallback = NoFallback
        BY <4>1 DEF NoFallback
      <4>2. CASE fallback \in [key : Keys, secure : BOOLEAN, export : BOOLEAN]
        BY <4>2
      <4> QED BY <1>t, <4>1, <4>2 DEF Fallbacks
    <3>3. CASE /\ fallback' = [key |-> task[p].key, secure |-> fallback.secure, export |-> TRUE]
               /\ TaskGoesTo(p, IF fallback'.secure THEN "done" ELSE "failed")
      <4>1. fallback' \in [key : Keys, secure : BOOLEAN, export : BOOLEAN]
        BY <3>1, <3>2, <3>3
      <4> QED BY <3>3, <4>1 DEF Fallbacks
    <3>4. CASE UNCHANGED fallback /\ TaskGoesTo(p, "failed")
      BY <1>t, <3>4
    <3> QED BY <1>2, <3>3, <3>4 DEF StoreInFile
  <2>3. PICK pc \in {"done", "failed"} : TaskGoesTo(p, pc)
    BY <2>2
  <2>4. taskPc'[p] = pc
    BY <2>3 DEF KeysInv, CredentialsTypeOK, TaskGoesTo
  <2>5. KeeperInv(p)'
    BY <2>4 DEF KeeperInv
  <2>6. KeysInv' /\ \A q \in Keepers \ {p} : taskPc'[q] = taskPc[q]
    BY <1>t, <2>1, <2>2, <2>3, <2>5, KeeperMoves
  <2> QED BY <1>o, <2>1, <2>6
<1>3. ASSUME NEW p \in Keepers, DeleteFromKeyring(p) PROVE KeysInv' /\ MetadataFollowsKeyring
  <2>1. /\ taskPc[p] = "store" /\ Active(p) /\ task[p].verb = "clear"
        /\ UNCHANGED <<environment, fallback, metadata, tmp, copy, task, overlap>>
    BY <1>3 DEF DeleteFromKeyring, NoMetadata, Active
  <2>2. ASSUME keyring' = "none", NEW pc \in {"tmp_clear", "done"}, TaskGoesTo(p, pc),
               pc = "done" => ~metadata.written
        PROVE  KeysInv' /\ MetadataFollowsKeyring
    <3>1. taskPc'[p] = pc
      BY <2>2 DEF KeysInv, CredentialsTypeOK, TaskGoesTo
    <3>2. KeeperInv(p)'
      BY <2>1, <2>2, <3>1 DEF KeeperInv
    <3>3. keyring' \in MaybeKeys
      BY <2>2 DEF MaybeKeys
    <3>4. KeysInv' /\ \A q \in Keepers \ {p} : taskPc'[q] = taskPc[q]
      BY <1>t, <2>1, <2>2, <3>2, <3>3, KeeperMoves
    <3> QED BY <1>o, <2>1, <2>2, <3>1, <3>4
  <2>3. CASE UNCHANGED keyring /\ TaskGoesTo(p, "failed")
    BY <1>f, <1>t, <2>1, <2>3
  <2> QED BY <1>3, <2>2, <2>3 DEF DeleteFromKeyring
<1>4. ASSUME NEW p \in Keepers, LoadMetadata(p) PROVE KeysInv' /\ MetadataFollowsKeyring
  <2>1. /\ taskPc[p] \in {"load", "load_class"} /\ Active(p)
        /\ UNCHANGED <<environment, keyring, fallback, metadata, tmp, task, overlap>>
        /\ copy' = [copy EXCEPT ![p] = metadata]
    BY <1>4 DEF LoadMetadata, NoStore, Active
  <2>2. copy' \in [Keepers -> MetadataFiles] /\ copy'[p] = metadata
    BY <1>t, <2>1
  <2>3. PICK pc \in {"tmp", "tmp_class"} :
            /\ TaskGoesTo(p, pc)
            /\ pc = "tmp" <=> taskPc[p] = "load"
    BY <1>4, <2>1 DEF LoadMetadata
  <2>4. taskPc'[p] = pc
    BY <2>3 DEF KeysInv, CredentialsTypeOK, TaskGoesTo
  <2>5. ASSUME ~overlap[p] PROVE KeeperInv(p)'
    <3>1. KeeperInv(p)
      BY <1>i, <2>1, <2>5
    <3> QED BY <2>1, <2>2, <2>3, <2>4, <3>1 DEF KeeperInv
  <2>6. KeysInv' /\ \A q \in Keepers \ {p} : taskPc'[q] = taskPc[q]
    BY <1>t, <2>1, <2>2, <2>3, <2>5, KeeperMoves
  <2> QED BY <1>o, <2>4, <2>6
<1>5. ASSUME NEW p \in Keepers, WriteTmp(p) PROVE KeysInv' /\ MetadataFollowsKeyring
  <2>1. /\ taskPc[p] \in {"tmp", "tmp_class", "tmp_clear"} /\ Active(p)
        /\ UNCHANGED <<environment, keyring, fallback, metadata, copy, task, overlap>>
    BY <1>5 DEF WriteTmp, NoStore, Active
  <2>2. ASSUME tmp' = NewMetadata(p), NEW pc \in {"replace", "replace_class", "replace_clear"},
               TaskGoesTo(p, pc),
               \/ taskPc[p] = "tmp" /\ pc = "replace"
               \/ taskPc[p] = "tmp_class" /\ pc = "replace_class"
               \/ taskPc[p] = "tmp_clear" /\ pc = "replace_clear"
        PROVE  KeysInv' /\ MetadataFollowsKeyring
    <3>1. taskPc'[p] = pc
      BY <2>2 DEF KeysInv, CredentialsTypeOK, TaskGoesTo
    <3>2. /\ tmp' \in MetadataFiles
          /\ pc = "replace" => tmp'.key = task[p].key /\ tmp'.class = copy[p].class
          /\ pc = "replace_class" => tmp'.key = copy[p].key /\ tmp'.class = task[p].class
          /\ pc = "replace_clear" => tmp'.key = "none"
      <4>1. copy[p] \in MetadataFiles /\ task[p] \in Tasks
        BY <1>w
      <4>2. CASE taskPc[p] = "tmp"
        BY <2>2, <4>1, <4>2, MetadataWritten DEF NewMetadata
      <4>3. CASE taskPc[p] = "tmp_class"
        BY <2>2, <4>1, <4>3, MetadataWritten DEF NewMetadata, WithClass
      <4>4. CASE taskPc[p] = "tmp_clear"
        BY <2>2, <4>1, <4>4, MetadataWritten DEF NewMetadata
      <4> QED BY <2>1, <4>2, <4>3, <4>4
    <3>3. ASSUME ~overlap[p] PROVE KeeperInv(p)'
      <4>1. KeeperInv(p)
        BY <1>i, <2>1, <3>3
      <4> QED BY <2>1, <2>2, <3>1, <3>2, <4>1 DEF KeeperInv
    <3>4. KeysInv' /\ \A q \in Keepers \ {p} : taskPc'[q] = taskPc[q]
      BY <1>t, <2>1, <2>2, <3>2, <3>3, KeeperMoves
    <3> QED BY <1>o, <3>1, <3>4
  <2>3. ASSUME tmp' \in {tmp, Emptied}, MetadataFails(p)
        PROVE  KeysInv' /\ MetadataFollowsKeyring
    <3>1. PICK pc \in {"warned", "failed"} : TaskGoesTo(p, pc)
      BY <2>3 DEF MetadataFails
    <3>2. NoFile \in MetadataFiles /\ Emptied \in MetadataFiles
      BY DEF Emptied, NoFile, MetadataFiles, MaybeKeys
    <3> QED BY <1>f, <1>t, <2>1, <2>3, <3>1, <3>2
  <2> QED BY <1>5, <2>1, <2>2, <2>3 DEF WriteTmp
<1>6. ASSUME NEW p \in Keepers, ReplaceMetadata(p) PROVE KeysInv' /\ MetadataFollowsKeyring
  <2>1. /\ taskPc[p] \in {"replace", "replace_class", "replace_clear"} /\ Active(p)
        /\ UNCHANGED <<environment, keyring, fallback, copy, task, overlap>>
    BY <1>6 DEF ReplaceMetadata, NoStore, Active
  <2>2. ASSUME metadata' = tmp, tmp' = NoFile, TaskGoesTo(p, Replaced(p))
        PROVE  KeysInv' /\ MetadataFollowsKeyring
    <3>1. metadata' = tmp /\ tmp' = NoFile /\ TaskGoesTo(p, Replaced(p))
      BY <2>2
    <3>2. PICK pc \in {"load_class", "done"} :
              /\ TaskGoesTo(p, pc)
              /\ pc = "load_class" <=> taskPc[p] = "replace" /\ task[p].verb = "set"
      BY <3>1 DEF Replaced
    <3>3. taskPc'[p] = pc
      BY <3>2 DEF KeysInv, CredentialsTypeOK, TaskGoesTo
    <3>4. ASSUME ~overlap[p] PROVE KeeperInv(p)
      BY <1>i, <2>1, <3>4
    <3>5. ~overlap[p] => KeeperInv(p)'
      BY <2>1, <3>1, <3>2, <3>3, <3>4 DEF KeeperInv
    <3>6. NoFile \in MetadataFiles
      BY DEF NoFile, MetadataFiles, MaybeKeys
    <3>7. KeysInv' /\ \A q \in Keepers \ {p} : taskPc'[q] = taskPc[q]
      BY <1>t, <2>1, <3>1, <3>2, <3>5, <3>6, KeeperMoves
    <3>8. Follows(p)
      BY <1>w, <2>1, <3>1, <3>2, <3>3, <3>4 DEF KeeperInv
    <3> QED BY <1>o, <3>7, <3>8
  <2>3. ASSUME MetadataFails(p), UNCHANGED <<metadata, tmp>>
        PROVE  KeysInv' /\ MetadataFollowsKeyring
    <3>1. PICK pc \in {"warned", "failed"} : TaskGoesTo(p, pc)
      BY <2>3 DEF MetadataFails
    <3> QED BY <1>f, <1>t, <2>1, <2>3, <3>1
  <2> QED BY <1>6, <2>2, <2>3 DEF ReplaceMetadata
<1>7. CASE UNCHANGED credentialVars
  BY <1>7 DEF credentialVars, KeysInv, CredentialsTypeOK, KeeperInv, Active,
     MetadataFollowsKeyring
<1> QED BY <1>b, <1>1, <1>2, <1>3, <1>4, <1>5, <1>6, <1>7
        DEF CredentialsNext, BeginSet, BeginClear, InitReads, InitAsks, CredentialsOver

LEMMA KeysHold == CredentialsSpec => []KeysInv
<1>1. CredentialsInit => KeysInv
  <2> SUFFICES ASSUME CredentialsInit PROVE KeysInv
    OBVIOUS
  <2>1. keyring \in MaybeKeys /\ environment \in Environments
    BY SurroundingsAssumption DEF CredentialsInit, MaybeKeys
  <2>2. NoFile \in MetadataFiles /\ metadata \in MetadataFiles
    BY <2>1 DEF CredentialsInit, NoFile, MetadataFiles, MaybeKeys
  <2>3. CredentialsTypeOK
    BY <2>1, <2>2 DEF CredentialsInit, CredentialsTypeOK
  <2> QED BY <2>3 DEF CredentialsInit, KeysInv, Active
<1>2. KeysInv /\ [CredentialsNext]_credentialVars => KeysInv'
  BY KeysStep
<1> QED BY <1>1, <1>2, PTL DEF CredentialsSpec

\* The key, the places it is stored in and the commands keep their types.
THEOREM CredentialsTypeCorrect == CredentialsSpec => []CredentialsTypeOK
<1>1. KeysInv => CredentialsTypeOK
  BY DEF KeysInv
<1> QED BY <1>1, KeysHold, PTL

\* For any number of processes and keys, the chains agree where they can, and a command
\* that succeeds alone leaves metadata that describe the key in the keyring
\* (credentials.py: credential_status, store_cursor_api_key, store_account_class,
\* delete_cursor_api_key).
THEOREM KeysAreWhereSaid == CredentialsSpec => KeysAreAsSaid
<1>1. KeysInv => ChainsAgree
  BY ChainsAgreeAlways DEF KeysInv
<1>2. KeysInv' => ChainsAgree'
  BY <1>1, PTL
<1>3. KeysInv /\ KeysInv' /\ [CredentialsNext]_credentialVars =>
        [ChainsAgree /\ ChainsAgree' /\ MetadataFollowsKeyring]_credentialVars
  BY <1>1, <1>2, KeysStep
<1> QED BY <1>3, KeysHold, PTL DEF CredentialsSpec, KeysAreAsSaid

-----------------------------------------------------------------------------
(* The parts of MCClients                                                   *)

\* What moves one part at a time is a behaviour of every part: what is proved of a
\* part holds in the joint exploration.
LEMMA ClientsAreParts ==
    ClientsSpec =>
        /\ DispatchSpec /\ RequestSpec /\ CredentialsSpec /\ DaemonSpec
        /\ PrefsSpec /\ RelaySpec /\ WorkerSpec /\ UpdateSpec
<1>1. ClientsInit => /\ DispatchInit /\ RequestInit /\ CredentialsInit /\ DaemonInit
                     /\ PrefsInit /\ RelayInit /\ WorkerInit /\ UpdateInit
  BY DEF ClientsInit
<1>2. [ClientsNext]_clientVars =>
        /\ [DispatchNext]_dispatchVars /\ [RequestNext]_requestVars
        /\ [CredentialsNext]_credentialVars /\ [DaemonNext]_daemonVars
        /\ [PrefsNext]_prefsVars /\ [RelayNext]_relayVars
        /\ [WorkerNext]_workerVars /\ [UpdateNext]_updateVars
  BY DEF ClientsNext, Moves, clientVars
<1> QED BY <1>1, <1>2, PTL
        DEF ClientsSpec, DispatchSpec, RequestSpec, CredentialsSpec, DaemonSpec, PrefsSpec,
            RelaySpec, WorkerSpec, UpdateSpec

\* The types of all parts hold in the joint exploration.
THEOREM ClientsTypeCorrect == ClientsSpec => []ClientsTypeOK
BY ClientsAreParts, DispatchTypeCorrect, RequestTypeCorrect, CredentialsTypeCorrect,
   DaemonTypeCorrect, PrefsTypeCorrect, RelayTypeCorrect, WorkerTypeCorrect,
   UpdateTypeCorrect, PTL DEF ClientsTypeOK
=============================================================================
