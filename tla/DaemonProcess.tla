---------------------------- MODULE DaemonProcess ----------------------------
(***************************************************************************)
(* The daemon as a process: popola popolad start, start --reload-env and     *)
(* stop (cli/popolad.py), the start and the end of the daemon itself         *)
(* (daemon/main.py), and the two files they share, popolad.pid and           *)
(* popolad.sock.  The daemon that command c spawns is daemon c; its name is  *)
(* its process id.                                                           *)
(***************************************************************************)
EXTENDS Naturals, FiniteSets

CONSTANTS
    Commanders,         \* the commands that are given, each once
    None,
    DaemonFaults        \* \subseteq {"crash", "config", "reuse", "slow"}

ASSUME DaemonFaultsAssumption == DaemonFaults \subseteq {"crash", "config", "reuse", "slow"}
ASSUME NoneAssumption == None \notin Commanders

VARIABLES
    order,              \* what each command is
    cmdPc,
    pidRead,            \* the process id it has read from the file
    cmdExit,            \* "ok", "error", or "none" while it runs
    daemon,             \* where each daemon is
    pidFile,
    sock,               \* who bound popolad.sock
    orderly             \* so far commands followed one another, and none gave up

daemonVars == <<order, cmdPc, pidRead, cmdExit, daemon, pidFile, sock, orderly>>

Orders == {"start", "reload", "stop"}

\* Main has unlinked the socket, written its id, loaded the configuration and set its
\* handlers; it serves; after SIGTERM it ends, and removes its files.
Stages == {"unborn", "spawned", "unlinked", "written", "configured", "serving", "ending",
           "removing", "dead", "reused"}

\* os.kill(pid, 0) finds a process, which may be another one with the same id.
PidAlive(d) == d # None /\ daemon[d] \notin {"unborn", "dead"}

IsUp(d) == daemon[d] \notin {"unborn", "dead", "reused"}

\* _can_connect: a daemon answers at the socket, whichever it is.
CanConnect == sock # None /\ daemon[sock] = "serving"

-----------------------------------------------------------------------------
DaemonTypeOK ==
    /\ order \in [Commanders -> Orders]
    /\ cmdPc \in [Commanders -> {"idle", "read", "wait", "clean", "check", "unlink", "spawn",
                                 "poll", "over"}]
    /\ pidRead \in [Commanders -> Commanders \cup {None}]
    /\ cmdExit \in [Commanders -> {"none", "ok", "error"}]
    /\ daemon \in [Commanders -> Stages]
    /\ pidFile \in Commanders \cup {None} /\ sock \in Commanders \cup {None}
    /\ orderly \in BOOLEAN

DaemonInit ==
    /\ order \in [Commanders -> Orders]
    /\ cmdPc = [c \in Commanders |-> "idle"]
    /\ pidRead = [c \in Commanders |-> None] /\ cmdExit = [c \in Commanders |-> "none"]
    /\ daemon = [c \in Commanders |-> "unborn"]
    /\ pidFile = None /\ sock = None /\ orderly = TRUE

CmdGoesTo(c, pc) == cmdPc' = [cmdPc EXCEPT ![c] = pc] /\ UNCHANGED cmdExit

CmdEnds(c, code) ==
    cmdPc' = [cmdPc EXCEPT ![c] = "over"] /\ cmdExit' = [cmdExit EXCEPT ![c] = code]

Becomes(d, stage) == daemon' = [daemon EXCEPT ![d] = stage]

KeepFiles == UNCHANGED <<pidFile, sock>>

\* SIGTERM before the handlers are set kills; another process is not our concern.
Terminated(d) ==
    CASE daemon[d] \in {"spawned", "unlinked", "written"} -> "dead"
      [] daemon[d] \in {"configured", "serving"} -> "ending"
      [] OTHER -> daemon[d]

DaemonKilled(d) == IF daemon[d] = "reused" THEN "reused" ELSE "dead"

-----------------------------------------------------------------------------
(* start and stop *)

BeginCommand(c) ==
    /\ cmdPc[c] = "idle"
    /\ CmdGoesTo(c, IF order[c] = "start" THEN "check" ELSE "read")
    /\ orderly' = (orderly /\ \A o \in Commanders : cmdPc[o] \in {"idle", "over"})
    /\ KeepFiles /\ UNCHANGED <<order, pidRead, daemon>>

GoOnOrEnd(c) == IF order[c] = "reload" THEN CmdGoesTo(c, "check") ELSE CmdEnds(c, "ok")

\* Without a pid file stop removes the socket.
FindNoPid(c) ==
    /\ cmdPc[c] = "read" /\ pidFile = None
    /\ sock' = IF order[c] = "stop" THEN None ELSE sock
    /\ GoOnOrEnd(c) /\ UNCHANGED <<order, pidRead, daemon, pidFile, orderly>>

\* With the id of a process that is gone stop removes the files, and start --reload-env
\* leaves them to start.
SendTerm(c) ==
    /\ cmdPc[c] = "read" /\ pidFile # None
    /\ pidRead' = [pidRead EXCEPT ![c] = pidFile]
    /\ IF PidAlive(pidFile)
       THEN Becomes(pidFile, Terminated(pidFile)) /\ CmdGoesTo(c, "wait")
       ELSE /\ UNCHANGED daemon
            /\ CmdGoesTo(c, IF order[c] = "reload" THEN "check" ELSE "clean")
    /\ KeepFiles /\ UNCHANGED <<order, orderly>>

SeeItGone(c) ==
    /\ cmdPc[c] = "wait" /\ ~PidAlive(pidRead[c])
    /\ CmdGoesTo(c, "clean") /\ KeepFiles /\ UNCHANGED <<order, pidRead, daemon, orderly>>

\* Variant: stop does not insist.
SendKill_Leaves(c) ==
    /\ cmdPc[c] = "wait" /\ PidAlive(pidRead[c])
    /\ CmdGoesTo(c, "clean") /\ KeepFiles /\ UNCHANGED <<order, pidRead, orderly, daemon>>

\* The grace has passed.
SendKill(c) ==
    /\ cmdPc[c] = "wait" /\ PidAlive(pidRead[c])
    /\ Becomes(pidRead[c], DaemonKilled(pidRead[c]))
    /\ CmdGoesTo(c, "clean") /\ KeepFiles /\ UNCHANGED <<order, pidRead, orderly>>

CleanupFiles(c) ==
    /\ cmdPc[c] = "clean" /\ pidFile' = None /\ sock' = None
    /\ GoOnOrEnd(c) /\ UNCHANGED <<order, pidRead, daemon, orderly>>

CheckRunning(c) ==
    /\ cmdPc[c] = "check"
    /\ IF PidAlive(pidFile) THEN CmdEnds(c, "error") ELSE CmdGoesTo(c, "unlink")
    /\ KeepFiles /\ UNCHANGED <<order, pidRead, daemon, orderly>>

UnlinkSocket(c) ==
    /\ cmdPc[c] = "unlink" /\ sock' = None /\ CmdGoesTo(c, "spawn")
    /\ UNCHANGED <<order, pidRead, daemon, pidFile, orderly>>

Spawn(c) ==
    /\ cmdPc[c] = "spawn" /\ Becomes(c, "spawned") /\ CmdGoesTo(c, "poll")
    /\ KeepFiles /\ UNCHANGED <<order, pidRead, orderly>>

SeeItUp(c) ==
    /\ cmdPc[c] = "poll" /\ CanConnect /\ CmdEnds(c, "ok")
    /\ KeepFiles /\ UNCHANGED <<order, pidRead, daemon, orderly>>

SeeItExited(c) ==
    /\ cmdPc[c] = "poll" /\ ~PidAlive(c) /\ CmdEnds(c, "error")
    /\ KeepFiles /\ UNCHANGED <<order, pidRead, daemon, orderly>>

CommandGivesUp(c) ==
    /\ "slow" \in DaemonFaults /\ cmdPc[c] = "poll" /\ ~CanConnect
    /\ Becomes(c, Terminated(c)) /\ CmdEnds(c, "error") /\ orderly' = FALSE
    /\ KeepFiles /\ UNCHANGED <<order, pidRead>>

-----------------------------------------------------------------------------
(* The daemon *)

NoCommand == UNCHANGED <<order, cmdPc, pidRead, cmdExit, orderly>>

DaemonUnlinks(d) ==
    /\ daemon[d] = "spawned" /\ sock' = None /\ Becomes(d, "unlinked")
    /\ UNCHANGED pidFile /\ NoCommand

\* Variant: the daemon does not write its id before it serves.
WritePid_Late(d) ==
    /\ daemon[d] = "unlinked" /\ Becomes(d, "written") /\ KeepFiles /\ NoCommand

WritePid(d) ==
    /\ daemon[d] = "unlinked" /\ pidFile' = d /\ Becomes(d, "written")
    /\ UNCHANGED sock /\ NoCommand

\* A configuration that is not valid ends the daemon, whose pid file stays.
LoadConfig(d) ==
    /\ daemon[d] = "written"
    /\ Becomes(d, "configured") \/ ("config" \in DaemonFaults /\ Becomes(d, "dead"))
    /\ KeepFiles /\ NoCommand

\* The event loop replaces a socket that another process has bound.
Serve(d) ==
    /\ daemon[d] = "configured" /\ sock' = d /\ Becomes(d, "serving")
    /\ UNCHANGED pidFile /\ NoCommand

\* Main's finally clause, whosever the files are.
RemovePidFile(d) ==
    /\ daemon[d] = "ending" /\ pidFile' = None /\ Becomes(d, "removing")
    /\ UNCHANGED sock /\ NoCommand

RemoveSocket(d) ==
    /\ daemon[d] = "removing" /\ sock' = None /\ Becomes(d, "dead")
    /\ UNCHANGED pidFile /\ NoCommand

Crash(d) ==
    /\ "crash" \in DaemonFaults /\ IsUp(d)
    /\ Becomes(d, "dead") /\ KeepFiles /\ NoCommand

\* Another process gets the id.
Reuse(d) ==
    /\ "reuse" \in DaemonFaults /\ daemon[d] = "dead" /\ pidFile = d
    /\ \A c \in Commanders : cmdPc[c] \notin {"poll", "wait"}
    /\ Becomes(d, "reused") /\ KeepFiles /\ NoCommand

CommandsOver ==
    /\ \A c \in Commanders : cmdPc[c] = "over"
    /\ \A d \in Commanders : daemon[d] \in {"unborn", "serving", "dead", "reused"}
    /\ UNCHANGED daemonVars

CommandStep(c) ==
    \/ FindNoPid(c) \/ SendTerm(c) \/ SeeItGone(c) \/ SendKill(c)
    \/ CleanupFiles(c) \/ CheckRunning(c) \/ UnlinkSocket(c) \/ Spawn(c)
    \/ SeeItUp(c) \/ SeeItExited(c) \/ CommandGivesUp(c)

MainStep(d) ==
    \/ DaemonUnlinks(d) \/ WritePid(d) \/ LoadConfig(d) \/ Serve(d)
    \/ RemovePidFile(d) \/ RemoveSocket(d)

DaemonNext ==
    \/ \E c \in Commanders : BeginCommand(c) \/ CommandStep(c)
    \/ \E d \in Commanders : MainStep(d) \/ Crash(d) \/ Reuse(d)
    \/ CommandsOver

DaemonSpec == DaemonInit /\ [][DaemonNext]_daemonVars

-----------------------------------------------------------------------------
(* Properties *)

\* While commands follow one another and none gives up, whatever crashes in between: at
\* most one daemon lives, even after one that hung when it was told to stop, and the
\* daemon that a start reports is the one that clients reach and that stop finds.
OneReachableDaemon ==
    (orderly /\ \A c \in Commanders : cmdPc[c] \in {"idle", "over"}) =>
        /\ Cardinality({d \in Commanders : IsUp(d)}) <= 1
        /\ \A d \in Commanders :
              daemon[d] = "serving" => pidFile = d /\ sock = d /\ cmdExit[d] = "ok"
=============================================================================
