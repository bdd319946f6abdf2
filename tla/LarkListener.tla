---------------------------- MODULE LarkListener ----------------------------
(***************************************************************************)
(* The child process that receives events from Lark and its watchdog        *)
(* (lark/listener.py, lark/supervisor.py), started and stopped with the     *)
(* daemon (daemon/main.py, daemon/rpc.py).  All of it runs on one event     *)
(* loop: an action is what a coroutine does between two awaits.             *)
(***************************************************************************)
EXTENDS Integers

CONSTANTS
    MaxRestarts,    \* MAX_RESTARTS
    MaxLives        \* bound on the processes that are started

ASSUME RestartsAssumption == MaxRestarts \in Nat /\ MaxLives \in Nat \ {0}

VARIABLES
    child,      \* the process in _state.proc: none, alive, or dead but not reaped
    lives,      \* the processes that have been started
    readySeen,  \* _ready_event, which nothing clears
    startPc,    \* where LarkSupervisor.start is
    watchPc,    \* where _watch is
    restarts,   \* restart_count
    escalated,
    stopping    \* _stopped

listenerVars == <<child, lives, readySeen>>
watchVars    == <<watchPc, restarts, escalated>>
larkVars     == <<listenerVars, startPc, watchVars, stopping>>

LarkTypeOK ==
    /\ child \in {"none", "alive", "dead"}
    /\ lives \in 0..MaxLives
    /\ readySeen \in BOOLEAN
    /\ startPc \in {"new", "spawning", "waiting", "up", "failed"}
    /\ watchPc \in {"off", "sleeping", "backing_off", "done"}
    /\ restarts \in 0..MaxRestarts
    /\ escalated \in BOOLEAN /\ stopping \in {"no", "joining", "done"}

-----------------------------------------------------------------------------
LarkInit ==
    /\ child = "none" /\ lives = 0 /\ readySeen = FALSE
    /\ startPc = "new" /\ watchPc = "off" /\ restarts = 0
    /\ escalated = FALSE /\ stopping = "no"

-----------------------------------------------------------------------------
(* The process (external) *)

PrintsReady ==
    /\ child = "alive" /\ ~readySeen /\ readySeen' = TRUE
    /\ UNCHANGED <<child, lives, startPc, watchVars, stopping>>

Dies ==
    /\ child = "alive" /\ child' = "dead"
    /\ UNCHANGED <<lives, readySeen, startPc, watchVars, stopping>>

-----------------------------------------------------------------------------
(* LarkListener.start in LarkSupervisor.start *)

Start ==
    /\ startPc = "new" /\ stopping = "no" /\ lives < MaxLives
    /\ \/ startPc' = "spawning" /\ lives' = lives + 1
       \/ startPc' = "failed" /\ UNCHANGED lives
    /\ UNCHANGED <<child, readySeen, watchVars, stopping>>

\* _state.proc is set when the process runs already: a stop in between has not
\* seen it.
Spawned ==
    /\ startPc = "spawning"
    /\ startPc' = "waiting" /\ child' = "alive"
    /\ UNCHANGED <<lives, readySeen, watchVars, stopping>>

\* The marker came, and the watchdog is created.
StartDone ==
    /\ startPc = "waiting" /\ readySeen
    /\ startPc' = "up" /\ watchPc' = IF stopping = "no" THEN "sleeping" ELSE "done"
    /\ UNCHANGED <<listenerVars, restarts, escalated, stopping>>

\* READY_TIMEOUT_S: LarkListener.stop, and the daemon runs on without Lark.
StartTimeout ==
    /\ startPc = "waiting" /\ ~readySeen
    /\ startPc' = "failed" /\ child' = "none"
    /\ UNCHANGED <<lives, readySeen, watchVars, stopping>>

-----------------------------------------------------------------------------
(* _watch *)

\* It was up for RESET_THRESHOLD_S.
WatchResets ==
    /\ watchPc = "sleeping" /\ child = "alive" /\ restarts' = 0
    /\ UNCHANGED <<listenerVars, startPc, watchPc, escalated, stopping>>

\* Variant: the limit is never reached.
WatchFinds_NoLimit ==
    /\ watchPc = "sleeping" /\ child # "alive"
    /\ watchPc' = "backing_off"
    /\ restarts' = IF restarts < MaxRestarts THEN restarts + 1 ELSE restarts
    /\ UNCHANGED <<listenerVars, startPc, escalated, stopping>>

WatchFinds ==
    /\ watchPc = "sleeping" /\ child # "alive"
    /\ IF restarts >= MaxRestarts
       THEN watchPc' = "done" /\ escalated' = TRUE /\ UNCHANGED restarts
       ELSE watchPc' = "backing_off" /\ restarts' = restarts + 1 /\ UNCHANGED escalated
    /\ UNCHANGED <<listenerVars, startPc, stopping>>

\* LarkListener.start again.  It raises while _state.proc is set, and a process
\* that has died leaves it set.
WatchRestarts ==
    /\ watchPc = "backing_off"
    /\ watchPc' = "sleeping"
    /\ IF child = "none" /\ lives < MaxLives
       THEN child' = "alive" /\ lives' = lives + 1
       ELSE UNCHANGED <<child, lives>>
    /\ UNCHANGED <<readySeen, startPc, restarts, escalated, stopping>>

-----------------------------------------------------------------------------
(* LarkSupervisor.stop at the shutdown of the daemon *)

\* The watchdog is cancelled wherever it sleeps.
StopWatch ==
    /\ stopping = "no" /\ stopping' = "joining"
    /\ watchPc' = IF watchPc = "off" THEN "off" ELSE "done"
    /\ UNCHANGED <<listenerVars, startPc, restarts, escalated>>

StopListener ==
    /\ stopping = "joining" /\ stopping' = "done"
    /\ child' = "none"
    /\ UNCHANGED <<lives, readySeen, startPc, watchVars>>

-----------------------------------------------------------------------------
Watch == WatchResets \/ WatchFinds \/ WatchRestarts

LarkNext == \/ PrintsReady \/ Dies
            \/ Start \/ Spawned \/ StartDone \/ StartTimeout
            \/ Watch \/ StopWatch \/ StopListener

LarkSpec == LarkInit /\ [][LarkNext]_larkVars

LarkFairSpec == LarkSpec /\ WF_larkVars(WatchFinds) /\ WF_larkVars(WatchRestarts)

-----------------------------------------------------------------------------
(* Properties the code has *)

\* The watchdog does not look on for ever: a process that died under it runs again or is
\* escalated in the end, unless the daemon stops.  In this code it is never the former,
\* see DeathIsRestarted.
DeathIsAnswered ==
    child = "dead" /\ watchPc = "sleeping" ~> child = "alive" \/ escalated \/ stopping # "no"

-----------------------------------------------------------------------------
(* What comments claim and the code does not keep *)

\* supervisor.py: a listener that died is restarted up to three times before the watchdog
\* escalates (so USER_GUIDE.md and the test of a restart, whose fake listener may be started
\* twice).  LarkListener.start raises each time, and every death is escalated.
DeathIsRestarted ==
    child = "dead" /\ watchPc = "sleeping" /\ restarts < MaxRestarts
        ~> child = "alive" \/ stopping # "no"

\* supervisor.py: "listener died %d times in a row": by then as many processes have been
\* started again.
EscalatedAfterRestarts == escalated => lives > MaxRestarts
=============================================================================
