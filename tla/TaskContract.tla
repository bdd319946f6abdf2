---------------------------- MODULE TaskContract ----------------------------
(***************************************************************************)
(* What popolad promises of a local task to those who look at its handle    *)
(* and its log, whatever its threads, its cancel requests and its crashes   *)
(* do: the end that the log tells is told once, after the process has ended *)
(* and true to how it ended; the handle says of an end what the log has     *)
(* told before, or canceled when a cancel was asked for; and a restart      *)
(* brings back only what has had a process.                                 *)
(***************************************************************************)

CONSTANTS
    Promised,       \* the tasks of which all this holds
    GraphMayDie,    \* a graph thread may end in an exception
    WaitMayRaise    \* proc.wait may raise while the process runs

VARIABLES
    alive,          \* the daemon runs
    shown,          \* what the handle of t says, or "absent"
    process,        \* "none", "running", or how it ended: "ok", "err", "killed"
    asked,          \* a cancel of t has been accepted
    told,           \* the ends that the log tells, at most one
    watch           \* the watch over the process: "none", "on", "told", "over"

contractVars == <<alive, shown, process, asked, told, watch>>

Ends == {"completed", "failed", "canceled"}

Ended(t) == process[t] \in {"ok", "err", "killed"}

ContractInit ==
    /\ alive = TRUE
    /\ shown = [t \in Promised |-> "absent"] /\ process = [t \in Promised |-> "none"]
    /\ asked = [t \in Promised |-> FALSE] /\ told = [t \in Promised |-> {}]
    /\ watch = [t \in Promised |-> "none"]

Accept(t) ==
    /\ alive /\ shown[t] = "absent" /\ process[t] = "none" /\ told[t] = {}
    /\ shown' = [shown EXCEPT ![t] = "running"]
    /\ UNCHANGED <<alive, process, asked, told, watch>>

Start(t) ==
    /\ alive /\ shown[t] = "running" /\ process[t] = "none" /\ told[t] = {}
    /\ process' = [process EXCEPT ![t] = "running"]
    /\ watch' = [watch EXCEPT ![t] = "on"]
    /\ UNCHANGED <<alive, shown, asked, told>>

\* Only a cancel kills; a signal may come from a request that a crash forgot.
End(t, how) ==
    /\ process[t] = "running"
    /\ how = "killed" => asked[t]
    /\ process' = [process EXCEPT ![t] = how]
    /\ UNCHANGED <<alive, shown, asked, told, watch>>

\* A cancel may come when all is over; the handle says canceled nevertheless.
Ask(t) ==
    /\ alive /\ shown[t] # "absent" /\ process[t] # "none"
    /\ shown' = [shown EXCEPT ![t] = "canceled"]
    /\ asked' = [asked EXCEPT ![t] = TRUE]
    /\ UNCHANGED <<alive, process, told, watch>>

\* How the process ended, unless a cancel was asked for.
TrueOf(t, end) ==
    /\ Ended(t) \/ WaitMayRaise
    /\ end = "completed" => process[t] = "ok"
    /\ end = "failed" => \/ process[t] = "err" \/ WaitMayRaise
                         \/ process[t] = "killed" /\ GraphMayDie
    /\ end = "canceled" => asked[t]

Tell(t, end) ==
    /\ alive /\ watch[t] = "on" /\ told[t] = {} /\ TrueOf(t, end)
    /\ told' = [told EXCEPT ![t] = {end}]
    /\ watch' = [watch EXCEPT ![t] = "told"]
    /\ UNCHANGED <<alive, shown, process, asked>>

\* The handle follows what was told, or a cancel that came before it could.
Settle(t, end) ==
    /\ alive /\ watch[t] = "told"
    /\ \/ end = shown[t] /\ asked[t]
       \/ end \in told[t] \ {"canceled"}
       \/ end \in {"completed", "failed"} /\ told[t] = {"canceled"} /\ GraphMayDie
    /\ shown' = [shown EXCEPT ![t] = end]
    /\ watch' = [watch EXCEPT ![t] = "over"]
    /\ UNCHANGED <<alive, process, asked, told>>

GraphDies(t) ==
    /\ GraphMayDie /\ alive /\ shown[t] # "absent" /\ process[t] # "none"
    /\ shown' = [shown EXCEPT ![t] = "failed"]
    /\ UNCHANGED <<alive, process, asked, told, watch>>

\* A crash may lose what was told and who asked; what was not told is not told
\* any more, since nobody watches.
Crash ==
    /\ alive /\ alive' = FALSE
    /\ shown' = [t \in Promised |-> "absent"] /\ watch' = [t \in Promised |-> "none"]
    /\ told' \in [Promised -> SUBSET Ends] /\ \A t \in Promised : told'[t] \subseteq told[t]
    /\ asked' \in [Promised -> BOOLEAN] /\ \A t \in Promised : asked'[t] => asked[t]
    /\ UNCHANGED process

Restart ==
    /\ ~alive /\ alive' = TRUE
    /\ shown' \in [Promised -> {"absent", "running"}]
    /\ \A t \in Promised : shown'[t] = "running" => process[t] # "none"
    /\ UNCHANGED <<process, asked, told, watch>>

ContractNext ==
    \/ \E t \in Promised : Accept(t) \/ Start(t) \/ Ask(t) \/ GraphDies(t)
    \/ \E t \in Promised, how \in {"ok", "err", "killed"} : End(t, how)
    \/ \E t \in Promised, end \in Ends : Tell(t, end) \/ Settle(t, end)
    \/ Crash
    \/ Restart

ContractSpec == ContractInit /\ [][ContractNext]_contractVars
=============================================================================
