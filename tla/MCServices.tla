---------------------------- MODULE MCServices ----------------------------
(* The services that popolad runs beside the life of a task, for TLC: the    *)
(* event log, the queue of busy agents, the pump of an attached cloud        *)
(* stream, the Lark listener, the output of a child process, the graph       *)
(* primitives and the envelopes of dispatches.  They share no state, so one  *)
(* run explores them one at a time: part is the one that moves, and the      *)
(* others stay in an initial state.  The states add up, where an             *)
(* interleaving would multiply them.                                         *)
EXTENDS EventLog, BusyQueue, CloudStream, LarkListener, Output, Primitives, Handoff

VARIABLE part

serviceVars ==
    <<part, logVars, queueVars, streamVars, larkVars, outputVars, primitiveVars, handoffVars>>

\* What has several initial states is fixed while another part moves.
ServicesInit ==
    /\ part \in {"log", "queue", "stream", "lark", "output", "graph", "handoff"}
    /\ part # "graph" => /\ request = CHOOSE r \in Requests : TRUE
                         /\ callbacks = [s \in Subscribers |-> "both"]
    /\ LogInit /\ QueueInit /\ StreamInit /\ LarkInit /\ OutputInit /\ PrimitivesInit
    /\ HandoffInit

\* Only p moves.
Moves(p) ==
    /\ part = p /\ UNCHANGED part
    /\ p # "log" => UNCHANGED logVars
    /\ p # "queue" => UNCHANGED queueVars
    /\ p # "stream" => UNCHANGED streamVars
    /\ p # "lark" => UNCHANGED larkVars
    /\ p # "output" => UNCHANGED outputVars
    /\ p # "graph" => UNCHANGED primitiveVars
    /\ p # "handoff" => UNCHANGED handoffVars

ServicesNext ==
    \/ Moves("log") /\ LogNext
    \/ Moves("queue") /\ QueueNext
    \/ Moves("stream") /\ StreamNext
    \/ Moves("lark") /\ LarkNext
    \/ Moves("output") /\ OutputNext
    \/ Moves("graph") /\ PrimitivesNext
    \/ Moves("handoff") /\ HandoffNext

ServicesSpec == ServicesInit /\ [][ServicesNext]_serviceVars

\* The fairness that each part states.
ServicesFairSpec ==
    /\ ServicesSpec
    /\ WF_logVars(part = "log" /\ FsyncWorker)
    /\ \A f \in Followers : WF_logVars(part = "log" /\ Stream(f))
    /\ \A k \in Drainers : WF_queueVars(part = "queue" /\ Tick(k))
    /\ \A d \in Dispatches : WF_queueVars(part = "queue" /\ EntryDeadline(d))
    /\ WF_streamVars(part = "stream" /\ taskEnded /\ ReadingStops)
    /\ WF_streamVars(part = "stream" /\ Joins)
    /\ WF_larkVars(part = "lark" /\ WatchFinds) /\ WF_larkVars(part = "lark" /\ WatchRestarts)

\* The types of the parts, each stated in its module.
ServicesTypeOK ==
    /\ LogTypeOK /\ QueueTypeOK /\ StreamTypeOK /\ LarkTypeOK /\ OutputTypeOK
    /\ PrimitivesTypeOK /\ HandoffTypeOK
=============================================================================
