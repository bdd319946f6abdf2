----------------------------- MODULE MCRemote -----------------------------
(* The life of a cloud task and the questions that its agent asks, for TLC.  *)
(* The two share no state, so one run explores them one at a time: part is   *)
(* the one that moves, and the other stays in its initial state.  The states *)
(* add up, where an interleaving would multiply them.                        *)
EXTENDS CloudTask, Hitl

VARIABLE part

remoteVars == <<part, vars, hitlVars>>

RemoteInit ==
    /\ part \in {"cloud", "hitl"}
    /\ part # "cloud" => path = CHOOSE p \in Paths : TRUE
    /\ Init /\ HitlInit

RemoteNext ==
    \/ part = "cloud" /\ Next /\ UNCHANGED <<part, hitlVars>>
    \/ part = "hitl" /\ HitlNext /\ UNCHANGED <<part, vars>>

RemoteSpec == RemoteInit /\ [][RemoteNext]_remoteVars

\* The fairness that each part states.
RemoteFairSpec ==
    /\ RemoteSpec
    /\ WF_vars(part = "cloud" /\ Spawn) /\ WF_vars(part = "cloud" /\ Poll)
    /\ WF_vars(part = "cloud" /\ Exit)
    /\ \A c \in Cancelers : WF_vars(part = "cloud" /\ Cancel(c) /\ cpc[c] # "idle")
    /\ \A c \in Calls : /\ WF_hitlVars(part = "hitl" /\ Submit(c))
                        /\ WF_hitlVars(part = "hitl" /\ Wait(c))
                        /\ WF_hitlVars(part = "hitl" /\ Deadline(c))
=============================================================================
