---------------------------- MODULE HitlContract ----------------------------
(***************************************************************************)
(* What the HITL services promise, whatever the channels, the store and the *)
(* waits in slices do: a question is asked once and decided once, by the    *)
(* first answer or by its deadline, every human is told which of the two it *)
(* was, and a call reports nothing about a question that is still open but  *)
(* that it stops waiting.                                                   *)
(***************************************************************************)

CONSTANTS
    Calls,          \* calls of the tool; the question that call c asks is c
    Humans,         \* answers, each given once
    Nobody          \* neither

VARIABLES
    outcome,        \* "unasked", "open", "expired", or the human whose answer counts
    about,          \* the question of a call
    reply,          \* "none", "timeout", "gave_up", or the human whose answer the
                    \* call reports
    told            \* what a human is told

contractVars == <<outcome, about, reply, told>>

Decided(q) == outcome[q] \in Humans \cup {"expired"}

ContractInit ==
    /\ outcome = [q \in Calls |-> "unasked"] /\ about = [c \in Calls |-> Nobody]
    /\ reply = [c \in Calls |-> "none"] /\ told = [h \in Humans |-> "none"]

Ask(c) ==
    /\ about[c] = Nobody /\ outcome[c] = "unasked"
    /\ about' = [about EXCEPT ![c] = c] /\ outcome' = [outcome EXCEPT ![c] = "open"]
    /\ UNCHANGED <<reply, told>>

\* A question with the same key is shared unless it has expired.
Share(c, q) ==
    /\ about[c] = Nobody /\ outcome[q] \in Humans \cup {"open"}
    /\ about' = [about EXCEPT ![c] = q]
    /\ UNCHANGED <<outcome, reply, told>>

Decide(h, q) ==
    /\ told[h] = "none" /\ outcome[q] = "open"
    /\ outcome' = [outcome EXCEPT ![q] = h] /\ told' = [told EXCEPT ![h] = "ok"]
    /\ UNCHANGED <<about, reply>>

ComeLate(h, q) ==
    /\ told[h] = "none" /\ Decided(q)
    /\ told' = [told EXCEPT ![h] = "already"]
    /\ UNCHANGED <<outcome, about, reply>>

\* A click that cannot be read decides nothing.
GetLost(h) ==
    /\ told[h] = "none" /\ told' = [told EXCEPT ![h] = "dropped"]
    /\ UNCHANGED <<outcome, about, reply>>

Expire(q) ==
    /\ outcome[q] = "open" /\ outcome' = [outcome EXCEPT ![q] = "expired"]
    /\ UNCHANGED <<about, reply, told>>

\* The answer that counts, or a timeout: that of the question, or that of the slice in
\* which the answer came.
Report(c) ==
    /\ about[c] # Nobody /\ reply[c] = "none"
    /\ \/ outcome[about[c]] \in Humans /\ reply' = [reply EXCEPT ![c] = outcome[about[c]]]
       \/ Decided(about[c]) /\ reply' = [reply EXCEPT ![c] = "timeout"]
       \/ reply' = [reply EXCEPT ![c] = "gave_up"]
    /\ UNCHANGED <<outcome, about, told>>

ContractNext ==
    \/ \E c \in Calls : Ask(c) \/ Expire(c) \/ Report(c)
    \/ \E c, q \in Calls : Share(c, q)
    \/ \E h \in Humans, q \in Calls : Decide(h, q) \/ ComeLate(h, q)
    \/ \E h \in Humans : GetLost(h)

ContractSpec == ContractInit /\ [][ContractNext]_contractVars
=============================================================================
