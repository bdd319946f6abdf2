-------------------------------- MODULE Hitl --------------------------------
(***************************************************************************)
(* A question of a cloud agent to a human: the MCP tool that asks and waits *)
(* (mcp/cloud_hitl_tool.py), the daemon's endpoints (daemon/rpc.py), the    *)
(* bridge and the store of the requests (hitl/cloud_bridge.py,              *)
(* hitl/sync.py), and the channels that answer: a click on the Lark card,   *)
(* the feedback command as a Lark message, and two endpoints.               *)
(*                                                                         *)
(* All calls ask the same question, hence with one idempotency key, within  *)
(* one idempotency window; a call that finds no request to join makes one,  *)
(* which is named after it.  A statement of the store is one action.        *)
(***************************************************************************)
EXTENDS Integers, Sequences, FiniteSets

CONSTANTS
    Calls,          \* calls of the tool; the request that call c makes is c
    Humans,         \* answers, each given once
    Nobody,         \* neither
    Channels,       \* the channels they come by
    HitlFaults      \* which failures of HitlFaultKinds may happen

\* A card that is not delivered, and a v1 card that cannot be rendered.
HitlFaultKinds == {"lark", "render"}

ASSUME CallsAssumption == IsFiniteSet(Calls) /\ Nobody \notin Calls \cup Humans
ASSUME HitlFaultsAssumption == HitlFaults \subseteq HitlFaultKinds

VARIABLES
    rowStatus,      \* popola_hitl.status of request c
    rowAnswer,      \* whose answer the row has
    rowKeyed,       \* metadata holds the idempotency key
    overdue,        \* its deadline_at has passed
    made,           \* the requests in the order of created_at
    card,           \* the card of request c in the Lark chat
    trail,          \* the events about request c in the log of its task, with whom
                    \* they are due to
    callPc,         \* where call c is
    callRow,        \* the request it has made or joined
    verdict,        \* the result of the tool
    heard,          \* the answer in it
    humanPc,        \* where answer h is
    humanRow,       \* the request it is for
    told            \* what the channel replied

rowVars   == <<rowStatus, rowAnswer, rowKeyed, overdue, made, card>>
callVars  == <<callPc, callRow, verdict, heard>>
humanVars == <<humanPc, humanRow, told>>
hitlVars  == <<rowVars, trail, callVars, humanVars>>

-----------------------------------------------------------------------------
(* Types *)

Audits == {"requested", "joined", "cloud_requested", "answered",
           "cloud_answered", "timeout"}

Verdicts == {"none", "answered", "timeout", "gave_up"}

HitlTypeOK ==
    /\ rowStatus \in [Calls -> {"none", "pending", "answered", "timeout"}]
    /\ rowAnswer \in [Calls -> Humans \cup {Nobody}]
    /\ rowKeyed \in [Calls -> BOOLEAN] /\ overdue \in [Calls -> BOOLEAN]
    /\ made \in Seq(Calls)
    /\ card \in [Calls -> {"none", "v1", "generic"}]
    /\ trail \in [Calls -> SUBSET (Audits \X (Calls \cup Humans))]
    /\ callPc \in [Calls -> {"new", "missed", "created", "keyed", "sent", "joined",
                            "waiting", "overdue", "slice_over", "done"}]
    /\ callRow \in [Calls -> Calls \cup {Nobody}]
    /\ verdict \in [Calls -> Verdicts]
    /\ heard \in [Calls -> Humans \cup {Nobody}]
    /\ humanPc \in [Humans -> {"new", "clicked", "posted", "audited", "done"}]
    /\ humanRow \in [Humans -> Calls \cup {Nobody}]
    /\ told \in [Humans -> {"none", "ok", "already", "dropped"}]

-----------------------------------------------------------------------------
(* Helpers *)

\* lookup_by_idempotency_key: the newest request that is not timed out.
Joinable(r) == rowKeyed[r] /\ rowStatus[r] \in {"pending", "answered"}

Newest(r, rows) == \E i \in DOMAIN made :
                       /\ made[i] = r
                       /\ \A j \in DOMAIN made : made[j] \in rows => j <= i

Noted(r, e, by) == trail' = [trail EXCEPT ![r] = @ \cup {<<e, by>>}]

Step(c, from, to) == callPc[c] = from /\ callPc' = [callPc EXCEPT ![c] = to]

Return(c, from, v, h) ==
    /\ Step(c, from, "done")
    /\ verdict' = [verdict EXCEPT ![c] = v]
    /\ heard' = [heard EXCEPT ![c] = h]
    /\ UNCHANGED callRow

\* Variant: any row is updated.
MarkAnswered_AnyStatus(r, h) ==
    /\ rowStatus' = [rowStatus EXCEPT ![r] = "answered"]
    /\ rowAnswer' = [rowAnswer EXCEPT ![r] = h]

\* UPDATE ... WHERE status = 'pending'.
MarkAnswered(r, h) ==
    IF rowStatus[r] = "pending"
    THEN /\ rowStatus' = [rowStatus EXCEPT ![r] = "answered"]
         /\ rowAnswer' = [rowAnswer EXCEPT ![r] = h]
    ELSE UNCHANGED <<rowStatus, rowAnswer>>

-----------------------------------------------------------------------------
HitlInit ==
    /\ rowStatus = [c \in Calls |-> "none"] /\ rowAnswer = [c \in Calls |-> Nobody]
    /\ rowKeyed = [c \in Calls |-> FALSE] /\ overdue = [c \in Calls |-> FALSE]
    /\ made = <<>> /\ card = [c \in Calls |-> "none"]
    /\ trail = [c \in Calls |-> {}]
    /\ callPc = [c \in Calls |-> "new"] /\ callRow = [c \in Calls |-> Nobody]
    /\ verdict = [c \in Calls |-> "none"] /\ heard = [c \in Calls |-> Nobody]
    /\ humanPc = [h \in Humans |-> "new"] /\ humanRow = [h \in Humans |-> Nobody]
    /\ told = [h \in Humans |-> "none"]

-----------------------------------------------------------------------------
(* POST /hitl/cloud/request: submit_request and what the endpoint adds *)

Lookup(c) ==
    LET rows == {r \in Calls : Joinable(r)}
    IN  /\ IF rows = {}
           THEN /\ Step(c, "new", "missed")
                /\ callRow' = [callRow EXCEPT ![c] = c] /\ UNCHANGED trail
           ELSE /\ Step(c, "new", "joined")
                /\ \E r \in rows : /\ Newest(r, rows)
                                  /\ callRow' = [callRow EXCEPT ![c] = r]
                                  /\ Noted(r, "joined", c)
        /\ UNCHANGED <<rowVars, verdict, heard, humanVars>>

CreateRow(c) ==
    /\ Step(c, "missed", "created")
    /\ rowStatus' = [rowStatus EXCEPT ![c] = "pending"]
    /\ made' = Append(made, c)
    /\ UNCHANGED <<rowAnswer, rowKeyed, overdue, card, trail, callRow,
                   verdict, heard, humanVars>>

\* The audit that follows at once is part of it.
PersistMetadata(c) ==
    /\ Step(c, "created", "keyed")
    /\ rowKeyed' = [rowKeyed EXCEPT ![c] = TRUE]
    /\ Noted(c, "requested", c)
    /\ UNCHANGED <<rowStatus, rowAnswer, overdue, made, card, callRow,
                   verdict, heard, humanVars>>

\* The v1 card of the daemon's notifier, or the generic one if it cannot be
\* rendered.
Rendered == {"v1"} \cup IF "render" \in HitlFaults THEN {"generic"} ELSE {}

\* send_lark_card gives up after three attempts without raising, which counts as
\* sent.
SendCard(c) ==
    /\ Step(c, "keyed", "sent")
    /\ \/ \E kind \in Rendered : card' = [card EXCEPT ![c] = kind]
       \/ "lark" \in HitlFaults /\ UNCHANGED card
    /\ UNCHANGED <<rowStatus, rowAnswer, rowKeyed, overdue, made, trail, callRow, verdict,
                   heard, humanVars>>

RequestMade(c) ==
    /\ \/ Step(c, "sent", "waiting") /\ Noted(c, "cloud_requested", c)
       \/ Step(c, "joined", "waiting") /\ UNCHANGED trail
    /\ UNCHANGED <<rowVars, callRow, verdict, heard, humanVars>>

-----------------------------------------------------------------------------
(* GET /hitl/cloud/wait: await_answer in slices *)

Deadline(r) ==
    /\ rowStatus[r] = "pending" /\ ~overdue[r]
    /\ overdue' = [overdue EXCEPT ![r] = TRUE]
    /\ UNCHANGED <<rowStatus, rowAnswer, rowKeyed, made, card, trail, callVars, humanVars>>

\* Variant: only the slice ends the wait.
PollRow_NoDeadline(c) ==
    /\ callPc[c] = "waiting"
    /\ LET r == callRow[c]
       IN  IF rowStatus[r] = "answered" THEN Return(c, "waiting", "answered", rowAnswer[r])
           ELSE Step(c, "waiting", "slice_over") /\ UNCHANGED <<callRow, verdict, heard>>
    /\ UNCHANGED <<rowVars, trail, humanVars>>

\* One look at the row: an answer is returned at once, a request that has timed
\* out or a slice that is over ends the wait, an overdue one is to be timed out.
PollRow(c) ==
    /\ callPc[c] = "waiting"
    /\ LET r == callRow[c]
       IN  IF rowStatus[r] = "answered" THEN Return(c, "waiting", "answered", rowAnswer[r])
           ELSE /\ IF rowStatus[r] = "pending" /\ overdue[r] THEN Step(c, "waiting", "overdue")
                   ELSE Step(c, "waiting", "slice_over")
                /\ UNCHANGED <<callRow, verdict, heard>>
    /\ UNCHANGED <<rowVars, trail, humanVars>>

\* Variant: the audit goes out whoever has changed the row.
MarkTimeout_AuditAlways(c) ==
    /\ Step(c, "overdue", "slice_over") /\ Noted(callRow[c], "timeout", c)
    /\ IF rowStatus[callRow[c]] = "pending"
       THEN rowStatus' = [rowStatus EXCEPT ![callRow[c]] = "timeout"]
       ELSE UNCHANGED rowStatus
    /\ UNCHANGED <<rowAnswer, rowKeyed, overdue, made, card, callRow, verdict,
                   heard, humanVars>>

\* mark_timeout: it, too, changes a pending row only, and audits if it has.
MarkTimeout(c) ==
    /\ Step(c, "overdue", "slice_over")
    /\ LET r == callRow[c]
       IN  IF rowStatus[r] = "pending"
           THEN rowStatus' = [rowStatus EXCEPT ![r] = "timeout"] /\ Noted(r, "timeout", c)
           ELSE UNCHANGED <<rowStatus, trail>>
    /\ UNCHANGED <<rowAnswer, rowKeyed, overdue, made, card, callRow, verdict,
                   heard, humanVars>>

\* _cloud_wait_sync looks at the row again: what is not pending has timed out.
WaitReply(c) ==
    /\ callPc[c] = "slice_over"
    /\ IF rowStatus[callRow[c]] = "pending"
       THEN Step(c, "slice_over", "waiting") /\ UNCHANGED <<callRow, verdict, heard>>
       ELSE Return(c, "slice_over", "timeout", Nobody)
    /\ UNCHANGED <<rowVars, trail, humanVars>>

\* The budget of the tool is over, or its GET fails.
ToolGivesUp(c) ==
    /\ Return(c, "waiting", "gave_up", Nobody)
    /\ UNCHANGED <<rowVars, trail, humanVars>>

-----------------------------------------------------------------------------
(* The answers *)

\* The reply to the human is that of the compare-and-swap.
Answer(h, r, next) ==
    /\ MarkAnswered(r, h)
    /\ humanRow' = [humanRow EXCEPT ![h] = r]
    /\ IF rowStatus[r] = "pending"
       THEN /\ told' = [told EXCEPT ![h] = "ok"]
            /\ humanPc' = [humanPc EXCEPT ![h] = next]
       ELSE /\ told' = [told EXCEPT ![h] = "already"]
            /\ humanPc' = [humanPc EXCEPT ![h] = "done"]
    /\ UNCHANGED <<rowKeyed, overdue, made, card, trail, callVars>>

\* The buttons of a v1 card have no option_id in their value.
HasOption(kind) == kind = "generic"

\* on_card_action of the daemon.
CardAction(h, r) == Answer(h, r, "clicked")

\* A click on a card.  The listener drops a value without the two ids, and counts
\* a parse error.
ClickCard(h, r) ==
    /\ "lark" \in Channels /\ humanPc[h] = "new" /\ card[r] # "none"
    /\ IF HasOption(card[r]) THEN CardAction(h, r)
       ELSE /\ humanPc' = [humanPc EXCEPT ![h] = "done"]
            /\ told' = [told EXCEPT ![h] = "dropped"]
            /\ UNCHANGED <<rowVars, trail, callVars, humanRow>>

\* The feedback command, by somebody who sees the card: fold_reply, no audit.
TextFeedback(h, r) ==
    /\ "lark" \in Channels /\ humanPc[h] = "new" /\ card[r] # "none"
    /\ Answer(h, r, "done")

\* POST /hitl/answer, with an id of GET /hitl/pending: no audit either.
AnswerStore(h, r) ==
    /\ "store" \in Channels /\ humanPc[h] = "new" /\ rowStatus[r] # "none"
    /\ Answer(h, r, "done")

\* POST /hitl/cloud/answer: submit_answer.
AnswerCloud(h, r) ==
    /\ "cloud" \in Channels /\ humanPc[h] = "new" /\ rowStatus[r] # "none"
    /\ Answer(h, r, "posted")

\* The audit of submit_answer, and the event that the endpoint adds.
AuditAnswer(h) ==
    /\ \/ /\ humanPc[h] \in {"clicked", "posted"}
          /\ humanPc' = [humanPc EXCEPT ![h] = IF @ = "posted" THEN "audited" ELSE "done"]
          /\ Noted(humanRow[h], "answered", h)
       \/ /\ humanPc[h] = "audited"
          /\ humanPc' = [humanPc EXCEPT ![h] = "done"]
          /\ Noted(humanRow[h], "cloud_answered", h)
    /\ UNCHANGED <<rowVars, callVars, humanRow, told>>

-----------------------------------------------------------------------------
(* The specification *)

Submit(c) == \/ Lookup(c) \/ CreateRow(c) \/ PersistMetadata(c)
             \/ SendCard(c) \/ RequestMade(c)

Wait(c) == PollRow(c) \/ MarkTimeout(c) \/ WaitReply(c)

HitlNext ==
    \/ \E c \in Calls : Submit(c) \/ Wait(c) \/ ToolGivesUp(c) \/ Deadline(c)
    \/ \E h \in Humans, r \in Calls :
           \/ ClickCard(h, r) \/ TextFeedback(h, r)
           \/ AnswerStore(h, r) \/ AnswerCloud(h, r)
    \/ \E h \in Humans : AuditAnswer(h)

HitlSpec == HitlInit /\ [][HitlNext]_hitlVars

\* Handlers run on and deadlines pass; humans and the tool's own budget owe nothing.
HitlFairSpec ==
    /\ HitlSpec
    /\ \A c \in Calls : WF_hitlVars(Submit(c)) /\ WF_hitlVars(Wait(c)) /\ WF_hitlVars(Deadline(c))

-----------------------------------------------------------------------------
(* Properties the code has *)

\* Of all the answers to a request, by whatever channels, one is told that it
\* counts, and it is the one that the row keeps and every caller is given.
OneWinner ==
    \A r \in Calls :
        LET winners == {h \in Humans : humanRow[h] = r /\ told[h] = "ok"}
        IN  /\ winners = {rowAnswer[r]} \ {Nobody}
            /\ rowStatus[r] = "answered" <=> winners # {}
            /\ \A c \in Calls : callRow[c] = r /\ verdict[c] = "answered" => heard[c] \in winners

\* The audit trail tells one end of a request at most, and the one it had, even
\* when an answer arrives just when a waiter is about to time it out.
Ends(r) == {e \in trail[r] : e[1] \in {"answered", "timeout"}}

TrailTellsTheEnd ==
    \A r \in Calls :
        /\ Cardinality(Ends(r)) <= 1
        /\ \A e \in Ends(r) : e[1] = rowStatus[r]

\* A call that has made or joined a request returns, even if nobody answers and
\* without its own budget running out.
CallEnds == \A c \in Calls : callPc[c] # "new" ~> callPc[c] = "done"

-----------------------------------------------------------------------------
(* What the services promise *)

\* The row of a request as its outcome.
Outcome == [r \in Calls |-> CASE rowStatus[r] = "none" -> "unasked"
                              [] rowStatus[r] = "pending" -> "open"
                              [] rowStatus[r] = "timeout" -> "expired"
                              [] rowStatus[r] = "answered" -> rowAnswer[r]]

\* A call has a question once its row exists.
About == [c \in Calls |-> IF callPc[c] \in {"new", "missed"} THEN Nobody ELSE callRow[c]]

Reply == [c \in Calls |-> IF verdict[c] = "answered" THEN heard[c] ELSE verdict[c]]

Contract ==
    INSTANCE HitlContract WITH outcome <- Outcome, about <- About, reply <- Reply

\* However the channels, the deadlines and the slices of the waits interleave, a request
\* is decided once, each human learns whether it was by that answer, and no call reports
\* another end (hitl/sync.py, cloud_bridge.py, cloud_hitl_tool.py).
KeepsContract == Contract!ContractSpec

-----------------------------------------------------------------------------
(* What comments claim and the code does not keep *)

\* cloud_hitl_tool.py: "HITL request timed out (daemon reported terminal timeout": when the
\* daemon reports it, the request has timed out.  But an answer between the end
\* of a slice and the second look at the row is reported as a timeout too.
TimeoutIsTerminal ==
    [][\A c \in Calls : verdict[c] = "none" /\ verdict'[c] = "timeout" =>
           rowStatus[callRow[c]] = "timeout"]_hitlVars

\* USER_GUIDE.md: "LarkSupervisor catches the button event": a click on the card of
\* a request is an answer to it, the first or a late one.
ClickCounts == \A h \in Humans : told[h] # "dropped"
=============================================================================
