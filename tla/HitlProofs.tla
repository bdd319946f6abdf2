----------------------------- MODULE HitlProofs -----------------------------
(***************************************************************************)
(* Hitl: type correctness, one answer per request, a trail that tells the   *)
(* end it had, and the implementation of HitlContract, for any calls, any   *)
(* humans, any channels and any faults.                                     *)
(***************************************************************************)
EXTENDS Hitl, FiniteSetTheorems, TLAPS

-----------------------------------------------------------------------------
(* The inductive invariant *)

\* A row is made by the call it is named after, which has it from then on.
RowStage ==
    \A r \in Calls :
        /\ rowStatus[r] # "none" <=> callRow[r] = r /\ callPc[r] # "missed"
        /\ rowKeyed[r] \/ card[r] # "none" => rowStatus[r] # "none"
        /\ rowStatus[r] = "answered" <=> rowAnswer[r] # Nobody

\* A call has a row from its lookup on, and an answer from the row.
CallStage ==
    \A c \in Calls :
        /\ callPc[c] = "new" => callRow[c] = Nobody
        /\ callPc[c] \in {"missed", "created", "keyed", "sent"} => callRow[c] = c
        /\ callPc[c] \notin {"new", "missed"} =>
               callRow[c] \in Calls /\ rowStatus[callRow[c]] # "none"
        /\ verdict[c] # "none" <=> callPc[c] = "done"
        /\ verdict[c] = "answered" => /\ rowStatus[callRow[c]] = "answered"
                                      /\ heard[c] = rowAnswer[callRow[c]]

\* Who is told that the answer counts is who the row names, and only they audit.
HumanStage ==
    \A h \in Humans :
        /\ humanPc[h] = "new" <=> told[h] = "none"
        /\ humanPc[h] \in {"clicked", "posted", "audited"} => told[h] = "ok"
        /\ told[h] = "ok" => humanRow[h] \in Calls /\ rowAnswer[humanRow[h]] = h
        /\ \A r \in Calls : rowAnswer[r] = h => humanRow[h] = r /\ told[h] = "ok"

\* An end in the trail is the end of the row, and names the human that the row names.
TrailStage ==
    \A r \in Calls :
        /\ \A e \in Ends(r) : /\ e[1] = rowStatus[r]
                              /\ e[1] = "answered" => e[2] = rowAnswer[r]
        /\ \A e, f \in Ends(r) : e = f

IInv == HitlTypeOK /\ RowStage /\ CallStage /\ HumanStage /\ TrailStage
-----------------------------------------------------------------------------
(* Lemmas *)

\* An event of another kind leaves the ends in the trail alone; an end adds itself.
LEMMA NotedEvent ==
    ASSUME HitlTypeOK, NEW r \in Calls, NEW e, NEW by, Noted(r, e, by)
    PROVE  /\ \A q \in Calls : q # r => Ends(q)' = Ends(q)
           /\ e \notin {"answered", "timeout"} => Ends(r)' = Ends(r)
           /\ e \in {"answered", "timeout"} => Ends(r)' = Ends(r) \cup {<<e, by>>}
BY DEF HitlTypeOK, Noted, Ends

\* What the initial state and a step that leaves everything alone have.
LEMMA InitHolds == HitlInit => IInv
<1> SUFFICES ASSUME HitlInit PROVE IInv
  OBVIOUS
<1>1. HitlTypeOK
  BY DEF HitlInit, HitlTypeOK, Verdicts
<1>2. RowStage /\ CallStage /\ HumanStage /\ TrailStage
  BY CallsAssumption DEF HitlInit, RowStage, CallStage, HumanStage, TrailStage, Ends
<1> QED
  BY <1>1, <1>2 DEF IInv

LEMMA StutterHolds == IInv /\ UNCHANGED hitlVars => IInv'
BY DEF IInv, HitlTypeOK, RowStage, CallStage, HumanStage, TrailStage, Ends, hitlVars, rowVars,
       callVars, humanVars

\* The endpoint that makes or joins a request.
LEMMA SubmitHolds == ASSUME IInv, NEW c \in Calls, Submit(c) PROVE IInv'
<1> USE CallsAssumption
<1>1. CASE Lookup(c)
  <2>1. CASE {r \in Calls : Joinable(r)} = {}
    <3>1. /\ callPc[c] = "new" /\ callPc' = [callPc EXCEPT ![c] = "missed"]
          /\ callRow' = [callRow EXCEPT ![c] = c]
          /\ UNCHANGED <<rowVars, trail, verdict, heard, humanVars>>
      BY <1>1, <2>1 DEF Lookup, Step
    <3>2. HitlTypeOK'
      BY <3>1 DEF IInv, HitlTypeOK, rowVars, humanVars
    <3>3. RowStage' /\ CallStage'
      BY <3>1 DEF IInv, HitlTypeOK, RowStage, CallStage, rowVars
    <3>4. HumanStage' /\ TrailStage'
      BY <3>1 DEF IInv, HumanStage, TrailStage, Ends, rowVars, humanVars
    <3> QED
      BY <3>2, <3>3, <3>4 DEF IInv
  <2>2. CASE {r \in Calls : Joinable(r)} # {}
    <3>1. PICK r \in Calls :
              /\ Joinable(r) /\ Noted(r, "joined", c)
              /\ callPc[c] = "new" /\ callPc' = [callPc EXCEPT ![c] = "joined"]
              /\ callRow' = [callRow EXCEPT ![c] = r]
              /\ UNCHANGED <<rowVars, verdict, heard, humanVars>>
      BY <1>1, <2>2 DEF Lookup, Step
    <3>2. HitlTypeOK'
      BY <3>1 DEF IInv, HitlTypeOK, Noted, Audits, rowVars, humanVars
    <3>3. rowStatus[r] # "none" /\ r # c
      BY <3>1 DEF Joinable, IInv, RowStage, CallStage, HitlTypeOK
    <3>4. RowStage' /\ CallStage'
      BY <3>1, <3>3 DEF IInv, HitlTypeOK, RowStage, CallStage, rowVars
    <3>5. \A q \in Calls : Ends(q)' = Ends(q)
      BY <3>1, NotedEvent DEF IInv
    <3>6. HumanStage' /\ TrailStage'
      BY <3>1, <3>5 DEF IInv, HumanStage, TrailStage, rowVars, humanVars
    <3> QED
      BY <3>2, <3>4, <3>6 DEF IInv
  <2> QED
    BY <2>1, <2>2
<1>2. CASE CreateRow(c)
  <2>1. /\ callPc[c] = "missed" /\ callRow[c] = c
        /\ rowStatus[c] = "none" /\ rowAnswer[c] = Nobody /\ Ends(c) = {}
    BY <1>2 DEF CreateRow, Step, IInv, HitlTypeOK, CallStage, RowStage, TrailStage, Ends
  <2>2. HitlTypeOK'
    BY <1>2 DEF CreateRow, Step, IInv, HitlTypeOK, humanVars
  <2>3. RowStage' /\ CallStage'
    BY <1>2, <2>1 DEF CreateRow, Step, IInv, HitlTypeOK, RowStage, CallStage
  <2>4. HumanStage' /\ TrailStage'
    BY <1>2, <2>1 DEF CreateRow, Step, IInv, HitlTypeOK, HumanStage, TrailStage, Ends, humanVars
  <2> QED
    BY <2>2, <2>3, <2>4 DEF IInv
<1>3. CASE PersistMetadata(c)
  <2>1. callPc[c] = "created" /\ rowStatus[c] # "none"
    BY <1>3 DEF PersistMetadata, Step, IInv, CallStage, HitlTypeOK
  <2>2. HitlTypeOK'
    BY <1>3 DEF PersistMetadata, Step, Noted, Audits, IInv, HitlTypeOK, humanVars
  <2>3. RowStage' /\ CallStage'
    BY <1>3, <2>1 DEF PersistMetadata, Step, IInv, HitlTypeOK, RowStage, CallStage
  <2>4. \A q \in Calls : Ends(q)' = Ends(q)
    BY <1>3, NotedEvent DEF PersistMetadata, IInv
  <2>5. HumanStage' /\ TrailStage'
    BY <1>3, <2>4 DEF PersistMetadata, IInv, HumanStage, TrailStage, humanVars
  <2> QED
    BY <2>2, <2>3, <2>5 DEF IInv
<1>4. CASE SendCard(c)
  <2>1. callPc[c] = "keyed" /\ rowStatus[c] # "none"
    BY <1>4 DEF SendCard, Step, IInv, CallStage, HitlTypeOK
  <2>2. /\ card' \in [Calls -> {"none", "v1", "generic"}]
        /\ \A q \in Calls : q # c => card'[q] = card[q]
    BY <1>4 DEF SendCard, Rendered, IInv, HitlTypeOK
  <2>3. HitlTypeOK'
    BY <1>4, <2>2 DEF SendCard, Step, IInv, HitlTypeOK, humanVars
  <2>4. RowStage' /\ CallStage'
    BY <1>4, <2>1, <2>2 DEF SendCard, Step, IInv, HitlTypeOK, RowStage, CallStage
  <2>5. HumanStage' /\ TrailStage'
    BY <1>4 DEF SendCard, IInv, HumanStage, TrailStage, Ends, humanVars
  <2> QED
    BY <2>3, <2>4, <2>5 DEF IInv
<1>5. CASE RequestMade(c)
  <2>1. \A q \in Calls : Ends(q)' = Ends(q)
    BY <1>5, NotedEvent DEF RequestMade, IInv, Ends
  <2>2. /\ callPc[c] \in {"sent", "joined"} /\ callPc' = [callPc EXCEPT ![c] = "waiting"]
        /\ trail' \in [Calls -> SUBSET (Audits \X (Calls \cup Humans))]
    BY <1>5 DEF RequestMade, Step, Noted, Audits, IInv, HitlTypeOK
  <2>3. HitlTypeOK'
    BY <1>5, <2>2 DEF RequestMade, IInv, HitlTypeOK, rowVars, humanVars
  <2>4. RowStage' /\ CallStage'
    BY <1>5, <2>2 DEF RequestMade, IInv, HitlTypeOK, RowStage, CallStage, rowVars
  <2>5. HumanStage' /\ TrailStage'
    BY <1>5, <2>1 DEF RequestMade, IInv, HumanStage, TrailStage, rowVars, humanVars
  <2> QED
    BY <2>3, <2>4, <2>5 DEF IInv
<1> QED
  BY <1>1, <1>2, <1>3, <1>4, <1>5 DEF Submit

\* The waits, the deadline and the end of the tool's budget.
LEMMA WaitHolds ==
    ASSUME IInv, NEW c \in Calls, Wait(c) \/ ToolGivesUp(c) \/ Deadline(c)
    PROVE  IInv'
<1>1. ASSUME NEW v, NEW h, NEW from, Return(c, from, v, h), UNCHANGED <<rowVars, trail, humanVars>>,
             from \in {"waiting", "slice_over"}, v \in Verdicts \ {"none"}, h \in Humans \cup {Nobody},
             v = "answered" => rowStatus[callRow[c]] = "answered" /\ h = rowAnswer[callRow[c]]
      PROVE  IInv'
  <2>1. HitlTypeOK'
    BY <1>1 DEF Return, Step, IInv, HitlTypeOK, rowVars, humanVars
  <2>2. RowStage' /\ CallStage'
    BY <1>1 DEF Return, Step, IInv, HitlTypeOK, RowStage, CallStage, rowVars
  <2>3. HumanStage' /\ TrailStage'
    BY <1>1 DEF IInv, HumanStage, TrailStage, Ends, rowVars, humanVars
  <2> QED
    BY <2>1, <2>2, <2>3 DEF IInv
<1>2. ASSUME NEW from, NEW to, Step(c, from, to), UNCHANGED <<callRow, verdict, heard>>,
             UNCHANGED <<rowVars, trail, humanVars>>,
             from \in {"waiting", "slice_over"}, to \in {"waiting", "overdue", "slice_over"}
      PROVE  IInv'
  <2>1. HitlTypeOK'
    BY <1>2 DEF Step, IInv, HitlTypeOK, rowVars, humanVars
  <2>2. RowStage' /\ CallStage'
    BY <1>2 DEF Step, IInv, HitlTypeOK, RowStage, CallStage, rowVars
  <2>3. HumanStage' /\ TrailStage'
    BY <1>2 DEF IInv, HumanStage, TrailStage, Ends, rowVars, humanVars
  <2> QED
    BY <2>1, <2>2, <2>3 DEF IInv
<1>3. CASE PollRow(c)
  <2>1. callPc[c] = "waiting" /\ callRow[c] \in Calls
    BY <1>3 DEF PollRow, IInv, CallStage
  <2>2. rowAnswer[callRow[c]] \in Humans \cup {Nobody}
    BY <2>1 DEF IInv, HitlTypeOK
  <2>3. CASE rowStatus[callRow[c]] = "answered"
    BY <1>1, <1>3, <2>2, <2>3 DEF PollRow, Verdicts
  <2>4. CASE rowStatus[callRow[c]] # "answered"
    BY <1>2, <1>3, <2>4 DEF PollRow
  <2> QED
    BY <2>3, <2>4
<1>4. CASE MarkTimeout(c)
  <2>1. callPc[c] = "overdue" /\ callRow[c] \in Calls
    BY <1>4 DEF MarkTimeout, Step, IInv, CallStage
  <2>2. CASE rowStatus[callRow[c]] # "pending"
    BY <1>4, <2>2 DEF MarkTimeout, Step, IInv, HitlTypeOK, RowStage, CallStage, HumanStage,
                      TrailStage, Ends, humanVars
  <2>3. CASE rowStatus[callRow[c]] = "pending"
    <3> DEFINE r == callRow[c]
    <3>1. /\ rowStatus' = [rowStatus EXCEPT ![r] = "timeout"] /\ Noted(r, "timeout", c)
          /\ callPc' = [callPc EXCEPT ![c] = "slice_over"]
          /\ UNCHANGED <<rowAnswer, rowKeyed, overdue, made, card, callRow, verdict, heard,
                         humanVars>>
      BY <1>4, <2>3 DEF MarkTimeout, Step
    <3>2. HitlTypeOK'
      BY <2>1, <3>1 DEF Noted, Audits, IInv, HitlTypeOK, humanVars
    <3>3. RowStage' /\ CallStage'
      BY <2>1, <2>3, <3>1 DEF IInv, HitlTypeOK, RowStage, CallStage
    <3>4. Ends(r) = {}
      BY <2>1, <2>3 DEF IInv, TrailStage, Ends
    <3>5. /\ Ends(r)' = {<<"timeout", c>>}
          /\ \A q \in Calls : q # r => Ends(q)' = Ends(q)
      BY <2>1, <3>1, <3>4, NotedEvent DEF IInv
    <3>6. TrailStage'
      BY <2>1, <3>1, <3>5 DEF IInv, HitlTypeOK, TrailStage
    <3>7. HumanStage'
      BY <3>1 DEF IInv, HumanStage, humanVars
    <3> QED
      BY <3>2, <3>3, <3>6, <3>7 DEF IInv
  <2> QED
    BY <2>2, <2>3
<1>5. CASE WaitReply(c)
  BY <1>1, <1>2, <1>5 DEF WaitReply, Verdicts
<1>6. CASE ToolGivesUp(c)
  BY <1>1, <1>6 DEF ToolGivesUp, Verdicts
<1>7. CASE Deadline(c)
  BY <1>7 DEF Deadline, IInv, HitlTypeOK, RowStage, CallStage, HumanStage, TrailStage, Ends,
              callVars, humanVars
<1> QED
  BY <1>3, <1>4, <1>5, <1>6, <1>7 DEF Wait

\* The compare-and-swap of an answer by any channel.
LEMMA AnswerHolds ==
    ASSUME IInv, NEW h \in Humans, NEW r \in Calls, NEW next \in {"clicked", "posted", "done"},
           humanPc[h] = "new", rowStatus[r] # "none", Answer(h, r, next)
    PROVE  IInv'
<1> USE CallsAssumption
<1>1. told[h] = "none" /\ \A q \in Calls : rowAnswer[q] # h
  BY DEF IInv, HumanStage
<1>2. /\ rowAnswer' \in [Calls -> Humans \cup {Nobody}]
      /\ rowStatus' \in [Calls -> {"none", "pending", "answered", "timeout"}]
      /\ \A q \in Calls : q # r => rowStatus'[q] = rowStatus[q] /\ rowAnswer'[q] = rowAnswer[q]
      /\ rowStatus[r] # "pending" => rowStatus' = rowStatus /\ rowAnswer' = rowAnswer
      /\ rowStatus[r] = "pending" => rowStatus'[r] = "answered" /\ rowAnswer'[r] = h
  <2>1. CASE rowStatus[r] = "pending"
    BY <2>1 DEF Answer, MarkAnswered, IInv, HitlTypeOK
  <2>2. CASE rowStatus[r] # "pending"
    BY <2>2 DEF Answer, MarkAnswered, IInv, HitlTypeOK
  <2> QED
    BY <2>1, <2>2
<1>3. HitlTypeOK'
  BY <1>2 DEF Answer, IInv, HitlTypeOK, callVars
<1>4. RowStage' /\ CallStage'
  BY <1>2 DEF Answer, IInv, HitlTypeOK, RowStage, CallStage, callVars
<1>5. \A q \in Calls : Ends(q)' = Ends(q)
  BY DEF Answer, Ends
<1>6. rowStatus[r] = "pending" => Ends(r) = {}
  BY DEF IInv, TrailStage, Ends
<1>7. TrailStage'
  BY <1>2, <1>5, <1>6 DEF IInv, TrailStage
<1>8. HumanStage'
  <2>1. CASE rowStatus[r] = "pending"
    <3>1. /\ told' = [told EXCEPT ![h] = "ok"] /\ humanPc' = [humanPc EXCEPT ![h] = next]
          /\ humanRow' = [humanRow EXCEPT ![h] = r]
      BY <2>1 DEF Answer
    <3>2. rowAnswer[r] = Nobody
      BY <2>1 DEF IInv, RowStage, HitlTypeOK
    <3> QED
      BY <1>1, <1>2, <2>1, <3>1, <3>2 DEF IInv, HitlTypeOK, HumanStage
  <2>2. CASE rowStatus[r] # "pending"
    <3>1. /\ told' = [told EXCEPT ![h] = "already"] /\ humanPc' = [humanPc EXCEPT ![h] = "done"]
          /\ humanRow' = [humanRow EXCEPT ![h] = r]
      BY <2>2 DEF Answer
    <3> QED
      BY <1>1, <1>2, <2>2, <3>1 DEF IInv, HitlTypeOK, HumanStage
  <2> QED
    BY <2>1, <2>2
<1> QED
  BY <1>3, <1>4, <1>7, <1>8 DEF IInv

\* The channels, and the audits that follow.
LEMMA HumanHolds ==
    ASSUME IInv, NEW h \in Humans, NEW r \in Calls,
           \/ ClickCard(h, r) \/ TextFeedback(h, r) \/ AnswerStore(h, r) \/ AnswerCloud(h, r)
    PROVE  IInv'
<1>1. humanPc[h] = "new" /\ rowStatus[r] # "none"
  BY DEF ClickCard, TextFeedback, AnswerStore, AnswerCloud, IInv, RowStage
<1>2. CASE ClickCard(h, r) /\ ~HasOption(card[r])
  <2>1. /\ humanPc' = [humanPc EXCEPT ![h] = "done"] /\ told' = [told EXCEPT ![h] = "dropped"]
        /\ UNCHANGED <<rowVars, trail, callVars, humanRow>>
    BY <1>2 DEF ClickCard
  <2>2. HitlTypeOK'
    BY <2>1 DEF IInv, HitlTypeOK, rowVars, callVars
  <2>3. HumanStage'
    BY <1>1, <2>1 DEF IInv, HitlTypeOK, HumanStage, rowVars
  <2>4. RowStage' /\ CallStage' /\ TrailStage'
    BY <2>1 DEF IInv, RowStage, CallStage, TrailStage, Ends, rowVars, callVars
  <2> QED
    BY <2>2, <2>3, <2>4 DEF IInv
<1>3. CASE ClickCard(h, r) /\ HasOption(card[r])
  BY <1>1, <1>3, AnswerHolds DEF ClickCard, CardAction
<1>4. CASE TextFeedback(h, r)
  BY <1>1, <1>4, AnswerHolds DEF TextFeedback
<1>5. CASE AnswerStore(h, r)
  BY <1>1, <1>5, AnswerHolds DEF AnswerStore
<1>6. CASE AnswerCloud(h, r)
  BY <1>1, <1>6, AnswerHolds DEF AnswerCloud
<1> QED
  BY <1>2, <1>3, <1>4, <1>5, <1>6

LEMMA AuditHolds == ASSUME IInv, NEW h \in Humans, AuditAnswer(h) PROVE IInv'
<1>1. PICK r \in Calls : /\ humanPc[h] \in {"clicked", "posted", "audited"} /\ told[h] = "ok"
                        /\ r = humanRow[h] /\ rowAnswer[r] = h /\ rowStatus[r] = "answered"
  BY CallsAssumption DEF AuditAnswer, IInv, HumanStage, RowStage
<1>2. /\ humanPc' \in [Humans -> {"new", "clicked", "posted", "audited", "done"}]
      /\ humanPc'[h] \in {"audited", "done"}
      /\ \A g \in Humans : g # h => humanPc'[g] = humanPc[g]
      /\ UNCHANGED <<rowVars, callVars, humanRow, told>>
  BY DEF AuditAnswer, IInv, HitlTypeOK
<1>3. PICK e \in {"answered", "cloud_answered"} : Noted(r, e, h)
  BY <1>1 DEF AuditAnswer
<1>4. HitlTypeOK'
  BY <1>1, <1>2, <1>3 DEF Noted, Audits, IInv, HitlTypeOK, rowVars, callVars
<1>5. RowStage' /\ CallStage' /\ HumanStage'
  BY <1>1, <1>2 DEF IInv, RowStage, CallStage, HumanStage, rowVars, callVars
<1>6. /\ \A q \in Calls : q # r => Ends(q)' = Ends(q)
      /\ Ends(r)' = Ends(r) \/ Ends(r)' = Ends(r) \cup {<<"answered", h>>}
  BY <1>1, <1>3, NotedEvent DEF IInv
<1>7. \A f \in Ends(r) : f = <<"answered", h>>
  BY <1>1 DEF IInv, TrailStage, Ends, HitlTypeOK
<1>8. TrailStage'
  BY <1>1, <1>2, <1>6, <1>7 DEF IInv, TrailStage, rowVars
<1> QED
  BY <1>4, <1>5, <1>8 DEF IInv

-----------------------------------------------------------------------------
LEMMA StepHolds == IInv /\ [HitlNext]_hitlVars => IInv'
BY StutterHolds, SubmitHolds, WaitHolds, HumanHolds, AuditHolds DEF HitlNext

LEMMA Invariance == HitlSpec => []IInv
BY InitHolds, StepHolds, PTL DEF HitlSpec

-----------------------------------------------------------------------------
(* What the invariant says *)

\* Every variable keeps its type: the rows, the calls and the humans are where the code
\* of the endpoints and of the tool can have brought them.
THEOREM HitlTypeCorrect == HitlSpec => []HitlTypeOK
BY Invariance, PTL DEF IInv

\* One human is told that the answer counts, the one whom the row names and every caller
\* is given, however many humans answer by whatever channels (hitl/sync.py,
\* mark_answered).
THEOREM FirstAnswerWins == HitlSpec => []OneWinner
<1>1. IInv => OneWinner
  <2> SUFFICES ASSUME IInv, NEW r \in Calls
               PROVE  LET winners == {h \in Humans : humanRow[h] = r /\ told[h] = "ok"}
                      IN  /\ winners = {rowAnswer[r]} \ {Nobody}
                          /\ rowStatus[r] = "answered" <=> winners # {}
                          /\ \A c \in Calls : callRow[c] = r /\ verdict[c] = "answered" =>
                                 heard[c] \in winners
    BY DEF OneWinner
  <2> DEFINE winners == {h \in Humans : humanRow[h] = r /\ told[h] = "ok"}
  <2>1. rowAnswer[r] \in Humans \cup {Nobody}
    BY DEF IInv, HitlTypeOK
  <2>2. \A h \in Humans : h \in winners <=> rowAnswer[r] = h
    BY DEF IInv, HumanStage
  <2>3. winners = {rowAnswer[r]} \ {Nobody}
    BY <2>1, <2>2, CallsAssumption
  <2>4. rowStatus[r] = "answered" <=> winners # {}
    BY <2>1, <2>3 DEF IInv, RowStage
  <2>5. ASSUME NEW c \in Calls, callRow[c] = r, verdict[c] = "answered"
        PROVE  heard[c] \in winners
    BY <2>1, <2>3, <2>5 DEF IInv, CallStage, RowStage
  <2> QED
    BY <2>3, <2>4, <2>5
<1> QED
  BY <1>1, Invariance, PTL

\* The trail of a request tells at most one end, and the one that the row has, even if an
\* answer arrives just when a waiter times the request out (cloud_bridge.py, _audit).
THEOREM TrailIsRight == HitlSpec => []TrailTellsTheEnd
<1>1. IInv => TrailTellsTheEnd
  <2> SUFFICES ASSUME IInv, NEW r \in Calls
               PROVE  /\ Cardinality(Ends(r)) <= 1
                      /\ \A e \in Ends(r) : e[1] = rowStatus[r]
    BY DEF TrailTellsTheEnd
  <2>1. CASE Ends(r) = {}
    BY <2>1, FS_EmptySet
  <2>2. CASE Ends(r) # {}
    <3>1. PICK e \in Ends(r) : Ends(r) = {e}
      BY <2>2 DEF IInv, TrailStage
    <3>2. Cardinality(Ends(r)) = 1
      BY <3>1, FS_Singleton
    <3> QED
      BY <3>2 DEF IInv, TrailStage
  <2> QED
    BY <2>1, <2>2
<1> QED
  BY <1>1, Invariance, PTL

-----------------------------------------------------------------------------
(* The refinement *)

\* Outcomes, questions and replies are functions of the rows and the calls.
LEMMA SameOutcome == UNCHANGED <<rowStatus, rowAnswer>> => Outcome' = Outcome
BY DEF Outcome

LEMMA SameAbout == UNCHANGED <<callPc, callRow>> => About' = About
BY DEF About

LEMMA SameReply == UNCHANGED <<verdict, heard>> => Reply' = Reply
BY DEF Reply

LEMMA InitRefines == HitlInit => Contract!ContractInit
BY DEF HitlInit, Contract!ContractInit, Outcome, About, Reply

LEMMA SubmitRefines ==
    ASSUME IInv, NEW c \in Calls, Submit(c)
    PROVE  [Contract!ContractNext]_(Contract!contractVars)
<1> USE CallsAssumption
<1>1. Reply' = Reply /\ told' = told
  BY DEF Submit, Lookup, CreateRow, PersistMetadata, SendCard, RequestMade, Reply, humanVars
<1>2. CASE Lookup(c)
  <2>1. Outcome' = Outcome
    BY <1>2, SameOutcome DEF Lookup, rowVars
  <2>2. CASE {r \in Calls : Joinable(r)} = {}
    <3>1. About' = About
      BY <1>2, <2>2 DEF Lookup, Step, IInv, HitlTypeOK, About
    <3> QED
      BY <1>1, <2>1, <3>1 DEF Contract!contractVars
  <2>3. CASE {r \in Calls : Joinable(r)} # {}
    <3>1. PICK r \in Calls : /\ Joinable(r) /\ callPc[c] = "new"
                             /\ callPc' = [callPc EXCEPT ![c] = "joined"]
                             /\ callRow' = [callRow EXCEPT ![c] = r]
      BY <1>2, <2>3 DEF Lookup, Step
    <3>2. About[c] = Nobody /\ About' = [About EXCEPT ![c] = r]
      BY <3>1 DEF IInv, HitlTypeOK, About
    <3>3. Outcome[r] \in Humans \cup {"open"}
      BY <3>1 DEF Joinable, Outcome, IInv, HitlTypeOK, RowStage
    <3>4. Contract!Share(c, r)
      BY <1>1, <2>1, <3>2, <3>3 DEF Contract!Share
    <3> QED
      BY <3>4 DEF Contract!ContractNext
  <2> QED
    BY <2>2, <2>3
<1>3. CASE CreateRow(c)
  <2>1. callPc[c] = "missed" /\ callRow[c] = c /\ rowStatus[c] = "none"
    BY <1>3 DEF CreateRow, Step, IInv, HitlTypeOK, CallStage, RowStage
  <2>2. About[c] = Nobody /\ About' = [About EXCEPT ![c] = c]
    BY <1>3, <2>1, ZenonT(60) DEF CreateRow, Step, IInv, HitlTypeOK, About
  <2>3. Outcome[c] = "unasked" /\ Outcome' = [Outcome EXCEPT ![c] = "open"]
    BY <1>3, <2>1, ZenonT(60) DEF CreateRow, IInv, HitlTypeOK, Outcome
  <2>4. Contract!Ask(c)
    BY <1>1, <2>2, <2>3 DEF Contract!Ask
  <2> QED
    BY <2>4 DEF Contract!ContractNext
<1>4. CASE PersistMetadata(c) \/ SendCard(c) \/ RequestMade(c)
  <2>1. Outcome' = Outcome
    BY <1>4, SameOutcome DEF PersistMetadata, SendCard, RequestMade, rowVars
  <2>2. About' = About
    BY <1>4 DEF PersistMetadata, SendCard, RequestMade, Step, IInv, HitlTypeOK, About
  <2> QED
    BY <1>1, <2>1, <2>2 DEF Contract!contractVars
<1> QED
  BY <1>2, <1>3, <1>4 DEF Submit

LEMMA WaitRefines ==
    ASSUME IInv, NEW c \in Calls, Wait(c) \/ ToolGivesUp(c) \/ Deadline(c)
    PROVE  [Contract!ContractNext]_(Contract!contractVars)
<1> USE CallsAssumption
<1>1. told' = told
  BY DEF Wait, PollRow, MarkTimeout, WaitReply, ToolGivesUp, Deadline, humanVars
<1>2. About' = About
  BY DEF Wait, PollRow, MarkTimeout, WaitReply, ToolGivesUp, Deadline, Return, Step, IInv,
         HitlTypeOK, About, callVars
<1>3. ASSUME NEW v, NEW h, NEW from \in {"waiting", "slice_over"}, Return(c, from, v, h),
             UNCHANGED rowVars,
             \/ v = "gave_up"
             \/ v = "timeout" /\ rowStatus[callRow[c]] # "pending"
             \/ v = "answered" /\ rowStatus[callRow[c]] = "answered" /\ h = rowAnswer[callRow[c]]
      PROVE  Contract!ContractNext
  <2>1. PICK r \in Calls : r = callRow[c] /\ rowStatus[r] # "none" /\ About[c] = r
    BY <1>3 DEF Return, Step, IInv, CallStage, About
  <2>2. Outcome' = Outcome
    BY <1>3, SameOutcome DEF rowVars
  <2>3. Reply[c] = "none"
    BY <1>3 DEF Return, Step, IInv, HitlTypeOK, CallStage, Reply
  <2>4. Reply' = [Reply EXCEPT ![c] = IF v = "answered" THEN h ELSE v]
    BY <1>3 DEF Return, IInv, HitlTypeOK, Reply
  <2>5. /\ rowStatus[r] = "answered" => Outcome[r] = rowAnswer[r] /\ rowAnswer[r] \in Humans
        /\ rowStatus[r] = "timeout" => Outcome[r] = "expired"
    BY DEF Outcome, IInv, HitlTypeOK, RowStage
  <2>6. rowStatus[r] # "pending" => Contract!Decided(r)
    <3>1. rowStatus[r] \in {"pending", "timeout", "answered"}
      BY <2>1 DEF IInv, HitlTypeOK
    <3> QED
      BY <2>5, <3>1 DEF Contract!Decided
  <2>7. Contract!Report(c)
    <3>1. About[c] # Nobody
      BY <2>1
    <3>2. CASE v = "answered"
      <4>1. Outcome[About[c]] \in Humans /\ Reply' = [Reply EXCEPT ![c] = Outcome[About[c]]]
        BY <1>3, <2>1, <2>4, <2>5, <3>2
      <4> QED
        BY <1>1, <1>2, <2>2, <2>3, <3>1, <4>1 DEF Contract!Report
    <3>3. CASE v # "answered"
      <4>1. Reply' = [Reply EXCEPT ![c] = v]
        BY <2>4, <3>3
      <4>2. v = "gave_up" \/ (v = "timeout" /\ Contract!Decided(About[c]))
        BY <1>3, <2>1, <2>6, <3>3 DEF Contract!Decided
      <4> QED
        BY <1>1, <1>2, <2>2, <2>3, <3>1, <4>1, <4>2 DEF Contract!Report
    <3> QED
      BY <3>2, <3>3
  <2> QED
    BY <2>7 DEF Contract!ContractNext
<1>4. CASE UNCHANGED <<rowStatus, rowAnswer, verdict, heard>>
  BY <1>1, <1>2, <1>4, SameOutcome, SameReply DEF Contract!contractVars
<1>5. CASE PollRow(c)
  <2>1. CASE rowStatus[callRow[c]] = "answered"
    BY <1>3, <1>5, <2>1 DEF PollRow
  <2>2. CASE rowStatus[callRow[c]] # "answered"
    BY <1>4, <1>5, <2>2 DEF PollRow, rowVars
  <2> QED
    BY <2>1, <2>2
<1>6. CASE MarkTimeout(c)
  <2>1. PICK r \in Calls : r = callRow[c]
    BY <1>6 DEF MarkTimeout, Step, IInv, CallStage
  <2>2. CASE rowStatus[r] = "pending"
    <3>1. Outcome[r] = "open" /\ Outcome' = [Outcome EXCEPT ![r] = "expired"]
      <4>1. rowStatus' = [rowStatus EXCEPT ![r] = "timeout"] /\ rowAnswer' = rowAnswer
        BY <1>6, <2>1, <2>2 DEF MarkTimeout
      <4> QED
        BY <2>2, <4>1, ZenonT(60) DEF IInv, HitlTypeOK, Outcome
    <3>2. Reply' = Reply
      BY <1>6, SameReply DEF MarkTimeout
    <3>3. Contract!Expire(r)
      BY <1>1, <1>2, <3>1, <3>2 DEF Contract!Expire
    <3> QED
      BY <3>3 DEF Contract!ContractNext
  <2>3. CASE rowStatus[r] # "pending"
    BY <1>4, <1>6, <2>1, <2>3 DEF MarkTimeout
  <2> QED
    BY <2>2, <2>3
<1>7. CASE WaitReply(c)
  <2>1. CASE rowStatus[callRow[c]] = "pending"
    BY <1>4, <1>7, <2>1 DEF WaitReply, rowVars
  <2>2. CASE rowStatus[callRow[c]] # "pending"
    BY <1>3, <1>7, <2>2 DEF WaitReply
  <2> QED
    BY <2>1, <2>2
<1>8. CASE ToolGivesUp(c)
  BY <1>3, <1>8 DEF ToolGivesUp
<1>9. CASE Deadline(c)
  BY <1>4, <1>9 DEF Deadline, callVars
<1> QED
  BY <1>5, <1>6, <1>7, <1>8, <1>9 DEF Wait

LEMMA HumanRefines ==
    ASSUME IInv, NEW h \in Humans, NEW r \in Calls,
           \/ ClickCard(h, r) \/ TextFeedback(h, r) \/ AnswerStore(h, r) \/ AnswerCloud(h, r)
    PROVE  Contract!ContractNext
<1>1. told[h] = "none" /\ rowStatus[r] # "none"
  BY DEF ClickCard, TextFeedback, AnswerStore, AnswerCloud, IInv, RowStage, HumanStage
<1>2. UNCHANGED callVars
  BY DEF ClickCard, TextFeedback, AnswerStore, AnswerCloud, CardAction, Answer
<1>3. About' = About /\ Reply' = Reply
  BY <1>2, SameAbout, SameReply DEF callVars
<1>4. CASE ClickCard(h, r) /\ ~HasOption(card[r])
  <2>1. Outcome' = Outcome
    BY <1>4, SameOutcome DEF ClickCard, rowVars
  <2>2. Contract!GetLost(h)
    BY <1>1, <1>3, <1>4, <2>1 DEF ClickCard, Contract!GetLost
  <2> QED
    BY <2>2 DEF Contract!ContractNext
<1>5. CASE \E next : Answer(h, r, next)
  <2>1. CASE rowStatus[r] = "pending"
    <3>1. Outcome[r] = "open" /\ Outcome' = [Outcome EXCEPT ![r] = h]
      <4>1. /\ rowStatus' = [rowStatus EXCEPT ![r] = "answered"]
            /\ rowAnswer' = [rowAnswer EXCEPT ![r] = h]
        BY <1>5, <2>1 DEF Answer, MarkAnswered
      <4> QED
        BY <2>1, <4>1 DEF IInv, HitlTypeOK, Outcome
    <3>2. Contract!Decide(h, r)
      BY <1>1, <1>3, <1>5, <2>1, <3>1 DEF Answer, Contract!Decide
    <3> QED
      BY <3>2 DEF Contract!ContractNext
  <2>2. CASE rowStatus[r] # "pending"
    <3>1. Outcome' = Outcome
      BY <1>5, <2>2, SameOutcome DEF Answer, MarkAnswered
    <3>2. Contract!Decided(r)
      BY <1>1, <2>2 DEF Contract!Decided, Outcome, IInv, HitlTypeOK, RowStage
    <3>3. Contract!ComeLate(h, r)
      BY <1>1, <1>3, <1>5, <2>2, <3>1, <3>2 DEF Answer, Contract!ComeLate
    <3> QED
      BY <3>3 DEF Contract!ContractNext
  <2> QED
    BY <2>1, <2>2
<1> QED
  BY <1>4, <1>5 DEF ClickCard, TextFeedback, AnswerStore, AnswerCloud, CardAction

LEMMA AuditRefines ==
    ASSUME NEW h \in Humans, AuditAnswer(h) \/ UNCHANGED hitlVars
    PROVE  UNCHANGED Contract!contractVars
BY SameOutcome, SameAbout, SameReply
   DEF AuditAnswer, Contract!contractVars, hitlVars, rowVars, callVars, humanVars

\* The rows, the channels and the waits in slices implement a question that is decided
\* once, by the first answer or by its deadline, and whose callers report nothing else.
THEOREM ImplementsContract == HitlSpec => KeepsContract
<1>1. UNCHANGED hitlVars => UNCHANGED Contract!contractVars
  BY SameOutcome, SameAbout, SameReply
     DEF Contract!contractVars, hitlVars, rowVars, callVars, humanVars
<1>2. IInv /\ [HitlNext]_hitlVars => [Contract!ContractNext]_(Contract!contractVars)
  BY <1>1, SubmitRefines, WaitRefines, HumanRefines, AuditRefines DEF HitlNext
<1> QED
  BY <1>2, Invariance, InitRefines, PTL DEF HitlSpec, KeepsContract, Contract!ContractSpec
=============================================================================
