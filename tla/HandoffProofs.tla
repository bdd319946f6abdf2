--------------------------- MODULE HandoffProofs ---------------------------
(* Proofs about Handoff, for any set of dispatches of one id.  The inductive  *)
(* invariant: a file that is to be created is not in use, and, as long as the *)
(* dispatches keep apart, the one inside write_envelope holds the file called *)
(* .tmp, and that is never the file readers see.                              *)
EXTENDS Handoff, TLAPS

\* The name of a dispatch that has not begun is the name of no file.
Fresh == \A d \in Envelopes : stage[d] = "idle" => tmp # d /\ target # d

\* The only dispatch inside write_envelope, and the file it writes.
OneInside == apart => \A d, e \in Envelopes : Inside(d) /\ Inside(e) => d = e

OwnFile ==
    apart => \A d \in Envelopes : Inside(d) =>
        /\ tmp # NoFile /\ inode[d] = tmp
        /\ stage[d] = "open" => text[tmp] = "part"
        /\ stage[d] = "written" => text[tmp] = payload[d]

Separate == target # NoFile => target # tmp

HandoffInv ==
    /\ HandoffTypeOK /\ Fresh /\ OneInside /\ OwnFile /\ Separate
    /\ UndisturbedEnvelopeIsWhole

----------------------------------------------------------------------------
LEMMA InitHolds == HandoffInit => HandoffInv
  BY EnvelopesAssumption
  DEF HandoffInit, HandoffInv, HandoffTypeOK, Stages, Texts, Fresh, OneInside, OwnFile,
      Separate, UndisturbedEnvelopeIsWhole, Inside

LEMMA OpenTmpKeeps ==
    ASSUME HandoffInv, NEW d \in Envelopes, OpenTmp(d) PROVE HandoffInv'
PROOF
<1> USE EnvelopesAssumption DEF HandoffInv, OpenTmp, Becomes, Enters, Stages, Texts, Inside
<1>1. tmp' \in Envelopes /\ tmp' # target
  BY DEF HandoffTypeOK, Fresh, Separate
<1>2. HandoffTypeOK'
  BY <1>1 DEF HandoffTypeOK
<1>3. Fresh' /\ Separate'
  BY <1>1 DEF HandoffTypeOK, Fresh, Separate
<1>4. OneInside' /\ OwnFile'
  BY <1>1 DEF HandoffTypeOK, OneInside, OwnFile
<1>5. UndisturbedEnvelopeIsWhole'
  <2> SUFFICES ASSUME apart', target' # NoFile
               PROVE  \E e \in Envelopes : stage'[e] = "done" /\ text'[target'] = payload'[e]
    BY DEF UndisturbedEnvelopeIsWhole
  <2>1. PICK e \in Envelopes : stage[e] = "done" /\ text[target] = payload[e]
    BY DEF UndisturbedEnvelopeIsWhole
  <2>2. e # d /\ stage'[e] = "done" /\ text'[target] = text[target]
    BY <1>1, <2>1 DEF HandoffTypeOK
  <2> QED
    BY <2>1, <2>2
<1> QED
  BY <1>2, <1>3, <1>4, <1>5

LEMMA WriteKeeps ==
    ASSUME HandoffInv, NEW d \in Envelopes, WritePart(d) \/ WriteTmp(d) PROVE HandoffInv'
PROOF
<1> USE EnvelopesAssumption DEF HandoffInv, Becomes, Stages, Texts, Inside
<1>1. PICK t \in Texts : text' = [text EXCEPT ![inode[d]] = t]
  BY DEF HandoffTypeOK, WritePart, WriteTmp
<1>2. HandoffTypeOK'
  BY <1>1, ZenonT(60) DEF HandoffTypeOK, WritePart, WriteTmp
<1>3. Fresh' /\ Separate' /\ OneInside'
  BY DEF HandoffTypeOK, Fresh, Separate, OneInside, WritePart, WriteTmp
<1>4. apart => /\ WriteTmp(d) /\ inode[d] = tmp /\ tmp \in Envelopes
               /\ text' = [text EXCEPT ![tmp] = payload[d]]
  BY DEF HandoffTypeOK, OwnFile, WritePart, WriteTmp
<1>5. OwnFile'
  <2> SUFFICES ASSUME apart', NEW e \in Envelopes, Inside(e)'
               PROVE  /\ tmp' # NoFile /\ inode'[e] = tmp'
                      /\ stage'[e] = "open" => text'[tmp'] = "part"
                      /\ stage'[e] = "written" => text'[tmp'] = payload'[e]
    BY DEF OwnFile
  <2>1. apart /\ WriteTmp(d)
    BY <1>4 DEF WritePart, WriteTmp
  <2>2. Inside(e) /\ Inside(d)
    BY <2>1 DEF HandoffTypeOK, WriteTmp
  <2>3. e = d /\ stage'[d] = "written" /\ tmp' = tmp /\ inode' = inode /\ payload' = payload
    BY <2>1, <2>2 DEF HandoffTypeOK, OneInside, WriteTmp
  <2> QED
    BY <1>4, <2>1, <2>3 DEF HandoffTypeOK, OwnFile
<1>6. UndisturbedEnvelopeIsWhole'
  <2> SUFFICES ASSUME apart', target' # NoFile
               PROVE  \E e \in Envelopes : stage'[e] = "done" /\ text'[target'] = payload'[e]
    BY DEF UndisturbedEnvelopeIsWhole
  <2>1. apart /\ target' = target /\ payload' = payload
    BY DEF WritePart, WriteTmp
  <2>2. PICK e \in Envelopes : stage[e] = "done" /\ text[target] = payload[e]
    BY <2>1 DEF UndisturbedEnvelopeIsWhole
  <2>3. stage'[e] = "done" /\ text'[target] = text[target]
    BY <1>4, <2>1, <2>2 DEF HandoffTypeOK, Separate, WriteTmp
  <2> QED
    BY <2>1, <2>2, <2>3
<1> QED
  BY <1>2, <1>3, <1>5, <1>6

LEMMA RenameKeeps ==
    ASSUME HandoffInv, NEW d \in Envelopes, Rename(d) PROVE HandoffInv'
PROOF
<1> USE EnvelopesAssumption DEF HandoffInv, Rename, Becomes, Stages, Texts, Inside
<1>1. HandoffTypeOK' /\ Fresh' /\ Separate'
  BY DEF HandoffTypeOK, Fresh, Separate
<1>2. OneInside' /\ OwnFile'
  BY DEF HandoffTypeOK, OneInside, OwnFile
<1>3. apart => stage'[d] = "done" /\ text'[target'] = payload'[d]
  BY DEF HandoffTypeOK, OwnFile
<1> QED
  BY <1>1, <1>2, <1>3 DEF UndisturbedEnvelopeIsWhole

LEMMA FailureKeeps ==
    ASSUME HandoffInv,
           DaemonDies \/ \E d \in Envelopes : RenameMisses(d) \/ WriteFails(d)
    PROVE  HandoffInv'
PROOF
<1> USE EnvelopesAssumption DEF HandoffInv, Becomes, Enters, Stages, Texts, Inside
<1>1. CASE DaemonDies
  <2>1. HandoffTypeOK' /\ Fresh' /\ Separate' /\ OneInside' /\ OwnFile'
    BY <1>1 DEF DaemonDies, HandoffTypeOK, Fresh, Separate, OneInside, OwnFile
  <2> QED
    BY <1>1, <2>1 DEF DaemonDies, HandoffTypeOK, UndisturbedEnvelopeIsWhole
<1>2. ASSUME NEW d \in Envelopes, RenameMisses(d) \/ WriteFails(d)
      PROVE  HandoffInv'
  <2>0. /\ stage' = [stage EXCEPT ![d] = "raised"] /\ tmp' \in {tmp, NoFile}
        /\ UNCHANGED <<inode, text, payload, target, snapshot>>
        /\ apart' \in BOOLEAN /\ (apart' => apart)
        /\ apart' => Inside(d) \/ \A e \in Envelopes : ~Inside(e)
    BY <1>2 DEF RenameMisses, WriteFails, HandoffTypeOK
  <2>1. HandoffTypeOK'
    BY <2>0 DEF HandoffTypeOK
  <2>2. Fresh' /\ Separate'
    BY <2>0 DEF HandoffTypeOK, Fresh, Separate
  <2>4. apart' => \A e \in Envelopes : ~Inside(e)'
    BY <2>0 DEF HandoffTypeOK, OneInside
  <2>5. OneInside' /\ OwnFile'
    BY <2>4 DEF OneInside, OwnFile
  <2>3. UndisturbedEnvelopeIsWhole'
    BY <1>2 DEF RenameMisses, WriteFails, HandoffTypeOK, UndisturbedEnvelopeIsWhole
  <2> QED
    BY <2>1, <2>2, <2>3, <2>5
<1> QED
  BY <1>1, <1>2

LEMMA ReadersKeep ==
    ASSUME HandoffInv,
           \/ \E d \in Envelopes : Replay(d)
           \/ ArchiveOpens \/ ArchiveCopies \/ ArchiveFails
           \/ UNCHANGED handoffVars
    PROVE  HandoffInv'
PROOF
<1> USE EnvelopesAssumption DEF HandoffInv, Stages, Texts, Inside
<1>1. ASSUME NEW d \in Envelopes, Replay(d) PROVE HandoffInv'
  <2>1. HandoffTypeOK' /\ Fresh' /\ Separate' /\ OneInside' /\ OwnFile'
    BY <1>1 DEF Replay, Loads, HandoffTypeOK, Fresh, Separate, OneInside, OwnFile
  <2>2. UndisturbedEnvelopeIsWhole'
    BY <1>1 DEF Replay, Loads, HandoffTypeOK, UndisturbedEnvelopeIsWhole
  <2> QED
    BY <2>1, <2>2
<1>2. CASE ArchiveOpens \/ ArchiveCopies \/ ArchiveFails \/ UNCHANGED handoffVars
  <2>1. UNCHANGED <<stage, inode, text, payload, tmp, target, apart>>
    BY <1>2 DEF ArchiveOpens, ArchiveCopies, ArchiveFails, handoffVars
  <2>2. HandoffTypeOK'
    BY <1>2, <2>1 DEF ArchiveOpens, ArchiveCopies, ArchiveFails, handoffVars, HandoffTypeOK
  <2> QED
    BY <2>1, <2>2 DEF Fresh, Separate, OneInside, OwnFile, UndisturbedEnvelopeIsWhole
<1> QED
  BY <1>1, <1>2

LEMMA StepHolds == HandoffInv /\ [HandoffNext]_handoffVars => HandoffInv'
PROOF
<1> SUFFICES ASSUME HandoffInv, [HandoffNext]_handoffVars PROVE HandoffInv'
  OBVIOUS
<1> QED
  BY OpenTmpKeeps, WriteKeeps, RenameKeeps, FailureKeeps, ReadersKeep DEF HandoffNext

\* Every variable keeps its type, for any number of dispatches.
THEOREM HandoffTypeCorrect == HandoffSpec => []HandoffTypeOK
PROOF
<1>1. HandoffInv => HandoffTypeOK
  BY DEF HandoffInv
<1> QED
  BY <1>1, InitHolds, StepHolds, PTL DEF HandoffSpec

\* Unless two dispatches of one id have overlapped in write_envelope, readers
\* get the whole text of a dispatch that succeeded, through failures of the
\* disk and deaths of the daemon.
THEOREM EnvelopeIsWhole == HandoffSpec => []UndisturbedEnvelopeIsWhole
PROOF
<1>1. HandoffInv => UndisturbedEnvelopeIsWhole
  BY DEF HandoffInv
<1> QED
  BY <1>1, InitHolds, StepHolds, PTL DEF HandoffSpec
=============================================================================
