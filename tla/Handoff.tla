------------------------------ MODULE Handoff ------------------------------
(* The handoff envelope of a dispatch: the file <handoff_id>.md from which    *)
(* the child process, popola handoff and popola dispatch --replay read what   *)
(* they are to do.  dispatch_with_envelope writes it in a worker thread to    *)
(* the sibling <handoff_id>.md.tmp and renames it.  The id is a hash of CLI,  *)
(* prompt and flags, but not of the working directory or the time, so         *)
(* different dispatches share both names: all dispatches here have one id.    *)
(* A file is named after the dispatch that created it, a whole text after     *)
(* the dispatch whose working directory it holds.                             *)
EXTENDS Naturals

CONSTANTS
    \* @type: Set(DISPATCH); dispatches with the same CLI, prompt and flags
    Envelopes,
    \* what a name that no file bears refers to
    NoFile

ASSUME EnvelopesAssumption ==
    /\ NoFile \notin Envelopes
    /\ Envelopes \cap {"part", "mixed"} = {}

VARIABLES
    stage,     \* stage[d]: how far dispatch d is: "idle", "open", "written", "done", "raised" or "killed"
    inode,     \* inode[d]: the file that the descriptor of d refers to
    text,      \* text[f]: what file f holds: a whole text, part of one, or parts of two
    payload,   \* payload[d]: whose working directory the envelope of d names
    tmp,       \* the file with the name <handoff_id>.md.tmp
    target,    \* the file with the name <handoff_id>.md
    snapshot,  \* the copy in the archive, and the file it is being copied from
    apart      \* no two dispatches have yet been in write_envelope at a time

handoffVars == <<stage, inode, text, payload, tmp, target, snapshot, apart>>

Stages == {"idle", "open", "written", "done", "raised", "killed"}
Texts == Envelopes \cup {"part", "mixed"}

HandoffInit ==
    /\ stage = [d \in Envelopes |-> "idle"]
    /\ inode = [d \in Envelopes |-> NoFile]
    /\ text = [f \in Envelopes |-> "part"]
    /\ payload = [d \in Envelopes |-> d]
    /\ tmp = NoFile /\ target = NoFile
    /\ snapshot = [from |-> NoFile, text |-> "none"]
    /\ apart = TRUE

Inside(d) == stage[d] \in {"open", "written"}

\* A dispatch enters write_envelope: is it the only one there?
Enters(d) == apart' = (apart /\ \A e \in Envelopes : ~Inside(e))

Becomes(d, s) == stage' = [stage EXCEPT ![d] = s]

----------------------------------------------------------------------------
(* write_envelope, in a thread of the daemon.                                 *)

\* Variant: open(tmp, "a"), so that what a killed daemon has left stays.
OpenTmp_Appends(d) ==
    /\ stage[d] = "idle"
    /\ tmp' = IF tmp = NoFile THEN d ELSE tmp
    /\ inode' = [inode EXCEPT ![d] = tmp']
    /\ text' = IF tmp = NoFile THEN [text EXCEPT ![d] = "part"] ELSE text
    /\ Becomes(d, "open") /\ Enters(d)
    /\ UNCHANGED <<payload, target, snapshot>>

\* open(tmp, "w"): creates the file, or truncates one that has the name.
OpenTmp(d) ==
    /\ stage[d] = "idle"
    /\ tmp' = IF tmp = NoFile THEN d ELSE tmp
    /\ inode' = [inode EXCEPT ![d] = tmp']
    /\ text' = [text EXCEPT ![tmp'] = "part"]
    /\ Becomes(d, "open") /\ Enters(d)
    /\ UNCHANGED <<payload, target, snapshot>>

\* Part of the payload over the text that another descriptor has written.
WritePart(d) ==
    /\ stage[d] = "open" /\ text[inode[d]] # "part"
    /\ text' = [text EXCEPT ![inode[d]] = "mixed"]
    /\ UNCHANGED <<stage, inode, payload, tmp, target, snapshot, apart>>

\* The whole payload, from the start of the file; a longer text keeps its end.
WriteTmp(d) ==
    /\ stage[d] = "open"
    /\ \E t \in IF text[inode[d]] = "part" THEN {payload[d]} ELSE {payload[d], "mixed"} :
           text' = [text EXCEPT ![inode[d]] = t]
    /\ Becomes(d, "written")
    /\ UNCHANGED <<inode, payload, tmp, target, snapshot, apart>>

\* Variant: the rename stands outside the try block, and a text that was cut off is renamed too.
Rename_Always(d) ==
    /\ Inside(d) /\ tmp # NoFile
    /\ target' = tmp /\ tmp' = NoFile
    /\ Becomes(d, "done")
    /\ UNCHANGED <<inode, text, payload, snapshot, apart>>

\* os.replace: the name of the target goes to whatever file is called tmp.
Rename(d) ==
    /\ stage[d] = "written" /\ tmp # NoFile
    /\ target' = tmp /\ tmp' = NoFile
    /\ Becomes(d, "done")
    /\ UNCHANGED <<inode, text, payload, snapshot, apart>>

\* FileNotFoundError: another dispatch has renamed or removed the file.
RenameMisses(d) ==
    /\ stage[d] = "written" /\ tmp = NoFile
    /\ Becomes(d, "raised")
    /\ UNCHANGED <<inode, text, payload, tmp, target, snapshot, apart>>

\* Any step fails: the file called tmp is removed, if that succeeds.
WriteFails(d) ==
    /\ stage[d] \in {"idle", "open", "written"}
    /\ Becomes(d, "raised")
    /\ tmp' \in {tmp, NoFile}
    /\ IF Inside(d) THEN UNCHANGED apart ELSE Enters(d)
    /\ UNCHANGED <<inode, text, payload, target, snapshot>>

\* The daemon dies; the next one finds the files as they are.
DaemonDies ==
    /\ \E d \in Envelopes : Inside(d)
    /\ stage' = [d \in Envelopes |-> IF Inside(d) THEN "killed" ELSE stage[d]]
    /\ UNCHANGED <<inode, text, payload, tmp, target, snapshot, apart>>

----------------------------------------------------------------------------
(* Readers.                                                                   *)

\* load_envelope: the file is there, and its text parses.
Loads == target # NoFile /\ text[target] \in Envelopes

\* dispatch --replay takes its parameters from the envelope it finds.
Replay(d) ==
    /\ stage[d] = "idle" /\ Loads
    /\ payload' = [payload EXCEPT ![d] = text[target]]
    /\ UNCHANGED <<stage, inode, text, tmp, target, snapshot, apart>>

\* handoff archive: copy2 truncates the copy of an earlier archive, ...
ArchiveOpens ==
    /\ target # NoFile /\ snapshot.from = NoFile
    /\ snapshot' = [from |-> target, text |-> "part"]
    /\ UNCHANGED <<stage, inode, text, payload, tmp, target, apart>>

\* ... and copies the file that it has opened, ...
ArchiveCopies ==
    /\ snapshot.from # NoFile
    /\ snapshot' = [from |-> NoFile, text |-> text[snapshot.from]]
    /\ UNCHANGED <<stage, inode, text, payload, tmp, target, apart>>

\* ... unless the disk is full or the command is interrupted.
ArchiveFails ==
    /\ snapshot.from # NoFile
    /\ snapshot' = [snapshot EXCEPT !.from = NoFile]
    /\ UNCHANGED <<stage, inode, text, payload, tmp, target, apart>>

HandoffNext ==
    \/ \E d \in Envelopes :
           \/ OpenTmp(d) \/ WritePart(d) \/ WriteTmp(d) \/ Rename(d)
           \/ RenameMisses(d) \/ WriteFails(d) \/ Replay(d)
    \/ DaemonDies \/ ArchiveOpens \/ ArchiveCopies \/ ArchiveFails

HandoffSpec == HandoffInit /\ [][HandoffNext]_handoffVars

----------------------------------------------------------------------------
(* Properties.                                                                *)

\* Every variable keeps its type.
HandoffTypeOK ==
    /\ stage \in [Envelopes -> Stages]
    /\ inode \in [Envelopes -> Envelopes \cup {NoFile}]
    /\ text \in [Envelopes -> Texts]
    /\ payload \in [Envelopes -> Envelopes]
    /\ tmp \in Envelopes \cup {NoFile} /\ target \in Envelopes \cup {NoFile}
    /\ snapshot \in [from : Envelopes \cup {NoFile}, text : Texts \cup {"none"}]
    /\ apart \in BOOLEAN

\* As long as no two dispatches of one id have been in write_envelope at the
\* same time, whoever reads the envelope gets the whole text of a dispatch
\* whose write succeeded, whatever writes have failed and wherever the daemon
\* has died.
UndisturbedEnvelopeIsWhole ==
    apart /\ target # NoFile =>
        \E d \in Envelopes : stage[d] = "done" /\ text[target] = payload[d]

\* writer.py says that readers never observe a half-written envelope.  Two
\* dispatches of one id share the .tmp file: one renames what the other has
\* just truncated.
ReadersSeeNoPart == target # NoFile => text[target] \in Envelopes

\* dispatch_with_envelope calls the file the single source of truth of its
\* dispatch.  A later dispatch of the same prompt in another directory has
\* replaced it, or the writer that lost the .tmp file was told of a failure.
EnvelopeIsOfTheDispatch == \A d \in Envelopes : stage[d] = "done" => text[target] = payload[d]

\* handoff_cmd.py calls archiving again a safe overwrite.  It truncates the copy
\* first, and a failure leaves it so.
SnapshotStays == [][snapshot.text \in Envelopes => snapshot'.text \in Envelopes]_handoffVars

=============================================================================
