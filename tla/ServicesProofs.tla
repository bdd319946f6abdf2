--------------------------- MODULE ServicesProofs ---------------------------
(* Theorems about the services of popolad, each for every value of its       *)
(* constants: the queue of busy agents (BusyQueue), the event log and its    *)
(* streams (EventLog), the pump of an attached cloud stream (CloudStream),   *)
(* the Lark listener (LarkListener), the graph primitives (Primitives) and   *)
(* the joint exploration of all services (MCServices).                       *)
EXTENDS MCServices, HandoffProofs, OutputProofs, TLAPS, SequenceTheorems, FiniteSetTheorems,
        WellFoundedInduction

-----------------------------------------------------------------------------
(* Sequences without repetition *)

Distinct(s) == \A i, j \in DOMAIN s : s[i] = s[j] => i = j

\* A new element at the end.
LEMMA AppendDistinct ==
    ASSUME NEW S, NEW s \in Seq(S), NEW e \in S, Distinct(s), e \notin Elems(s)
    PROVE  /\ Append(s, e) \in Seq(S) /\ Distinct(Append(s, e))
           /\ Elems(Append(s, e)) = Elems(s) \cup {e}
           /\ s # <<>> => Head(Append(s, e)) = Head(s)
<1>1. /\ Append(s, e) \in Seq(S)
      /\ Len(s) \in Nat /\ Len(Append(s, e)) = Len(s) + 1
      /\ DOMAIN s = 1..Len(s) /\ DOMAIN Append(s, e) = 1..(Len(s) + 1)
      /\ \A i \in 1..Len(s) : Append(s, e)[i] = s[i]
      /\ Append(s, e)[Len(s) + 1] = e
  BY AppendProperties, LenProperties
<1>2. Distinct(Append(s, e))
  BY <1>1 DEF Distinct, Elems
<1>3. Elems(Append(s, e)) = Elems(s) \cup {e}
  BY <1>1 DEF Elems
<1>4. s # <<>> => Head(Append(s, e)) = Head(s)
  BY <1>1
<1> QED BY <1>1, <1>2, <1>3, <1>4

\* Everything but the first element.
LEMMA TailDistinct ==
    ASSUME NEW S, NEW s \in Seq(S), s # <<>>, Distinct(s)
    PROVE  /\ Tail(s) \in Seq(S) /\ Distinct(Tail(s)) /\ Head(s) \in Elems(s)
           /\ Elems(Tail(s)) = Elems(s) \ {Head(s)}
<1>1. /\ Len(s) \in Nat /\ Len(s) >= 1 /\ Tail(s) \in Seq(S)
      /\ DOMAIN s = 1..Len(s) /\ DOMAIN Tail(s) = 1..(Len(s) - 1)
      /\ \A i \in 1..(Len(s) - 1) : Tail(s)[i] = s[i + 1]
      /\ Head(s) = s[1]
  BY HeadTailProperties, LenProperties, EmptySeq
<1>2. Distinct(Tail(s))
  BY <1>1 DEF Distinct
<1>3. Head(s) \in Elems(s)
  BY <1>1 DEF Elems
<1>4. Elems(Tail(s)) = Elems(s) \ {Head(s)}
  <2>1. ASSUME NEW i \in 1..(Len(s) - 1) PROVE Tail(s)[i] \in Elems(s) \ {Head(s)}
    BY <1>1, <2>1 DEF Elems, Distinct
  <2>2. ASSUME NEW i \in 1..Len(s), s[i] # Head(s) PROVE s[i] \in Elems(Tail(s))
    <3>1. i - 1 \in 1..(Len(s) - 1) /\ Tail(s)[i - 1] = s[i]
      BY <1>1, <2>2
    <3> QED BY <1>1, <3>1 DEF Elems
  <2> QED BY <1>1, <2>1, <2>2 DEF Elems
<1> QED BY <1>1, <1>2, <1>3, <1>4

\* Everything but the i-th element.
LEMMA WithoutDistinct ==
    ASSUME NEW S, NEW s \in Seq(S), NEW i \in DOMAIN s, Distinct(s)
    PROVE  /\ WithoutEntry(s, i) \in Seq(S) /\ Distinct(WithoutEntry(s, i))
           /\ Len(WithoutEntry(s, i)) = Len(s) - 1
           /\ \A j \in 1..(Len(s) - 1) :
                 WithoutEntry(s, i)[j] = IF j < i THEN s[j] ELSE s[j + 1]
           /\ Elems(WithoutEntry(s, i)) = Elems(s) \ {s[i]}
           /\ s[i] # Head(s) => /\ WithoutEntry(s, i) # <<>>
                                /\ Head(WithoutEntry(s, i)) = Head(s)
<1> DEFINE a == SubSeq(s, 1, i - 1)
           b == SubSeq(s, i + 1, Len(s))
           w == a \o b
<1>1. /\ Len(s) \in Nat /\ DOMAIN s = 1..Len(s) /\ i \in 1..Len(s)
      /\ \A j \in 1..Len(s) : s[j] \in S
  BY LenProperties, ElementOfSeq
<1>2. /\ a \in Seq(S) /\ Len(a) = i - 1
      /\ \A j \in 1..(i - 1) : a[j] = s[j]
  BY <1>1, SubSeqProperties
<1>3. /\ b \in Seq(S) /\ Len(b) = Len(s) - i
      /\ \A j \in 1..(Len(s) - i) : b[j] = s[i + j]
  BY <1>1, SubSeqProperties
<1>4. w \in Seq(S) /\ Len(w) = Len(s) - 1 /\ DOMAIN w = 1..(Len(s) - 1)
  <2>1. w \in Seq(S) /\ Len(w) = Len(a) + Len(b)
    BY <1>2, <1>3, ConcatProperties
  <2>2. DOMAIN w = 1..Len(w)
    BY <2>1, LenProperties
  <2> QED BY <1>1, <1>2, <1>3, <2>1, <2>2
<1>5. \A j \in 1..(Len(s) - 1) : w[j] = IF j < i THEN s[j] ELSE s[j + 1]
  <2>1. ASSUME NEW j \in 1..(Len(s) - 1), j < i PROVE w[j] = s[j]
    <3>1. j \in 1..Len(a)
      BY <1>1, <1>2, <2>1
    <3> QED BY <1>2, <1>3, <2>1, <3>1, ConcatProperties
  <2>2. ASSUME NEW j \in 1..(Len(s) - 1), ~(j < i) PROVE w[j] = s[j + 1]
    <3>1. /\ j \in (Len(a) + 1)..(Len(a) + Len(b)) /\ j - Len(a) \in 1..(Len(s) - i)
          /\ i + (j - Len(a)) = j + 1
      BY <1>1, <1>2, <1>3, <2>2, SMTT(60)
    <3>2. w[j] = b[j - Len(a)]
      BY <1>2, <1>3, <3>1, ConcatProperties, SMTT(60)
    <3> QED BY <1>3, <3>1, <3>2
  <2> QED BY <2>1, <2>2
<1>6. WithoutEntry(s, i) = w
  BY DEF WithoutEntry
<1> HIDE DEF w
<1>7. Distinct(w)
  <2>1. ASSUME NEW j \in 1..(Len(s) - 1), NEW k \in 1..(Len(s) - 1), j # k PROVE w[j] # w[k]
    BY <1>1, <1>5, <2>1 DEF Distinct
  <2> QED BY <1>4, <2>1 DEF Distinct
<1>8. Elems(w) = Elems(s) \ {s[i]}
  <2>1. ASSUME NEW j \in 1..(Len(s) - 1) PROVE w[j] \in Elems(s) \ {s[i]}
    BY <1>1, <1>5, <2>1 DEF Elems, Distinct
  <2>2. ASSUME NEW j \in 1..Len(s), s[j] # s[i] PROVE s[j] \in Elems(w)
    <3>1. CASE j < i
      <4>1. j \in 1..(Len(s) - 1) /\ w[j] = s[j]
        BY <1>1, <1>5, <3>1
      <4> QED BY <1>4, <4>1 DEF Elems
    <3>2. CASE j > i
      <4>1. j - 1 \in 1..(Len(s) - 1) /\ w[j - 1] = s[j]
        BY <1>1, <1>5, <3>2
      <4> QED BY <1>4, <4>1 DEF Elems
    <3> QED BY <1>1, <2>2, <3>1, <3>2
  <2> QED BY <1>1, <1>4, <2>1, <2>2 DEF Elems
<1>9. s[i] # Head(s) => w # <<>> /\ Head(w) = Head(s)
  <2>1. SUFFICES ASSUME s[i] # Head(s) PROVE w # <<>> /\ Head(w) = Head(s)
    OBVIOUS
  <2>2. i > 1 /\ Len(s) - 1 >= 1
    BY <1>1, <2>1
  <2>3. 1 \in 1..(Len(s) - 1) /\ w[1] = s[1]
    BY <1>1, <1>5, <2>2
  <2> QED BY <1>1, <1>4, <2>3
<1> QED BY <1>4, <1>5, <1>6, <1>7, <1>8, <1>9

-----------------------------------------------------------------------------
(* The queue of busy agents.  The invariant: an entry is queued at most once; *)
(* one that is queued, or popped by a tick, has no fate yet; a tick that has  *)
(* popped it is the only one that has.                                        *)

\* enqueue_dispatch has been called for d.
Entered(d) == epc[d] \in {"queued", "recorded"}

Held(d, k) == tpc[k] \in Holding /\ head[k] = d

\* What may have cost a run.
Spent == {d \in Dispatches : fate[d] \in {"dispatched", "failed"}}

QueueTypes ==
    /\ latest \in Nat \ {0} /\ active \in BOOLEAN
    /\ queue \in Seq(Dispatches)
    /\ epc \in [Dispatches -> {"new", "refused", "queued", "recorded"}]
    /\ current \in [Dispatches -> Nat]
    /\ \A d \in Dispatches : current[d] <= latest /\ (epc[d] = "new" <=> current[d] = 0)
    /\ expired \in [Dispatches -> BOOLEAN]
    /\ fate \in [Dispatches -> EntryFates]
    /\ busyLog \in [Dispatches -> Seq(BusyEvents)]
    /\ tpc \in [Drainers -> {"idle", "peeked", "expired", "ready", "issued"} \cup Holding]
    /\ head \in [Drainers -> Dispatches]

EntryInv(d) ==
    /\ d \in Elems(queue) => Entered(d) /\ fate[d] = "none"
    /\ fate[d] # "none" => Entered(d)
    /\ \A k \in Drainers : Held(d, k) => /\ Entered(d) /\ fate[d] = "none"
                                         /\ d \notin Elems(queue)
    /\ \A j, k \in Drainers : Held(d, j) /\ Held(d, k) => j = k
    /\ Entered(d) => \/ d \in Elems(queue)
                     \/ fate[d] # "none"
                     \/ \E k \in Drainers : Held(d, k)

QueueInv ==
    /\ QueueTypes
    /\ latest <= MaxRuns + Cardinality(Spent)
    /\ Distinct(queue)
    /\ \A d \in Dispatches : EntryInv(d)

\* pop_head takes the first entry of the queue, or finds it empty.
LEMMA PopMoves ==
    ASSUME QueueInv, NEW k \in Drainers, NEW from, NEW to \in Holding, PopHead(k, from, to),
           from \notin Holding
    PROVE  /\ tpc[k] = from
           /\ \/ /\ queue # <<>> /\ Head(queue) = head[k] /\ head[k] \in Elems(queue)
                 /\ tpc' = [tpc EXCEPT ![k] = to] /\ UNCHANGED fate
                 /\ queue' \in Seq(Dispatches) /\ Distinct(queue')
                 /\ Elems(queue') = Elems(queue) \ {head[k]}
              \/ /\ queue = <<>> /\ UNCHANGED <<queue, fate>>
                 /\ tpc' = [tpc EXCEPT ![k] = "idle"]
              \/ \E d \in Dispatches :
                   /\ d \in Elems(queue) /\ d # head[k] /\ d = Head(queue)
                   /\ queue # <<>>
                   /\ tpc' = [tpc EXCEPT ![k] = "idle"]
                   /\ fate' = [fate EXCEPT ![d] = "lost"]
                   /\ queue' \in Seq(Dispatches) /\ Distinct(queue')
                   /\ Elems(queue') = Elems(queue) \ {d}
<1>1. queue \in Seq(Dispatches) /\ Distinct(queue)
  BY DEF QueueInv, QueueTypes
<1>2. queue # <<>> =>
        /\ Tail(queue) \in Seq(Dispatches) /\ Distinct(Tail(queue))
        /\ Head(queue) \in Elems(queue) /\ Head(queue) \in Dispatches
        /\ Elems(Tail(queue)) = Elems(queue) \ {Head(queue)}
  BY <1>1, TailDistinct, HeadTailProperties
<1>3. CASE queue = <<>>
  BY <1>3 DEF PopHead, TickGoto
<1>4. CASE queue # <<>> /\ Head(queue) = head[k]
  BY <1>2, <1>4 DEF PopHead, TickGoto
<1>5. CASE queue # <<>> /\ Head(queue) # head[k]
  BY <1>2, <1>5 DEF PopHead, TickGoto
<1> QED BY <1>3, <1>4, <1>5

\* A pop keeps the types and the invariant of every entry.
LEMMA PopStep ==
    ASSUME QueueInv, NEW k \in Drainers, NEW from, NEW to \in Holding, PopHead(k, from, to),
           from \notin Holding, UNCHANGED <<agentVars, entryVars, busyLog, head>>
    PROVE  QueueInv'
<1>0. /\ QueueTypes /\ \A d \in Dispatches : EntryInv(d)
      /\ latest <= MaxRuns + Cardinality(Spent)
  BY DEF QueueInv
<1>m. tpc[k] = from
  BY PopMoves
<1> USE DEF QueueTypes, agentVars, entryVars, Holding
<1>1. CASE /\ queue # <<>> /\ Head(queue) = head[k] /\ head[k] \in Elems(queue)
           /\ tpc' = [tpc EXCEPT ![k] = to] /\ UNCHANGED fate
           /\ queue' \in Seq(Dispatches) /\ Distinct(queue')
           /\ Elems(queue') = Elems(queue) \ {head[k]}
  <2>1. QueueTypes'
    BY <1>0, <1>1
  <2>2. Spent' = Spent
    BY <1>1 DEF Spent
  <2>3. ASSUME NEW d \in Dispatches PROVE EntryInv(d)'
    <3>1. CASE d = head[k]
      BY <1>0, <1>1, <1>m, <3>1 DEF EntryInv, Entered, Held
    <3>2. CASE d # head[k]
      BY <1>0, <1>1, <1>m, <3>2 DEF EntryInv, Entered, Held
    <3> QED BY <3>1, <3>2
  <2> QED BY <1>0, <1>1, <2>1, <2>2, <2>3 DEF QueueInv
<1>2. CASE /\ queue = <<>> /\ UNCHANGED <<queue, fate>>
           /\ tpc' = [tpc EXCEPT ![k] = "idle"]
  <2>1. QueueTypes'
    BY <1>0, <1>2
  <2>2. Spent' = Spent
    BY <1>2 DEF Spent
  <2>3. ASSUME NEW d \in Dispatches PROVE EntryInv(d)'
    BY <1>0, <1>2, <1>m DEF EntryInv, Entered, Held
  <2> QED BY <1>0, <1>2, <2>1, <2>2, <2>3 DEF QueueInv
<1>3. ASSUME NEW e \in Dispatches,
             e \in Elems(queue), e # head[k],
             tpc' = [tpc EXCEPT ![k] = "idle"], fate' = [fate EXCEPT ![e] = "lost"],
             queue' \in Seq(Dispatches), Distinct(queue'),
             Elems(queue') = Elems(queue) \ {e}
      PROVE  QueueInv'
  <2>1. QueueTypes'
    BY <1>0, <1>3 DEF EntryFates
  <2>2. Spent' = Spent
    <3>1. fate[e] = "none"
      BY <1>0, <1>3 DEF EntryInv
    <3> QED BY <1>0, <1>3, <3>1 DEF Spent
  <2>3. ASSUME NEW d \in Dispatches PROVE EntryInv(d)'
    <3>1. CASE d = e
      BY <1>0, <1>3, <1>m, <3>1 DEF EntryInv, Entered, Held
    <3>2. CASE d # e
      BY <1>0, <1>3, <1>m, <3>2 DEF EntryInv, Entered, Held
    <3> QED BY <3>1, <3>2
  <2> QED BY <1>0, <1>3, <2>1, <2>2, <2>3 DEF QueueInv
<1> QED BY <1>1, <1>2, <1>3, PopMoves

\* Every action keeps the invariant.
LEMMA QueueStep == QueueInv /\ [QueueNext]_queueVars => QueueInv'
<1> SUFFICES ASSUME QueueInv, [QueueNext]_queueVars PROVE QueueInv'
  OBVIOUS
<1>0. /\ QueueTypes /\ \A d \in Dispatches : EntryInv(d)
      /\ Distinct(queue) /\ latest <= MaxRuns + Cardinality(Spent)
  BY DEF QueueInv
<1>c. Cardinality(Spent) \in Nat /\ MaxRuns \in Nat
  <2>1. IsFiniteSet(Spent)
    BY DispatchesAssumption, FS_Subset DEF Spent
  <2> QED BY <2>1, FS_CardinalityType, RunsAssumption
<1>e. \A e \in {"busy_queued", "busy_dispatched", "busy_timeout"} : e \in BusyEvents
  BY DEF BusyEvents
<1>l. ASSUME NEW d \in Dispatches, NEW e \in BusyEvents, Logged(d, e)
      PROVE  busyLog' \in [Dispatches -> Seq(BusyEvents)]
  <2>1. Append(busyLog[d], e) \in Seq(BusyEvents)
    BY <1>0, <1>l, AppendProperties DEF QueueTypes
  <2> QED BY <1>0, <1>l, <2>1 DEF QueueTypes, Logged
\* What touches neither the entries nor the ticks.
<1>f. ASSUME UNCHANGED <<queue, epc, fate, tickVars>>, QueueTypes',
             latest' <= MaxRuns + Cardinality(Spent)
      PROVE  QueueInv'
  <2>1. Spent' = Spent
    BY <1>f DEF Spent
  <2>2. ASSUME NEW d \in Dispatches PROVE EntryInv(d)'
    BY <1>0, <1>f DEF EntryInv, Entered, Held, tickVars
  <2> QED BY <1>0, <1>f, <2>1, <2>2 DEF QueueInv
\* A tick that holds nothing moves on and still holds nothing.
<1>g. ASSUME NEW k \in Drainers, tpc[k] \notin Holding, tpc'[k] \notin Holding,
             \A j \in Drainers \ {k} : tpc'[j] = tpc[j] /\ head'[j] = head[j],
             UNCHANGED <<latest, queue, epc, fate>>, QueueTypes'
      PROVE  QueueInv'
  <2>1. Spent' = Spent
    BY <1>g DEF Spent
  <2>2. ASSUME NEW d \in Dispatches, NEW j \in Drainers PROVE Held(d, j)' <=> Held(d, j)
    BY <1>g DEF Held
  <2>3. ASSUME NEW d \in Dispatches PROVE EntryInv(d)'
    BY <1>0, <1>g, <2>2 DEF EntryInv, Entered
  <2> QED BY <1>0, <1>g, <2>1, <2>3 DEF QueueInv
<1>1. CASE RunEnds
  <2>1. QueueTypes'
    BY <1>0, <1>1 DEF RunEnds, QueueTypes, entryVars, tickVars
  <2> QED BY <1>0, <1>1, <1>f, <2>1 DEF RunEnds, entryVars
<1>2. CASE OtherRun
  <2>1. QueueTypes'
    BY <1>0, <1>2 DEF OtherRun, QueueTypes, entryVars, tickVars
  <2>2. latest' <= MaxRuns + Cardinality(Spent)
    BY <1>0, <1>2, <1>c DEF OtherRun, QueueTypes
  <2> QED BY <1>2, <1>f, <2>1, <2>2 DEF OtherRun, entryVars
<1>3. ASSUME NEW d \in Dispatches, Refuse(d) PROVE QueueInv'
  <2>1. QueueTypes'
    BY <1>0, <1>3 DEF Refuse, QueueTypes, agentVars, tickVars
  <2>2. Spent' = Spent
    BY <1>3 DEF Refuse, Spent
  <2>3. ASSUME NEW e \in Dispatches PROVE EntryInv(e)'
    BY <1>0, <1>3 DEF Refuse, EntryInv, Entered, Held, QueueTypes, tickVars
  <2> QED BY <1>0, <1>3, <2>1, <2>2, <2>3 DEF QueueInv, Refuse, agentVars
<1>4. ASSUME NEW d \in Dispatches, Enqueue(d) PROVE QueueInv'
  <2>0. d \notin Elems(queue) /\ fate[d] = "none" /\ \A k \in Drainers : ~Held(d, k)
    BY <1>0, <1>4 DEF Enqueue, EntryInv, Entered
  <2>1. queue' \in Seq(Dispatches) /\ Distinct(queue') /\ Elems(queue') = Elems(queue) \cup {d}
    BY <1>0, <1>4, <2>0, AppendDistinct DEF Enqueue, QueueTypes
  <2>2. QueueTypes'
    BY <1>0, <1>4, <2>1 DEF Enqueue, QueueTypes, agentVars, tickVars
  <2>3. Spent' = Spent
    BY <1>4 DEF Enqueue, Spent
  <2>4. ASSUME NEW e \in Dispatches PROVE EntryInv(e)'
    <3>1. UNCHANGED <<fate, tpc, head>> /\ epc' = [epc EXCEPT ![d] = "queued"]
      BY <1>4 DEF Enqueue, tickVars
    <3> QED BY <1>0, <2>0, <2>1, <3>1 DEF EntryInv, Entered, Held, QueueTypes
  <2> QED BY <1>0, <1>4, <2>1, <2>2, <2>3, <2>4 DEF QueueInv, Enqueue, agentVars
<1>5. ASSUME NEW d \in Dispatches, RecordQueued(d) PROVE QueueInv'
  <2>1. busyLog' \in [Dispatches -> Seq(BusyEvents)]
    BY <1>5, <1>e, <1>l DEF RecordQueued
  <2>2. QueueTypes'
    BY <1>0, <1>5, <2>1 DEF RecordQueued, QueueTypes, agentVars, tickVars
  <2>3. Spent' = Spent
    BY <1>5 DEF RecordQueued, Spent
  <2>4. ASSUME NEW e \in Dispatches PROVE EntryInv(e)'
    BY <1>0, <1>5 DEF RecordQueued, EntryInv, Entered, Held, QueueTypes, tickVars
  <2> QED BY <1>0, <1>5, <2>2, <2>3, <2>4 DEF QueueInv, RecordQueued, agentVars
<1>6. ASSUME NEW d \in Dispatches, EntryDeadline(d) PROVE QueueInv'
  <2>1. QueueTypes'
    BY <1>0, <1>6 DEF EntryDeadline, QueueTypes, agentVars, tickVars
  <2> QED BY <1>0, <1>6, <1>f, <2>1 DEF EntryDeadline, agentVars
<1>7. ASSUME NEW d \in Dispatches, Remove(d) PROVE QueueInv'
  <2>1. PICK i \in DOMAIN queue : queue[i] = d /\ queue' = WithoutEntry(queue, i)
    BY <1>7 DEF Remove
  <2>2. queue' \in Seq(Dispatches) /\ Distinct(queue') /\ Elems(queue') = Elems(queue) \ {d}
    BY <1>0, <2>1, WithoutDistinct DEF QueueTypes
  <2>3. QueueTypes'
    BY <1>0, <1>7, <2>2 DEF Remove, QueueTypes, agentVars, entryVars, tickVars, EntryFates
  <2>4. d \in Elems(queue)
    BY <2>1 DEF Elems
  <2>5. fate[d] = "none" /\ Entered(d) /\ fate' = [fate EXCEPT ![d] = "removed"]
    BY <1>0, <1>7, <2>4 DEF EntryInv, Remove
  <2>6. Spent' = Spent
    BY <1>0, <2>5 DEF Spent, QueueTypes
  <2>7. ASSUME NEW e \in Dispatches PROVE EntryInv(e)'
    <3>1. UNCHANGED <<epc, tpc, head>>
      BY <1>7 DEF Remove, entryVars, tickVars
    <3> QED BY <1>0, <2>2, <2>4, <2>5, <3>1 DEF EntryInv, Entered, Held, QueueTypes
  <2> QED BY <1>0, <1>7, <2>2, <2>3, <2>6, <2>7 DEF QueueInv, Remove, agentVars
<1>8. ASSUME NEW k \in Drainers, Tick(k) PROVE QueueInv'
  <2>h. head[k] \in Dispatches
    BY <1>0 DEF QueueTypes
  <2>1. CASE TickPeek(k)
    <3>1. Head(queue) \in Dispatches
      BY <1>0, <2>1, HeadTailProperties DEF TickPeek, QueueTypes
    <3>2. QueueTypes'
      BY <1>0, <2>1, <3>1 DEF TickPeek, TickGoto, QueueTypes, agentVars, entryVars
    <3>3. /\ tpc[k] = "idle" /\ tpc'[k] \in {"expired", "peeked"}
          /\ \A j \in Drainers \ {k} : tpc'[j] = tpc[j] /\ head'[j] = head[j]
      BY <1>0, <2>1 DEF TickPeek, TickGoto, QueueTypes
    <3> QED BY <1>g, <2>1, <3>2, <3>3 DEF TickPeek, Holding, agentVars, entryVars
  <2>2. CASE TickPoll(k)
    <3>1. PICK to \in {"ready", "idle"} : TickGoto(k, "peeked", to)
      BY <2>2 DEF TickPoll
    <3>2. QueueTypes'
      BY <1>0, <2>2, <3>1 DEF TickPoll, TickGoto, QueueTypes, agentVars, entryVars
    <3>3. /\ tpc[k] = "peeked" /\ tpc'[k] \in {"ready", "idle"}
          /\ \A j \in Drainers \ {k} : tpc'[j] = tpc[j] /\ head'[j] = head[j]
      BY <1>0, <2>2, <3>1 DEF TickPoll, TickGoto, QueueTypes
    <3> QED BY <1>g, <2>2, <3>2, <3>3 DEF TickPoll, Holding, agentVars, entryVars
  <2>3. CASE TickPop(k)
    BY <2>3, PopStep DEF TickPop, Holding
  <2>4. CASE TickTimeout(k)
    BY <2>4, PopStep DEF TickTimeout, Holding
  <2>5. CASE TickInvoke(k)
    <3>1. PICK x \in {"dispatched", "failed"}, to \in {"issued", "idle"} :
              fate' = [fate EXCEPT ![head[k]] = x] /\ TickGoto(k, "popped", to)
      BY <2>5 DEF TickInvoke
    <3>2. /\ latest' = latest \/ latest' = latest + 1
          /\ active' \in BOOLEAN
          /\ UNCHANGED <<queue, entryVars, busyLog, head>>
      BY <1>0, <2>5 DEF TickInvoke, QueueTypes, agentVars
    <3>3. /\ Held(head[k], k) /\ fate[head[k]] = "none" /\ Entered(head[k])
      BY <1>0, <2>h, <3>1 DEF Held, TickGoto, Holding, EntryInv
    <3>4. QueueTypes'
      BY <1>0, <3>1, <3>2 DEF TickGoto, QueueTypes, entryVars, EntryFates
    <3>5. Cardinality(Spent') = Cardinality(Spent) + 1
      <4>1. Spent' = Spent \cup {head[k]} /\ head[k] \notin Spent
        BY <1>0, <2>h, <3>1, <3>3 DEF Spent, QueueTypes
      <4>2. IsFiniteSet(Spent)
        BY DispatchesAssumption, FS_Subset DEF Spent
      <4> QED BY <4>1, <4>2, FS_AddElement
    <3>6. latest' <= MaxRuns + Cardinality(Spent')
      BY <1>0, <1>c, <3>2, <3>5 DEF QueueTypes
    <3>7. ASSUME NEW d \in Dispatches PROVE EntryInv(d)'
      <4>1. tpc' = [tpc EXCEPT ![k] = to] /\ tpc'[k] \notin Holding /\ tpc[k] = "popped"
        BY <1>0, <3>1 DEF TickGoto, Holding, QueueTypes
      <4>2. CASE d = head[k]
        <5>1. \A j \in Drainers : ~Held(d, j)'
          BY <1>0, <3>2, <3>3, <4>1, <4>2 DEF Held, EntryInv, QueueTypes
        <5>2. fate'[d] # "none" /\ Entered(d)' /\ d \notin Elems(queue)'
          BY <1>0, <3>1, <3>2, <3>3, <4>2 DEF EntryInv, Entered, entryVars, QueueTypes, Held
        <5> QED BY <5>1, <5>2 DEF EntryInv
      <4>3. CASE d # head[k]
        <5>1. \A j \in Drainers : Held(d, j)' <=> Held(d, j)
          BY <1>0, <3>2, <4>1, <4>3 DEF Held, QueueTypes
        <5>2. fate'[d] = fate[d] /\ UNCHANGED <<epc, queue>>
          BY <1>0, <3>1, <3>2, <4>3 DEF entryVars, QueueTypes
        <5> QED BY <1>0, <5>1, <5>2 DEF EntryInv, Entered
      <4> QED BY <4>2, <4>3
    <3> QED BY <1>0, <3>2, <3>4, <3>6, <3>7 DEF QueueInv
  <2>6. CASE TickRecord(k)
    <3>1. busyLog' \in [Dispatches -> Seq(BusyEvents)]
      BY <1>e, <1>l, <2>h, <2>6 DEF TickRecord
    <3>2. QueueTypes'
      BY <1>0, <2>6, <3>1 DEF TickRecord, TickGoto, QueueTypes, agentVars, entryVars
    <3>3. /\ tpc[k] = "issued" /\ tpc'[k] = "idle"
          /\ \A j \in Drainers \ {k} : tpc'[j] = tpc[j] /\ head'[j] = head[j]
      BY <1>0, <2>6 DEF TickRecord, TickGoto, QueueTypes
    <3> QED BY <1>g, <2>6, <3>2, <3>3 DEF TickRecord, Holding, agentVars, entryVars
  <2>7. CASE TickRecordTimeout(k)
    <3>1. /\ tpc[k] = "timing_out" /\ tpc' = [tpc EXCEPT ![k] = "idle"]
          /\ fate' = [fate EXCEPT ![head[k]] = "timed_out"]
          /\ UNCHANGED <<agentVars, queue, entryVars, head>>
          /\ busyLog' \in [Dispatches -> Seq(BusyEvents)]
      BY <1>e, <1>l, <2>h, <2>7 DEF TickRecordTimeout, TickGoto
    <3>2. QueueTypes'
      BY <1>0, <3>1 DEF QueueTypes, agentVars, entryVars, EntryFates
    <3>3. Held(head[k], k) /\ fate[head[k]] = "none" /\ Entered(head[k])
      BY <1>0, <2>h, <3>1 DEF Held, Holding, EntryInv
    <3>4. Spent' = Spent
      BY <1>0, <3>1, <3>3 DEF Spent, QueueTypes
    <3>5. ASSUME NEW d \in Dispatches PROVE EntryInv(d)'
      <4>2. CASE d = head[k]
        <5>1. \A j \in Drainers : ~Held(d, j)'
          BY <1>0, <3>1, <3>3, <4>2 DEF Held, EntryInv, QueueTypes, Holding
        <5>2. fate'[d] # "none" /\ Entered(d)' /\ d \notin Elems(queue)'
          BY <1>0, <3>1, <3>3, <4>2 DEF EntryInv, Entered, entryVars, QueueTypes, Held
        <5> QED BY <5>1, <5>2 DEF EntryInv
      <4>3. CASE d # head[k]
        <5>1. \A j \in Drainers : Held(d, j)' <=> Held(d, j)
          BY <1>0, <3>1, <4>3 DEF Held, QueueTypes, Holding
        <5>2. fate'[d] = fate[d] /\ UNCHANGED <<epc, queue>>
          BY <1>0, <3>1, <4>3 DEF entryVars, QueueTypes
        <5> QED BY <1>0, <5>1, <5>2 DEF EntryInv, Entered
      <4> QED BY <4>2, <4>3
    <3> QED BY <1>0, <3>1, <3>2, <3>4, <3>5 DEF QueueInv, agentVars
  <2> QED BY <1>8, <2>1, <2>2, <2>3, <2>4, <2>5, <2>6, <2>7 DEF Tick
<1>9. CASE UNCHANGED queueVars
  <2>1. QueueTypes'
    BY <1>0, <1>9 DEF queueVars, QueueTypes, agentVars, entryVars, tickVars
  <2> QED BY <1>0, <1>9, <1>f, <2>1 DEF queueVars, agentVars, entryVars
<1> QED BY <1>1, <1>2, <1>3, <1>4, <1>5, <1>6, <1>7, <1>8, <1>9 DEF QueueNext, EnqueueDispatch

LEMMA QueueInitial == QueueInit => QueueInv
<1> SUFFICES ASSUME QueueInit PROVE QueueInv
  OBVIOUS
<1>1. queue = <<>> /\ Elems(queue) = {} /\ Distinct(queue)
  BY DEF QueueInit, Elems, Distinct
<1>2. QueueTypes
  BY DispatchesAssumption DEF QueueInit, QueueTypes, EntryFates
<1>3. Spent = {}
  BY DEF QueueInit, Spent
<1>4. latest <= MaxRuns + Cardinality(Spent)
  BY <1>3, FS_EmptySet, RunsAssumption DEF QueueInit
<1>5. ASSUME NEW d \in Dispatches PROVE EntryInv(d)
  BY <1>1 DEF QueueInit, EntryInv, Entered, Held, Holding
<1> QED BY <1>1, <1>2, <1>4, <1>5 DEF QueueInv

LEMMA QueueHolds == QueueSpec => []QueueInv
  BY QueueInitial, QueueStep, PTL DEF QueueSpec

\* Type correctness of the queue: with every dispatch at most one run is started
\* on top of those of other clients, and the run that an entry waits for has
\* been started.
THEOREM QueueTypeCorrect == QueueSpec => []QueueTypeOK
<1>1. QueueInv => QueueTypeOK
  <2> SUFFICES ASSUME QueueInv PROVE QueueTypeOK
    OBVIOUS
  <2>1. Cardinality(Spent) <= Cardinality(Dispatches)
    BY DispatchesAssumption, FS_Subset DEF Spent
  <2>2. IsFiniteSet(Spent)
    BY DispatchesAssumption, FS_Subset DEF Spent
  <2>3. /\ Cardinality(Spent) \in Nat /\ Cardinality(Dispatches) \in Nat
        /\ MaxRuns \in Nat
    BY <2>2, DispatchesAssumption, FS_CardinalityType, RunsAssumption
  <2>4. latest \in 1..MaxRuns + Cardinality(Dispatches)
    BY <2>1, <2>3 DEF QueueInv, QueueTypes
  <2>5. current \in [Dispatches -> 0..latest]
    BY DEF QueueInv, QueueTypes
  <2> QED BY <2>4, <2>5 DEF QueueInv, QueueTypes, QueueTypeOK
<1> QED BY <1>1, QueueHolds, PTL

\* The first half of OnePlace.
OneEntryPlace ==
    \A d \in Dispatches : Entered(d) => \E p \in Places(d) : Places(d) = {p}

\* An entry that was enqueued is in the queue, with one tick or done with, and in
\* one of these places only, however many ticks run side by side: it is never
\* issued twice, nor both issued and timed out.
THEOREM EntriesHaveOnePlace == QueueSpec => []OneEntryPlace
<1>1. QueueInv => OneEntryPlace
  <2> SUFFICES ASSUME QueueInv, NEW d \in Dispatches, Entered(d)
               PROVE  \E p \in Places(d) : Places(d) = {p}
    BY DEF OneEntryPlace
  <2> DEFINE Q == {j \in DOMAIN queue : queue[j] = d}
             T == {j \in Drainers : tpc[j] \in Holding /\ head[j] = d}
             X == {fate[d]} \ {"none"}
  <2>0. EntryInv(d) /\ Distinct(queue)
    BY DEF QueueInv
  <2>1. Places(d) = {<<"queue", i>> : i \in Q} \cup {<<"tick", k>> : k \in T}
                    \cup {<<"fate">> : x \in X}
    BY DEF Places
  <2>2. CASE d \in Elems(queue)
    <3>1. PICK i \in DOMAIN queue : queue[i] = d
      BY <2>2 DEF Elems
    <3>2. Q = {i}
      BY <2>0, <3>1 DEF Distinct
    <3>3. T = {} /\ X = {}
      BY <2>0, <2>2 DEF EntryInv, Held
    <3> HIDE DEF Q, T, X
    <3>4. Places(d) = {<<"queue", i>>}
      BY <2>1, <3>2, <3>3
    <3> QED BY <3>4
  <2>3. CASE fate[d] # "none"
    <3>1. d \notin Elems(queue) /\ \A k \in Drainers : ~Held(d, k)
      BY <2>0, <2>3 DEF EntryInv
    <3>2. Q = {} /\ T = {}
      BY <3>1 DEF Elems, Held
    <3>3. X = {fate[d]}
      BY <2>3
    <3> HIDE DEF Q, T, X
    <3>4. Places(d) = {<<"fate">>}
      BY <2>1, <3>2, <3>3
    <3> QED BY <3>4
  <2>4. ASSUME NEW k \in Drainers, Held(d, k) PROVE \E p \in Places(d) : Places(d) = {p}
    <3>1. T = {k}
      BY <2>0, <2>4 DEF EntryInv, Held
    <3>2. Q = {} /\ X = {}
      BY <2>0, <2>4 DEF EntryInv, Elems
    <3> HIDE DEF Q, T, X
    <3>3. Places(d) = {<<"tick", k>>}
      BY <2>1, <3>1, <3>2
    <3> QED BY <3>3
  <2> QED BY <2>0, <2>2, <2>3, <2>4 DEF EntryInv
<1> QED BY <1>1, QueueHolds, PTL

\* Popolad starts one drainer.
OneDrainer == \A j, k \in Drainers : j = k

\* The entry a lone tick has peeked at stays the first of the queue until it is
\* popped, unless it is removed; so what the tick pops instead, it pops for one
\* that was removed.
PeekInv ==
    /\ \A k \in Drainers : tpc[k] \in {"peeked", "expired", "ready"} =>
          \/ fate[head[k]] = "removed"
          \/ queue # <<>> /\ Head(queue) = head[k]
    /\ \A d \in Dispatches :
          fate[d] = "lost" => \E e \in Dispatches \ {d} : fate[e] = "removed"

\* No fate is changed: what is removed remains so.
LEMMA PeekStep ==
    OneDrainer => (QueueInv /\ PeekInv /\ [QueueNext]_queueVars => PeekInv')
<1> SUFFICES ASSUME OneDrainer, QueueInv, PeekInv, [QueueNext]_queueVars PROVE PeekInv'
  OBVIOUS
<1>0. /\ QueueTypes /\ Distinct(queue) /\ \A d \in Dispatches : EntryInv(d)
  BY DEF QueueInv
<1>1. CASE UNCHANGED <<queue, fate, tickVars>>
  BY <1>1 DEF PeekInv, tickVars
<1>2. ASSUME NEW d \in Dispatches, Enqueue(d) PROVE PeekInv'
  <2>0. d \notin Elems(queue)
    BY <1>0, <1>2 DEF Enqueue, EntryInv, Entered
  <2>1. queue # <<>> => Head(queue') = Head(queue)
    BY <1>0, <1>2, <2>0, AppendDistinct DEF Enqueue, QueueTypes
  <2>a. queue \in Seq(Dispatches) /\ queue' = Append(queue, d)
    BY <1>0, <1>2 DEF Enqueue, QueueTypes
  <2>2. queue' # <<>>
    BY <2>a, AppendProperties
  <2> QED BY <1>2, <2>1, <2>2 DEF Enqueue, PeekInv, tickVars
<1>3. ASSUME NEW d \in Dispatches, Remove(d) PROVE PeekInv'
  <2>1. PICK i \in DOMAIN queue : queue[i] = d /\ queue' = WithoutEntry(queue, i)
    BY <1>3 DEF Remove
  <2>2. d # Head(queue) => queue' # <<>> /\ Head(queue') = Head(queue)
    BY <1>0, <2>1, WithoutDistinct DEF QueueTypes
  <2>3. fate[d] = "none"
    BY <1>0, <2>1 DEF EntryInv, Elems
  <2>4. /\ fate'[d] = "removed" /\ \A e \in Dispatches \ {d} : fate'[e] = fate[e]
        /\ UNCHANGED <<tpc, head>>
    BY <1>0, <1>3 DEF Remove, QueueTypes, tickVars
  <2>5. ASSUME NEW k \in Drainers PROVE head[k] \in Dispatches
    BY <1>0 DEF QueueTypes
  <2> QED BY <2>2, <2>3, <2>4, <2>5 DEF PeekInv
<1>4. ASSUME NEW k \in Drainers, TickPeek(k) PROVE PeekInv'
  <2>1. head'[k] = Head(queue) /\ queue # <<>> /\ UNCHANGED <<queue, fate>>
    BY <1>0, <1>4 DEF TickPeek, QueueTypes
  <2>2. \A j \in Drainers : j = k
    BY DEF OneDrainer
  <2> QED BY <2>1, <2>2 DEF PeekInv
<1>5. ASSUME NEW k \in Drainers, TickPoll(k) PROVE PeekInv'
  <2>1. \A j \in Drainers : tpc'[j] \in {"peeked", "expired", "ready"} =>
                            tpc[j] \in {"peeked", "expired", "ready"}
    <3>1. PICK to \in {"ready", "idle"} : TickGoto(k, "peeked", to)
      BY <1>5 DEF TickPoll
    <3> QED BY <1>0, <3>1 DEF TickGoto, QueueTypes
  <2> QED BY <1>5, <2>1 DEF TickPoll, PeekInv
<1>6. ASSUME NEW k \in Drainers, NEW from \in {"ready", "expired"}, NEW to \in Holding,
             PopHead(k, from, to), UNCHANGED head
      PROVE  PeekInv'
  <2>1. \A j \in Drainers : tpc'[j] \notin {"peeked", "expired", "ready"}
    <3>1. tpc' = [tpc EXCEPT ![k] = to] \/ tpc' = [tpc EXCEPT ![k] = "idle"]
      BY <1>6 DEF PopHead, TickGoto
    <3> QED BY <1>0, <3>1 DEF OneDrainer, QueueTypes, Holding
  <2>2. CASE UNCHANGED fate
    BY <2>1, <2>2 DEF PeekInv
  <2>3. ASSUME NEW d \in Dispatches, d \in Elems(queue), d # head[k], d = Head(queue),
               fate' = [fate EXCEPT ![d] = "lost"]
        PROVE  PeekInv'
    <3>1. tpc[k] = from
      BY <1>6, PopMoves DEF Holding
    <3>2. fate[head[k]] = "removed" /\ head[k] \in Dispatches
      BY <1>0, <2>3, <3>1 DEF PeekInv, QueueTypes
    <3>3. fate'[head[k]] = "removed"
      BY <1>0, <2>3, <3>2 DEF QueueTypes
    <3>4. fate[d] = "none" /\ \A e \in Dispatches \ {d} : fate'[e] = fate[e]
      BY <1>0, <2>3 DEF EntryInv, QueueTypes
    <3>5. ASSUME NEW e \in Dispatches, fate'[e] = "lost"
          PROVE  \E x \in Dispatches \ {e} : fate'[x] = "removed"
      <4>1. CASE e = d BY <2>3, <3>2, <3>3, <4>1
      <4>2. CASE e # d
        <5>1. PICK x \in Dispatches \ {e} : fate[x] = "removed"
          BY <3>4, <3>5, <4>2 DEF PeekInv
        <5> QED BY <3>4, <5>1
      <4> QED BY <4>1, <4>2
    <3> QED BY <2>1, <3>5 DEF PeekInv
  <2> QED BY <1>6, <2>2, <2>3, PopMoves DEF Holding
<1>7. ASSUME NEW k \in Drainers, TickInvoke(k) \/ TickRecord(k) \/ TickRecordTimeout(k)
      PROVE  PeekInv'
  <2>1. \A j \in Drainers : tpc'[j] \notin {"peeked", "expired", "ready"}
    BY <1>0, <1>7 DEF TickInvoke, TickRecord, TickRecordTimeout, TickGoto, OneDrainer, QueueTypes
  <2>2. CASE UNCHANGED fate
    BY <2>1, <2>2 DEF PeekInv
  <2>3. CASE \E x \in {"dispatched", "failed", "timed_out"} :
                fate' = [fate EXCEPT ![head[k]] = x] /\ tpc[k] \in Holding
    <3>1. fate[head[k]] = "none" /\ head[k] \in Dispatches
      BY <1>0, <2>3 DEF EntryInv, Held, QueueTypes
    <3>2. /\ \A e \in Dispatches : fate[e] = "removed" => fate'[e] = "removed"
          /\ \A e \in Dispatches : fate'[e] = "lost" => fate[e] = "lost"
      BY <1>0, <2>3, <3>1 DEF QueueTypes
    <3> QED BY <2>1, <3>2 DEF PeekInv
  <2> QED BY <1>7, <2>2, <2>3 DEF TickInvoke, TickRecord, TickRecordTimeout, TickGoto, Holding
<1>8. ASSUME NEW k \in Drainers, TickPop(k) \/ TickTimeout(k) PROVE PeekInv'
  BY <1>6, <1>8 DEF TickPop, TickTimeout, Holding
<1> QED BY <1>1, <1>2, <1>3, <1>4, <1>5, <1>7, <1>8 DEF QueueNext, RunEnds, OtherRun, Refuse,
       EnqueueDispatch, RecordQueued, EntryDeadline, Tick, queueVars

\* With the one drainer popolad starts, an entry is dropped unissued only when
\* the one before it was removed between the tick's peek and its pop.
THEOREM EntriesAreNotLost == QueueSpec => [](OneDrainer => OnePlace)
<1>1. QueueInit => (OneDrainer => PeekInv)
  BY DEF QueueInit, PeekInv
<1>2. QueueInv /\ (OneDrainer => PeekInv) /\ [QueueNext]_queueVars => (OneDrainer => PeekInv)'
  BY PeekStep DEF OneDrainer
<1>3. OneEntryPlace /\ (OneDrainer => PeekInv) => (OneDrainer => OnePlace)
  BY DEF OneEntryPlace, Entered, PeekInv, OnePlace
<1> QED BY <1>1, <1>2, <1>3, QueueHolds, EntriesHaveOnePlace, PTL DEF QueueSpec

-----------------------------------------------------------------------------
(* Induction.  A set of naturals has a least element; so what would fail for  *)
(* some length of a sequence fails for a least one.                           *)

LessThan == {p \in Nat \X Nat : p[1] < p[2]}

LEMMA LeastNatural ==
    ASSUME NEW T, T \subseteq Nat, T # {}
    PROVE  \E m \in T : \A k \in T : m <= k
<1>1. IsWellFoundedOn(LessThan, Nat)
  BY NatLessThanWellFounded DEF OpToRel, LessThan
<1>2. PICK m \in T : \A k \in T : ~(<<k, m>> \in LessThan)
  BY <1>1, WFMin
<1>3. \A k \in T : ~(k < m)
  BY <1>2 DEF LessThan
<1> QED BY <1>3

\* What Readable has kept of the first i lines of s, as a function of i up to n.
KeptTo(s, n, g) ==
    g = [i \in 0..n |-> IF i = 0 THEN <<>>
                        ELSE IF s[i] = Torn THEN g[i - 1] ELSE Append(g[i - 1], s[i])]

\* The recursion of Readable defines a function.
LEMMA KeptExists ==
    ASSUME NEW s, NEW n \in Nat
    PROVE  \E g : KeptTo(s, n, g)
<1> DEFINE T == {m \in Nat : ~ \E g : KeptTo(s, m, g)}
<1>1. SUFFICES ASSUME T # {} PROVE FALSE
  OBVIOUS
<1>2. PICK m \in T : \A k \in T : m <= k
  BY <1>1, LeastNatural
<1>3. CASE m = 0
  <2>1. KeptTo(s, 0, [i \in 0..0 |-> <<>>])
    BY DEF KeptTo
  <2> QED BY <1>2, <1>3, <2>1
<1>4. CASE m # 0
  <2>1. m - 1 \in Nat /\ m - 1 \notin T
    BY <1>2, <1>4
  <2>2. PICK g : KeptTo(s, m - 1, g)
    BY <2>1
  <2> DEFINE h == [i \in 0..m |-> IF i < m THEN g[i]
                                  ELSE IF s[m] = Torn THEN g[m - 1] ELSE Append(g[m - 1], s[m])]
  <2>3. \A i \in 0..(m - 1) : g[i] = IF i = 0 THEN <<>>
              ELSE IF s[i] = Torn THEN g[i - 1] ELSE Append(g[i - 1], s[i])
    BY <2>2 DEF KeptTo
  <2>4. \A i \in 0..(m - 1) : h[i] = g[i]
    BY <2>1
  <2>5. h[m] = IF s[m] = Torn THEN g[m - 1] ELSE Append(g[m - 1], s[m])
    BY <2>1
  <2>6. ASSUME NEW i \in 0..m
        PROVE  h[i] = IF i = 0 THEN <<>>
                      ELSE IF s[i] = Torn THEN h[i - 1] ELSE Append(h[i - 1], s[i])
    <3>1. CASE i = 0
      BY <2>1, <2>3, <2>4, <3>1
    <3>2. CASE i # 0
      <4>1. i - 1 \in 0..(m - 1) /\ h[i - 1] = g[i - 1]
        BY <2>1, <2>4, <3>2
      <4>2. CASE i = m
        BY <1>4, <2>5, <4>1, <4>2
      <4>3. CASE i # m
        <5>1. i \in 0..(m - 1)
          BY <2>1, <4>3
        <5> QED BY <2>3, <2>4, <3>2, <4>1, <5>1
      <4> QED BY <4>2, <4>3
    <3> QED BY <3>1, <3>2
  <2>7. DOMAIN h = 0..m /\ h = [i \in 0..m |-> h[i]]
    OBVIOUS
  <2> HIDE DEF h
  <2>8. KeptTo(s, m, h)
    BY <2>6, <2>7 DEF KeptTo
  <2> QED BY <1>2, <2>8
<1> QED BY <1>3, <1>4

\* What Readable keeps, up to a length, is what is not torn, in order.
KeptRight(s, n, g) ==
    /\ g[n] \in Seq(Event) /\ Len(g[n]) <= n
    /\ \A e \in Event : e \in Elems(g[n]) <=> \E i \in 1..n : s[i] = e
    /\ (\A i \in 1..n : s[i] # Torn) => /\ Len(g[n]) = n
                                        /\ \A i \in 1..n : g[n][i] = s[i]

LEMMA KeptIsRight ==
    ASSUME NEW s \in Seq(Event \cup {Torn}), NEW g, KeptTo(s, Len(s), g)
    PROVE  KeptRight(s, Len(s), g)
<1>l. Len(s) \in Nat /\ \A i \in 1..Len(s) : s[i] \in Event \cup {Torn}
  BY LenProperties, ElementOfSeq
<1>g. \A i \in 0..Len(s) : g[i] = IF i = 0 THEN <<>>
            ELSE IF s[i] = Torn THEN g[i - 1] ELSE Append(g[i - 1], s[i])
  BY DEF KeptTo
<1>t. Torn \notin Event
  BY BoundsAssumption DEF Torn, Event
<1> DEFINE T == {n \in 0..Len(s) : ~KeptRight(s, n, g)}
<1>d. /\ \A n : n \in T <=> (n \in 0..Len(s) /\ ~KeptRight(s, n, g))
      /\ T \subseteq Nat
  BY <1>l
<1> HIDE DEF T
<1>1. SUFFICES ASSUME T # {} PROVE FALSE
  BY <1>d, <1>l
<1>2. PICK m \in T : \A k \in T : m <= k
  BY <1>1, <1>d, LeastNatural
<1>3. CASE m = 0
  <2>1. g[0] = <<>> /\ <<>> \in Seq(Event) /\ Len(<<>>) = 0 /\ 1..0 = {}
    BY <1>g, <1>l
  <2>2. Elems(g[0]) = {}
    BY <2>1 DEF Elems
  <2>3. KeptRight(s, 0, g)
    BY <2>1, <2>2 DEF KeptRight
  <2> QED BY <1>2, <1>3, <1>d, <2>3
<1>4. CASE m # 0
  <2>0. m \in Nat /\ m \in 0..Len(s)
    BY <1>2, <1>d
  <2>1. m \in 1..Len(s) /\ m - 1 \in 0..Len(s) /\ KeptRight(s, m - 1, g)
    <3>1. m \in 1..Len(s) /\ m - 1 \in 0..Len(s) /\ ~(m <= m - 1)
      BY <1>4, <1>l, <2>0
    <3>2. m - 1 \notin T
      BY <1>2, <3>1
    <3> QED BY <1>d, <3>1, <3>2
  <2>2. (m - 1) + 1 = m /\ 1..m = (1..(m - 1)) \cup {m} /\ m \in Nat
    BY <2>1, <1>l
  <2>3. CASE s[m] = Torn
    <3>1. g[m] = g[m - 1]
      BY <1>g, <1>4, <2>1, <2>3
    <3>2. KeptRight(s, m, g)
      BY <1>t, <2>1, <2>2, <2>3, <3>1 DEF KeptRight
    <3> QED BY <1>2, <1>d, <3>2
  <2>4. CASE s[m] # Torn
    <3> DEFINE p == g[m - 1]
    <3>0. s[m] \in Event /\ p \in Seq(Event) /\ Len(p) \in Nat /\ Len(p) <= m - 1
      BY <1>l, <2>1, <2>4, LenProperties DEF KeptRight
    <3>1. g[m] = Append(p, s[m])
      <4>1. g[m] = IF m = 0 THEN <<>>
                   ELSE IF s[m] = Torn THEN g[m - 1] ELSE Append(g[m - 1], s[m])
        BY <1>g, <2>0
      <4> HIDE <1>g
      <4>2. m # 0 /\ s[m] # Torn
        BY <1>4, <2>4
      <4>3. g[m] = Append(g[m - 1], s[m])
        BY <4>1, <4>2, Zenon
      <4> QED BY <4>3 DEF p
    <3>2. /\ g[m] \in Seq(Event) /\ Len(g[m]) = Len(p) + 1
          /\ DOMAIN p = 1..Len(p) /\ DOMAIN g[m] = 1..(Len(p) + 1)
          /\ \A i \in 1..Len(p) : g[m][i] = p[i]
          /\ g[m][Len(p) + 1] = s[m]
      BY <3>0, <3>1, AppendProperties, LenProperties
    <3> HIDE DEF p
    <3>3. Elems(g[m]) = Elems(p) \cup {s[m]}
      <4>1. 1..(Len(p) + 1) = (1..Len(p)) \cup {Len(p) + 1}
        BY <3>0
      <4>2. Elems(g[m]) = {g[m][i] : i \in (1..Len(p)) \cup {Len(p) + 1}}
        BY <3>2, <4>1 DEF Elems
      <4> QED BY <3>2, <4>2 DEF Elems
    <3>4. \A e \in Event : e \in Elems(g[m]) <=> \E i \in 1..m : s[i] = e
      BY <2>1, <2>2, <3>3 DEF KeptRight, p
    <3>5. (\A i \in 1..m : s[i] # Torn) => Len(g[m]) = m /\ \A i \in 1..m : g[m][i] = s[i]
      <4>1. SUFFICES ASSUME \A i \in 1..m : s[i] # Torn
                     PROVE  Len(g[m]) = m /\ \A i \in 1..m : g[m][i] = s[i]
        OBVIOUS
      <4>2. Len(p) = m - 1 /\ \A i \in 1..(m - 1) : p[i] = s[i]
        BY <2>1, <2>2, <4>1 DEF KeptRight, p
      <4> QED BY <2>2, <3>2, <4>2
    <3>6. KeptRight(s, m, g)
      BY <2>2, <3>0, <3>2, <3>4, <3>5 DEF KeptRight
    <3> QED BY <1>2, <1>d, <3>6
  <2> QED BY <2>3, <2>4
<1> QED BY <1>3, <1>4

\* What tail returns: every readable line, and the lines themselves when all are.
LEMMA ReadableIsRight ==
    ASSUME NEW s \in Seq(Event \cup {Torn})
    PROVE  /\ Readable(s) \in Seq(Event) /\ Len(Readable(s)) <= Len(s)
           /\ \A e \in Event : e \in Elems(Readable(s)) <=> \E i \in 1..Len(s) : s[i] = e
           /\ (\A i \in 1..Len(s) : s[i] # Torn) => Readable(s) = s
<1> DEFINE g == CHOOSE g : g = [i \in 0..Len(s) |-> IF i = 0 THEN <<>>
                                ELSE IF s[i] = Torn THEN g[i - 1] ELSE Append(g[i - 1], s[i])]
<1>1. Len(s) \in Nat
  BY LenProperties
<1>2. \E h : h = [i \in 0..Len(s) |-> IF i = 0 THEN <<>>
                          ELSE IF s[i] = Torn THEN h[i - 1] ELSE Append(h[i - 1], s[i])]
  BY <1>1, KeptExists DEF KeptTo
<1>3. g = [i \in 0..Len(s) |-> IF i = 0 THEN <<>>
                   ELSE IF s[i] = Torn THEN g[i - 1] ELSE Append(g[i - 1], s[i])]
  BY <1>2
<1>4. Readable(s) = g[Len(s)]
  BY DEF Readable
<1> HIDE DEF g
<1>5. KeptRight(s, Len(s), g)
  BY <1>3, KeptIsRight DEF KeptTo
<1>6. (\A i \in 1..Len(s) : s[i] # Torn) => g[Len(s)] = s
  <2>1. SUFFICES ASSUME \A i \in 1..Len(s) : s[i] # Torn PROVE g[Len(s)] = s
    OBVIOUS
  <2>2. \A i \in 1..Len(s) : s[i] \in Event
    BY <2>1, ElementOfSeq
  <2>3. s \in Seq(Event)
    BY <1>1, <2>2, LenProperties
  <2>4. /\ g[Len(s)] \in Seq(Event) /\ Len(g[Len(s)]) = Len(s)
        /\ \A i \in 1..Len(s) : g[Len(s)][i] = s[i]
    BY <1>5, <2>1 DEF KeptRight
  <2> QED BY <2>3, <2>4, SeqEqual
<1> QED BY <1>4, <1>5, <1>6 DEF KeptRight

-----------------------------------------------------------------------------
(* The event log *)

\* A stream has sent what is readable behind its cursor; the cursor is past the
\* end of the file only where the stream has started there.
SentInv(f) ==
    /\ since[f] <= cursor[f]
    /\ cursor[f] = since[f] \/ cursor[f] <= Len(lines)
    /\ \A i \in Expected(since[f]) : i <= cursor[f] => lines[i] \in Elems(got[f])
    /\ Torn \notin Elems(lines) => got[f] = SubSeq(lines, since[f] + 1, cursor[f])

\* From the check of the handle on, no event counts that is appended later.
FinalInv(f) ==
    /\ fpc[f] \in {"final", "final_flushed", "ended"} => terminal
    /\ fpc[f] \in {"final_flushed", "ended"} => \A e \in Elems(buf) : e > mark
    /\ fpc[f] = "ended" =>
         \A i \in Expected(since[f]) : lines[i] <= mark => lines[i] \in Elems(got[f])

LogInv ==
    /\ LogTypeOK
    /\ \A f \in Followers : fpc[f] # "off" => SentInv(f) /\ FinalInv(f)

\* What gets into the file: the lines of s, but for the one glued to a torn part.
LEMMA WrittenLines ==
    ASSUME lines \in Seq(Event \cup {Torn}), NEW s \in Seq(Event)
    PROVE  /\ Written(s) \in Seq(Event \cup {Torn})
           /\ Len(Written(s)) = Len(lines) + Len(s)
           /\ \A i \in 1..Len(lines) : Written(s)[i] = lines[i]
           /\ \A i \in (Len(lines) + 1)..Len(Written(s)) : Written(s)[i] \in Elems(s) \cup {Torn}
<1>0. Len(lines) \in Nat /\ Len(s) \in Nat /\ DOMAIN s = 1..Len(s)
  BY LenProperties
<1>1. CASE s # <<>> /\ half = "dead"
  <2> DEFINE t == lines \o <<Torn>>
             u == Tail(s)
  <2>1. /\ u \in Seq(Event) /\ Len(u) = Len(s) - 1 /\ Len(s) >= 1
        /\ \A i \in 1..Len(u) : u[i] = s[i + 1]
    BY <1>0, <1>1, HeadTailProperties, EmptySeq
  <2>2. /\ t \in Seq(Event \cup {Torn}) /\ Len(t) = Len(lines) + 1
        /\ \A i \in 1..Len(lines) : t[i] = lines[i]
        /\ t[Len(lines) + 1] = Torn
    <3>1. <<Torn>> \in Seq(Event \cup {Torn}) /\ Len(<<Torn>>) = 1 /\ <<Torn>>[1] = Torn
      OBVIOUS
    <3> QED BY <1>0, <3>1, ConcatProperties
  <2>3. Written(s) = t \o u
    BY <1>1 DEF Written
  <2> HIDE DEF t, u
  <2>4. u \in Seq(Event \cup {Torn})
    BY <2>1
  <2>5. /\ t \o u \in Seq(Event \cup {Torn}) /\ Len(t \o u) = Len(t) + Len(u)
        /\ \A i \in 1..(Len(t) + Len(u)) :
              (t \o u)[i] = IF i <= Len(t) THEN t[i] ELSE u[i - Len(t)]
    BY <2>2, <2>4, ConcatProperties
  <2>6. ASSUME NEW i \in (Len(lines) + 1)..(Len(lines) + Len(s))
        PROVE  (t \o u)[i] \in Elems(s) \cup {Torn}
    <3>1. CASE i = Len(lines) + 1
      BY <1>0, <2>1, <2>2, <2>5, <3>1
    <3>2. CASE i # Len(lines) + 1
      <4>1. i - Len(t) \in 1..Len(u) /\ i - Len(t) + 1 \in 1..Len(s) /\ ~(i <= Len(t))
        BY <1>0, <2>1, <2>2, <3>2
      <4>2. (t \o u)[i] = u[i - Len(t)]
        BY <1>0, <2>1, <2>2, <2>5, <4>1
      <4>3. u[i - Len(t)] = s[i - Len(t) + 1]
        BY <2>1, <4>1
      <4> QED BY <1>0, <4>1, <4>2, <4>3 DEF Elems
    <3> QED BY <3>1, <3>2
  <2> QED BY <1>0, <2>1, <2>2, <2>3, <2>5, <2>6
<1>2. CASE ~(s # <<>> /\ half = "dead")
  <2>1. Written(s) = lines \o s /\ s \in Seq(Event \cup {Torn})
    BY <1>2 DEF Written
  <2>2. /\ lines \o s \in Seq(Event \cup {Torn}) /\ Len(lines \o s) = Len(lines) + Len(s)
        /\ \A i \in 1..(Len(lines) + Len(s)) :
              (lines \o s)[i] = IF i <= Len(lines) THEN lines[i] ELSE s[i - Len(lines)]
    BY <2>1, ConcatProperties
  <2>3. ASSUME NEW i \in (Len(lines) + 1)..(Len(lines) + Len(s))
        PROVE  (lines \o s)[i] \in Elems(s)
    <3>1. i - Len(lines) \in 1..Len(s) /\ ~(i <= Len(lines)) /\ i \in 1..(Len(lines) + Len(s))
      BY <1>0
    <3>2. (lines \o s)[i] = s[i - Len(lines)]
      BY <2>2, <3>1
    <3> QED BY <1>0, <3>1, <3>2 DEF Elems
  <2> QED BY <1>0, <2>1, <2>2, <2>3
<1> QED BY <1>1, <1>2

\* The file has grown by lines of events of E, and the rest of them waits.
Grown(E) ==
    /\ lines' \in Seq(Event \cup {Torn}) /\ Len(lines) <= Len(lines')
    /\ \A i \in 1..Len(lines) : lines'[i] = lines[i]
    /\ \A i \in (Len(lines) + 1)..Len(lines') : lines'[i] \in E \cup {Torn}
    /\ buf' \in Seq(Event) /\ Elems(buf') \subseteq E
    /\ half' \in {"none", "live", "dead"} /\ (half' = "live" => buf' # <<>>)

LEMMA SpilledGrows ==
    ASSUME LogTypeOK, NEW b \in Seq(Event), NEW k \in 0..Len(b), NEW p \in BOOLEAN,
           p => k < Len(b), b # <<>>, Spilled(b, k, p)
    PROVE  Grown(Elems(b))
<1> DEFINE s == SubSeq(b, 1, k)
           r == SubSeq(b, k + 1, Len(b))
<1>0. Len(b) \in Nat /\ Len(b) >= 1 /\ DOMAIN b = 1..Len(b)
  BY LenProperties, EmptySeq
<1>1. /\ s \in Seq(Event) /\ Len(s) = k /\ \A i \in 1..k : s[i] = b[i]
      /\ DOMAIN s = 1..k
  <2>1. 1 \in 1..(Len(b) + 1) /\ k \in (1 - 1)..Len(b)
    BY <1>0
  <2> QED BY <1>0, <2>1, SubSeqProperties, LenProperties
<1>2. /\ r \in Seq(Event) /\ Len(r) = Len(b) - k /\ DOMAIN r = 1..(Len(b) - k)
      /\ \A i \in 1..(Len(b) - k) : r[i] = b[k + i]
  <2> DEFINE a == k + 1
             n == Len(b)
  <2>1. a \in Int /\ n \in Int /\ (\A i \in a..n : b[i] \in Event)
        /\ n - a + 1 = n - k /\ n - k \in Nat /\ (a <= n => n - a + 1 = n - k)
        /\ (~(a <= n) => n - k = 0) /\ \A i \in 1..(n - k) : a + i - 1 = k + i
    <3>1. \A i \in 1..Len(b) : b[i] \in Event
      BY <1>0, ElementOfSeq
    <3>2. a \in Nat /\ n \in Nat /\ a = k + 1 /\ n = Len(b) /\ k \in 0..n /\ k \in Int
      BY <1>0
    <3> HIDE DEF a, n, r
    <3>3. \A i \in a..n : b[i] \in Event
      BY <3>1, <3>2
    <3> QED BY <3>2, <3>3
  <2>2. r = SubSeq(b, a, n)
    OBVIOUS
  <2> HIDE DEF a, n, r
  <2>3. /\ SubSeq(b, a, n) \in Seq(Event)
        /\ Len(SubSeq(b, a, n)) = IF a <= n THEN n - a + 1 ELSE 0
        /\ \A i \in 1..(n - a + 1) : SubSeq(b, a, n)[i] = b[a + i - 1]
    BY <2>1, SubSeqProperties
  <2>4. r \in Seq(Event) /\ Len(r) = n - k /\ \A i \in 1..(n - k) : r[i] = b[k + i]
    BY <2>1, <2>2, <2>3
  <2> QED BY <2>4, LenProperties DEF n
<1> HIDE DEF s, r
<1>3. Elems(s) \subseteq Elems(b) /\ Elems(r) \subseteq Elems(b)
  <2>1. \A i \in DOMAIN s : i \in DOMAIN b /\ s[i] = b[i]
    BY <1>0, <1>1
  <2>2. \A i \in DOMAIN r : k + i \in DOMAIN b /\ r[i] = b[k + i]
    BY <1>0, <1>2
  <2> QED BY <2>1, <2>2 DEF Elems
<1>4. /\ lines' = Written(s) /\ buf' = r
      /\ half' = IF k = 0 /\ half # "none" THEN half ELSE IF p THEN "live" ELSE "none"
  BY DEF Spilled, s, r
<1>5. /\ lines \in Seq(Event \cup {Torn}) /\ half \in {"none", "live", "dead"} /\ Len(lines) \in Nat
  BY LenProperties DEF LogTypeOK
<1>6. /\ Written(s) \in Seq(Event \cup {Torn})
      /\ Len(Written(s)) = Len(lines) + Len(s)
      /\ \A i \in 1..Len(lines) : Written(s)[i] = lines[i]
      /\ \A i \in (Len(lines) + 1)..Len(Written(s)) : Written(s)[i] \in Elems(s) \cup {Torn}
  BY <1>1, <1>5, WrittenLines
<1>7. half' \in {"none", "live", "dead"} /\ (half' = "live" => buf' # <<>>)
  <2>1. half' = "live" => Len(r) >= 1
    BY <1>0, <1>2, <1>4
  <2>2. Len(<<>>) = 0
    OBVIOUS
  <2> QED BY <1>4, <1>5, <2>1, <2>2
<1> QED BY <1>0, <1>1, <1>2, <1>3, <1>4, <1>5, <1>6, <1>7 DEF Grown

LEMMA FlushedGrows ==
    ASSUME LogTypeOK, Flushed
    PROVE  Grown(Elems(buf)) /\ Elems(buf') = {} /\ Len(lines') \in Nat
<1>1. /\ lines \in Seq(Event \cup {Torn}) /\ buf \in Seq(Event) /\ Len(lines) \in Nat
      /\ Len(buf) \in Nat /\ half \in {"none", "live", "dead"} /\ (half = "live" => buf # <<>>)
  BY LenProperties DEF LogTypeOK
<1>2. /\ lines' = Written(buf) /\ buf' = <<>>
      /\ half' = IF buf = <<>> THEN half ELSE "none"
  BY DEF Flushed
<1>3. /\ Written(buf) \in Seq(Event \cup {Torn})
      /\ Len(Written(buf)) = Len(lines) + Len(buf)
      /\ \A i \in 1..Len(lines) : Written(buf)[i] = lines[i]
      /\ \A i \in (Len(lines) + 1)..Len(Written(buf)) : Written(buf)[i] \in Elems(buf) \cup {Torn}
  BY <1>1, WrittenLines
<1>4. <<>> \in Seq(Event) /\ Elems(<<>>) = {}
  BY DEF Elems
<1> QED BY <1>1, <1>2, <1>3, <1>4, SMTT(60) DEF Grown

\* A file that grows keeps what has been sent, and what is still to come before
\* the end of a stream.
LEMMA GrownKeeps ==
    ASSUME LogTypeOK, NEW E, Grown(E), NEW f \in Followers,
           UNCHANGED <<terminal, mark, since, cursor, got>>,
           terminal => \A e \in E : e \in Elems(buf) \/ e > mark,
           SentInv(f), FinalInv(f)
    PROVE  SentInv(f)' /\ (fpc'[f] = fpc[f] => FinalInv(f)')
<1>1. /\ Len(lines) \in Nat /\ Len(lines') \in Nat /\ lines \in Seq(Event \cup {Torn})
      /\ DOMAIN lines = 1..Len(lines) /\ DOMAIN lines' = 1..Len(lines')
      /\ since[f] \in Nat /\ cursor[f] \in Nat /\ mark \in Nat /\ last \in Nat
  BY BoundsAssumption, LenProperties DEF LogTypeOK, Grown
<1>2. /\ Len(lines) <= Len(lines')
      /\ \A i \in 1..Len(lines) : lines'[i] = lines[i]
      /\ \A i \in (Len(lines) + 1)..Len(lines') : lines'[i] \in E \cup {Torn}
      /\ Elems(buf') \subseteq E
      /\ lines' \in Seq(Event \cup {Torn})
  BY DEF Grown
<1>3. Expected(since[f]) = {i \in 1..Len(lines) : i > since[f] /\ lines[i] # Torn}
      /\ Expected(since[f])' = {i \in 1..Len(lines') : i > since[f] /\ lines'[i] # Torn}
  BY <1>1 DEF Expected
<1>4. since'[f] = since[f] /\ cursor'[f] = cursor[f] /\ got'[f] = got[f] /\ mark' = mark
  OBVIOUS
<1>5. /\ since[f] <= cursor[f]
      /\ cursor[f] = since[f] \/ cursor[f] <= Len(lines)
      /\ \A i \in Expected(since[f]) : i <= cursor[f] => lines[i] \in Elems(got[f])
      /\ Torn \notin Elems(lines) => got[f] = SubSeq(lines, since[f] + 1, cursor[f])
  BY DEF SentInv
<1>6. ASSUME NEW i \in Expected(since[f])', i <= Len(lines)
      PROVE  i \in Expected(since[f]) /\ lines'[i] = lines[i]
  BY <1>1, <1>2, <1>3, <1>6
<1>7. ASSUME NEW i \in Expected(since[f])', i <= cursor[f] PROVE lines'[i] \in Elems(got[f])
  <2>1. i \in 1..Len(lines') /\ i > since[f] /\ i <= Len(lines)
    BY <1>1, <1>3, <1>5, <1>7
  <2> QED BY <1>5, <1>6, <1>7, <2>1
<1>8. ASSUME Torn \notin Elems(lines)' PROVE got[f] = SubSeq(lines', since[f] + 1, cursor[f])
  <2>1. Torn \notin Elems(lines)
    BY <1>1, <1>2, <1>8 DEF Elems
  <2>2. SubSeq(lines', since[f] + 1, cursor[f]) = SubSeq(lines, since[f] + 1, cursor[f])
    <3>1. CASE cursor[f] = since[f]
      <4>1. since[f] + 1 > cursor[f]
        BY <1>1, <3>1
      <4> QED BY <1>1, <4>1, SubSeqEmpty
    <3>2. CASE cursor[f] # since[f]
      <4> DEFINE a == since[f] + 1
                 c == cursor[f]
      <4>1. a \in 1..(Len(lines) + 1) /\ c \in (a - 1)..Len(lines)
            /\ a \in 1..(Len(lines') + 1) /\ c \in (a - 1)..Len(lines')
        BY <1>1, <1>2, <1>5, <3>2
      <4> HIDE DEF a, c
      <4>2. /\ SubSeq(lines, a, c) \in Seq(Event \cup {Torn})
            /\ Len(SubSeq(lines, a, c)) = c - a + 1
            /\ \A i \in 1..(c - a + 1) : SubSeq(lines, a, c)[i] = lines[a + i - 1]
        BY <1>1, <4>1, SubSeqProperties
      <4>3. /\ SubSeq(lines', a, c) \in Seq(Event \cup {Torn})
            /\ Len(SubSeq(lines', a, c)) = c - a + 1
            /\ \A i \in 1..(c - a + 1) : SubSeq(lines', a, c)[i] = lines'[a + i - 1]
        BY <1>2, <4>1, SubSeqProperties
      <4>4. \A i \in 1..(c - a + 1) : lines'[a + i - 1] = lines[a + i - 1]
        <5>1. \A i \in 1..(c - a + 1) : a + i - 1 \in 1..Len(lines)
          BY <1>1, <4>1
        <5> QED BY <1>2, <5>1
      <4>5. SubSeq(lines', a, c) = SubSeq(lines, a, c)
        BY <4>2, <4>3, <4>4, SeqEqual
      <4> QED BY <4>5 DEF a, c
    <3> QED BY <3>1, <3>2
  <2> QED BY <1>5, <2>1, <2>2
<1>9. SentInv(f)'
  BY <1>1, <1>2, <1>4, <1>5, <1>7, <1>8 DEF SentInv
<1>10. ASSUME fpc'[f] = fpc[f] PROVE FinalInv(f)'
  <2>1. fpc[f] \in {"final", "final_flushed", "ended"} => terminal'
    BY DEF FinalInv
  <2>2. fpc[f] \in {"final_flushed", "ended"} => \A e \in Elems(buf') : e > mark
    BY <1>2 DEF FinalInv
  <2>3. ASSUME fpc[f] = "ended", NEW i \in Expected(since[f])', lines'[i] <= mark
        PROVE  lines'[i] \in Elems(got[f])
    <3>1. CASE i <= Len(lines)
      BY <1>6, <2>3, <3>1 DEF FinalInv
    <3>2. CASE ~(i <= Len(lines))
      <4>1. lines'[i] \in E
        BY <1>1, <1>2, <1>3, <3>2
      <4>2. lines'[i] > mark
        BY <2>3, <4>1 DEF FinalInv
      <4>3. lines'[i] \in Nat
        BY <1>1, <1>2, <1>3, ElementOfSeq, BoundsAssumption DEF Event, Torn
      <4> QED BY <1>1, <2>3, <4>2, <4>3
    <3> QED BY <3>1, <3>2
  <2> QED BY <1>4, <1>10, <2>1, <2>2, <2>3 DEF FinalInv
<1> QED BY <1>9, <1>10

\* What tail returns from where the cursor stands: the readable lines behind it.
LEMMA ReadIsRight ==
    ASSUME LogTypeOK, NEW c \in Nat
    PROVE  /\ Read(c) \in Seq(Event) /\ Len(Read(c)) \in Nat
           /\ c > Len(lines) => Len(Read(c)) = 0
           /\ c <= Len(lines) => c + Len(Read(c)) <= Len(lines)
           /\ \A i \in (c + 1)..Len(lines) : lines[i] # Torn => lines[i] \in Elems(Read(c))
           /\ Torn \notin Elems(lines) => Read(c) = SubSeq(lines, c + 1, Len(lines))
<1> DEFINE n == Len(lines)
           a == c + 1
           s == SubSeq(lines, a, n)
<1>1. /\ n \in Nat /\ lines \in Seq(Event \cup {Torn}) /\ DOMAIN lines = 1..n
      /\ \A i \in 1..n : lines[i] \in Event \cup {Torn}
  BY LenProperties, ElementOfSeq DEF LogTypeOK
<1>2. a \in Nat /\ a = c + 1 /\ s = SubSeq(lines, c + 1, Len(lines))
  OBVIOUS
<1>3. s = SubSeq(lines, a, n)
  OBVIOUS
<1> HIDE DEF a, s, n
<1>4. /\ s \in Seq(Event \cup {Torn})
      /\ Len(s) = IF a <= n THEN n - a + 1 ELSE 0
      /\ \A i \in 1..(n - a + 1) : s[i] = lines[a + i - 1]
  <2>1. \A i \in a..n : lines[i] \in Event \cup {Torn}
    BY <1>1, <1>2
  <2>2. a \in Int /\ n \in Int
    BY <1>1, <1>2
  <2> QED BY <1>3, <2>1, <2>2, SubSeqProperties
<1>5. /\ Readable(s) \in Seq(Event) /\ Len(Readable(s)) <= Len(s)
      /\ \A e \in Event : e \in Elems(Readable(s)) <=> \E i \in 1..Len(s) : s[i] = e
      /\ (\A i \in 1..Len(s) : s[i] # Torn) => Readable(s) = s
  BY <1>4, ReadableIsRight
<1>6. Read(c) = Readable(s)
  BY <1>2 DEF Read
<1>7. Len(Read(c)) \in Nat
  BY <1>5, <1>6, LenProperties
<1>8. (c > n => Len(Read(c)) = 0) /\ (c <= n => c + Len(Read(c)) <= n)
  BY <1>1, <1>2, <1>4, <1>5, <1>6, <1>7
<1>9. ASSUME NEW i \in (c + 1)..n, lines[i] # Torn PROVE lines[i] \in Elems(Read(c))
  <2>a. a \in Nat /\ n \in Nat /\ a = c + 1 /\ i \in a..n
    BY <1>1, <1>2
  <2>b. i \in Nat /\ a <= i /\ i <= n
    BY <2>a
  <2>c. Len(s) = n - a + 1
    BY <1>4, <2>a, <2>b
  <2>1. i - c \in 1..Len(s) /\ i - c \in 1..(n - a + 1) /\ a + (i - c) - 1 = i
    BY <2>a, <2>b, <2>c
  <2>2. s[i - c] = lines[i]
    BY <1>4, <2>1
  <2>3. lines[i] \in Event
    BY <1>1, <1>9
  <2> QED BY <1>5, <1>6, <2>1, <2>2, <2>3
<1>10. ASSUME Torn \notin Elems(lines) PROVE Read(c) = s
  <2>1. ASSUME NEW i \in 1..Len(s) PROVE s[i] # Torn
    <3>1. i \in 1..(n - a + 1) /\ a + i - 1 \in 1..n
      BY <1>1, <1>2, <1>4, <2>1
    <3> QED BY <1>1, <1>4, <1>10, <3>1 DEF Elems
  <2> QED BY <1>5, <1>6, <2>1
<1> QED BY <1>2, <1>5, <1>6, <1>7, <1>8, <1>9, <1>10 DEF n

\* Two adjoining pieces of a sequence.
LEMMA SubSeqSplit ==
    ASSUME NEW S, NEW s \in Seq(S), NEW a \in Nat, NEW c \in Nat, a <= c,
           c = a \/ c <= Len(s)
    PROVE  c <= Len(s) =>
             SubSeq(s, a + 1, c) \o SubSeq(s, c + 1, Len(s)) = SubSeq(s, a + 1, Len(s))
<1> DEFINE n == Len(s)
           u == SubSeq(s, a + 1, c)
           v == SubSeq(s, c + 1, n)
           w == SubSeq(s, a + 1, n)
<1>1. SUFFICES ASSUME c <= n PROVE u \o v = w
  OBVIOUS
<1>2. n \in Nat /\ \A i \in 1..n : s[i] \in S
  BY ElementOfSeq, LenProperties
<1>3. u \in Seq(S) /\ Len(u) = c - a /\ \A i \in 1..(c - a) : u[i] = s[a + i]
  <2>1. ASSUME NEW i \in (a + 1)..c PROVE s[i] \in S
    BY <1>1, <1>2, <2>1
  <2> HIDE DEF u
  <2>2. /\ SubSeq(s, a + 1, c) \in Seq(S)
        /\ Len(SubSeq(s, a + 1, c)) = IF a + 1 <= c THEN c - (a + 1) + 1 ELSE 0
        /\ \A i \in 1..(c - (a + 1) + 1) : SubSeq(s, a + 1, c)[i] = s[(a + 1) + i - 1]
    BY <2>1, SubSeqProperties
  <2>3. (a + 1 <= c => c - (a + 1) + 1 = c - a) /\ (~(a + 1 <= c) => c - a = 0)
        /\ c - (a + 1) + 1 = c - a /\ \A i \in 1..(c - a) : (a + 1) + i - 1 = a + i
    OBVIOUS
  <2> QED BY <2>2, <2>3 DEF u
<1>4. v \in Seq(S) /\ Len(v) = n - c /\ \A i \in 1..(n - c) : v[i] = s[c + i]
  <2>1. ASSUME NEW i \in (c + 1)..n PROVE s[i] \in S
    BY <1>1, <1>2, <2>1
  <2>0. v = SubSeq(s, c + 1, n)
    OBVIOUS
  <2> HIDE DEF v, n
  <2>2. /\ SubSeq(s, c + 1, n) \in Seq(S)
        /\ Len(SubSeq(s, c + 1, n)) = IF c + 1 <= n THEN n - (c + 1) + 1 ELSE 0
        /\ \A i \in 1..(n - (c + 1) + 1) : SubSeq(s, c + 1, n)[i] = s[(c + 1) + i - 1]
    BY <1>2, <2>1, SubSeqProperties
  <2>3. (c + 1 <= n => n - (c + 1) + 1 = n - c) /\ (~(c + 1 <= n) => n - c = 0)
        /\ n - (c + 1) + 1 = n - c /\ \A i \in 1..(n - c) : (c + 1) + i - 1 = c + i
    BY <1>1, <1>2
  <2> QED BY <2>0, <2>2, <2>3
<1>5. w \in Seq(S) /\ Len(w) = n - a /\ \A i \in 1..(n - a) : w[i] = s[a + i]
  <2>1. ASSUME NEW i \in (a + 1)..n PROVE s[i] \in S
    BY <1>1, <1>2, <2>1
  <2>0. w = SubSeq(s, a + 1, n)
    OBVIOUS
  <2> HIDE DEF w, n
  <2>2. /\ SubSeq(s, a + 1, n) \in Seq(S)
        /\ Len(SubSeq(s, a + 1, n)) = IF a + 1 <= n THEN n - (a + 1) + 1 ELSE 0
        /\ \A i \in 1..(n - (a + 1) + 1) : SubSeq(s, a + 1, n)[i] = s[(a + 1) + i - 1]
    BY <1>2, <2>1, SubSeqProperties
  <2>3. (a + 1 <= n => n - (a + 1) + 1 = n - a) /\ (~(a + 1 <= n) => n - a = 0)
        /\ n - (a + 1) + 1 = n - a /\ \A i \in 1..(n - a) : (a + 1) + i - 1 = a + i
    BY <1>1, <1>2
  <2> QED BY <2>0, <2>2, <2>3
<1> HIDE DEF u, v, w, n
<1>6. /\ u \o v \in Seq(S) /\ Len(u \o v) = n - a
      /\ \A i \in 1..(n - a) : (u \o v)[i] = IF i <= c - a THEN u[i] ELSE v[i - (c - a)]
  <2>1. /\ u \o v \in Seq(S) /\ Len(u \o v) = Len(u) + Len(v)
        /\ \A i \in 1..(Len(u) + Len(v)) : (u \o v)[i] = IF i <= Len(u) THEN u[i] ELSE v[i - Len(u)]
    BY <1>3, <1>4, ConcatProperties
  <2>2. Len(u) + Len(v) = n - a
    BY <1>2, <1>3, <1>4
  <2> QED BY <1>3, <2>1, <2>2
<1>7. ASSUME NEW i \in 1..(n - a) PROVE (u \o v)[i] = w[i]
  <2>1. CASE i <= c - a
    BY <1>2, <1>3, <1>5, <1>6, <2>1
  <2>2. CASE ~(i <= c - a)
    <3>1. i - (c - a) \in 1..(n - c) /\ c + (i - (c - a)) = a + i
      BY <1>1, <1>2, <2>2
    <3>2. v[i - (c - a)] = s[a + i]
      BY <1>4, <3>1
    <3> QED BY <1>5, <1>6, <2>2, <3>2
  <2> QED BY <2>1, <2>2
<1> QED BY <1>5, <1>6, <1>7, SeqEqual

\* A read moves the cursor over what it sends.
LEMMA ReadKeeps ==
    ASSUME LogTypeOK, NEW f \in Followers, SentInv(f), FinalInv(f), TailRead(f)
    PROVE  SentInv(f)' /\ FinalInv(f)'
<1> DEFINE c == cursor[f]
           r == Read(c)
           n == Len(lines)
<1>1. /\ n \in Nat /\ lines \in Seq(Event \cup {Torn}) /\ DOMAIN lines = 1..n
      /\ since[f] \in Nat /\ c \in Nat /\ got[f] \in Seq(Event) /\ DOMAIN got[f] = 1..Len(got[f])
      /\ Len(got[f]) \in Nat
      /\ \A i \in 1..n : lines[i] \in Event \cup {Torn}
  BY LenProperties, ElementOfSeq DEF LogTypeOK
<1>2. /\ r \in Seq(Event) /\ Len(r) \in Nat
      /\ c > n => Len(r) = 0
      /\ c <= n => c + Len(r) <= n
      /\ \A i \in (c + 1)..n : lines[i] # Torn => lines[i] \in Elems(r)
      /\ Torn \notin Elems(lines) => r = SubSeq(lines, c + 1, n)
  <2>1. c \in Nat
    BY <1>1
  <2> HIDE DEF c
  <2> QED BY <2>1, ReadIsRight
<1>3. /\ got'[f] = got[f] \o r /\ cursor'[f] = c + Len(r)
      /\ UNCHANGED <<lines, half, buf, synced, last, terminal, mark, since>>
      /\ \/ fpc[f] = "poll_flushed" /\ fpc'[f] = "delivered"
         \/ fpc[f] = "final_flushed" /\ fpc'[f] = "ended"
  <2>1. got \in [Followers -> Seq(Event)] /\ cursor \in [Followers -> Nat]
        /\ fpc \in [Followers -> {"off", "gone", "ended"} \cup Polling \cup Finishing]
    BY DEF LogTypeOK
  <2> HIDE DEF r
  <2> QED BY <2>1 DEF TailRead, StreamGoto, fileVars, taskVars, r
<1>4. /\ since[f] <= c
      /\ c = since[f] \/ c <= n
      /\ \A i \in Expected(since[f]) : i <= c => lines[i] \in Elems(got[f])
      /\ Torn \notin Elems(lines) => got[f] = SubSeq(lines, since[f] + 1, c)
  BY DEF SentInv
<1>5. Expected(since[f]) = {i \in 1..n : i > since[f] /\ lines[i] # Torn}
      /\ Expected(since[f])' = Expected(since[f]) /\ Elems(lines)' = Elems(lines)
  BY <1>1, <1>3 DEF Expected, Elems
<1> HIDE DEF c, r, n
<1>6. Elems(got[f]) \subseteq Elems(got'[f]) /\ Elems(r) \subseteq Elems(got'[f])
  <2>1. /\ got'[f] \in Seq(Event) /\ Len(got'[f]) = Len(got[f]) + Len(r)
        /\ \A i \in 1..(Len(got[f]) + Len(r)) :
              got'[f][i] = IF i <= Len(got[f]) THEN got[f][i] ELSE r[i - Len(got[f])]
    BY <1>1, <1>2, <1>3, ConcatProperties
  <2>2. DOMAIN got'[f] = 1..(Len(got[f]) + Len(r)) /\ DOMAIN r = 1..Len(r)
    BY <1>2, <2>1, LenProperties
  <2>3. ASSUME NEW i \in 1..Len(got[f]) PROVE got[f][i] \in Elems(got'[f])
    <3>1. i \in 1..(Len(got[f]) + Len(r)) /\ i <= Len(got[f])
      BY <1>1, <1>2, <2>3
    <3> QED BY <2>1, <2>2, <3>1 DEF Elems
  <2>4. ASSUME NEW i \in 1..Len(r) PROVE r[i] \in Elems(got'[f])
    <3> DEFINE j == i + Len(got[f])
    <3>1. j \in 1..(Len(got[f]) + Len(r)) /\ ~(j <= Len(got[f])) /\ j - Len(got[f]) = i
      BY <1>1, <1>2, <2>4
    <3> HIDE DEF j
    <3>2. got'[f][j] = r[i]
      BY <2>1, <3>1
    <3> QED BY <2>2, <3>1, <3>2 DEF Elems
  <2> QED BY <1>1, <2>2, <2>3, <2>4 DEF Elems
<1>7. ASSUME NEW i \in Expected(since[f]) PROVE lines[i] \in Elems(got'[f])
  <2>1. CASE i <= c
    BY <1>4, <1>6, <2>1
  <2>2. CASE ~(i <= c)
    <3>1. i \in (c + 1)..n /\ lines[i] # Torn
      BY <1>1, <1>5, <2>2
    <3> QED BY <1>2, <1>6, <3>1
  <2> QED BY <2>1, <2>2
<1>8. ASSUME Torn \notin Elems(lines) PROVE got'[f] = SubSeq(lines, since[f] + 1, c + Len(r))
  <2>1. CASE c <= n
    <3>1. Len(r) = n - c
      <4>1. c + 1 \in Int /\ n \in Int /\ \A i \in (c + 1)..n : lines[i] \in Event \cup {Torn}
        BY <1>1
      <4>2. Len(SubSeq(lines, c + 1, n)) = IF c + 1 <= n THEN n - (c + 1) + 1 ELSE 0
        BY <4>1, SubSeqProperties
      <4>3. Len(r) = IF c + 1 <= n THEN n - (c + 1) + 1 ELSE 0
        BY <1>2, <1>8, <4>2
      <4> QED BY <1>1, <2>1, <4>3
    <3>2. c + Len(r) = n
      BY <1>1, <3>1
    <3>3. SubSeq(lines, since[f] + 1, c) \o SubSeq(lines, c + 1, n) = SubSeq(lines, since[f] + 1, n)
      BY <1>1, <1>4, <2>1, SubSeqSplit DEF n
    <3> QED BY <1>2, <1>3, <1>4, <1>8, <3>2, <3>3
  <2>2. CASE ~(c <= n)
    <3>1. Len(r) = 0 /\ c = since[f] /\ r = <<>>
      BY <1>1, <1>2, <1>4, <2>2, EmptySeq
    <3>2. got'[f] = got[f] /\ c + Len(r) = c
      BY <1>1, <1>3, <3>1, ConcatEmptySeq
    <3> QED BY <1>4, <1>8, <3>2
  <2> QED BY <2>1, <2>2
<1>9. SentInv(f)'
  <2>1. since[f] <= c + Len(r) /\ (c + Len(r) = since[f] \/ c + Len(r) <= n)
    BY <1>1, <1>2, <1>4
  <2> QED BY <1>3, <1>5, <1>7, <1>8, <2>1 DEF SentInv, n
<1>10. FinalInv(f)'
  BY <1>3, <1>5, <1>7 DEF FinalInv
<1> QED BY <1>9, <1>10

\* What a growing file leaves of the types.
LEMMA GrownTypes ==
    ASSUME LogTypeOK, NEW E, Grown(E)
    PROVE  /\ lines' \in Seq(Event \cup {Torn}) /\ half' \in {"none", "live", "dead"}
           /\ buf' \in Seq(Event) /\ synced \in 0..Len(lines') /\ Len(lines') \in Nat
           /\ (half' = "live" => buf' # <<>>)
<1>1. Len(lines) \in Nat /\ Len(lines') \in Nat
  BY LenProperties DEF LogTypeOK, Grown
<1> QED BY <1>1 DEF LogTypeOK, Grown

\* Every step of the log and of its streams keeps LogInv.
LEMMA LogStep == LogInv /\ [LogNext]_logVars => LogInv'
<1> SUFFICES ASSUME LogInv, [LogNext]_logVars PROVE LogInv'
  OBVIOUS
<1>0. LogTypeOK /\ \A f \in Followers : fpc[f] # "off" => SentInv(f) /\ FinalInv(f)
  BY DEF LogInv
<1>t. /\ last \in 0..MaxEvents /\ mark \in 0..last /\ mark \in Nat /\ last \in Nat
      /\ MaxEvents \in Nat /\ MaxCrashes \in Nat /\ terminal \in BOOLEAN
      /\ fpc \in [Followers -> {"off", "gone", "ended"} \cup Polling \cup Finishing]
      /\ since \in [Followers -> Nat] /\ cursor \in [Followers -> Nat]
      /\ got \in [Followers -> Seq(Event)] /\ crashes \in 0..MaxCrashes
      /\ lines \in Seq(Event \cup {Torn}) /\ Len(lines) \in Nat
      /\ buf \in Seq(Event) /\ half \in {"none", "live", "dead"} /\ synced \in 0..Len(lines)
      /\ (half = "live" => buf # <<>>)
  BY <1>0, BoundsAssumption, LenProperties DEF LogTypeOK
<1>1. CASE AppendEvent
  <2>1. /\ last < MaxEvents /\ last' = last + 1
        /\ UNCHANGED <<synced, terminal, mark, crashes, followerVars>>
    BY <1>1 DEF AppendEvent
  <2> DEFINE b == Append(buf, last + 1)
  <2>2. PICK k \in 0..Len(b), p \in BOOLEAN : (p => k < Len(b)) /\ Spilled(b, k, p)
    BY <1>1 DEF AppendEvent
  <2>3. last + 1 \in Event
    BY <1>t, <2>1 DEF Event
  <2>4. /\ b \in Seq(Event) /\ Len(b) = Len(buf) + 1 /\ Len(buf) \in Nat
        /\ \A i \in 1..Len(buf) : b[i] = buf[i]
        /\ b[Len(buf) + 1] = last + 1
    BY <1>t, <2>3, AppendProperties, LenProperties
  <2> HIDE DEF b
  <2>5. b # <<>> /\ DOMAIN b = 1..(Len(buf) + 1) /\ DOMAIN buf = 1..Len(buf)
    BY <1>t, <2>4, LenProperties, EmptySeq
  <2>6. Grown(Elems(b))
    BY <1>0, <2>2, <2>4, <2>5, SpilledGrows
  <2>7. \A e \in Elems(b) : e \in Elems(buf) \/ e > mark
    BY <1>t, <2>4, <2>5 DEF Elems
  <2>8. ASSUME NEW f \in Followers, fpc'[f] # "off" PROVE SentInv(f)' /\ FinalInv(f)'
    <3>1. fpc' = fpc /\ UNCHANGED <<terminal, mark, since, cursor, got>>
      BY <2>1 DEF followerVars
    <3> QED BY <1>0, <2>6, <2>7, <2>8, <3>1, GrownKeeps
  <2>9. LogTypeOK'
    <3>1. last' \in 0..MaxEvents /\ mark' \in 0..last'
      BY <1>t, <2>1
    <3> QED BY <1>0, <1>t, <2>1, <2>6, <3>1, GrownTypes DEF LogTypeOK, followerVars
  <2> QED BY <2>8, <2>9 DEF LogInv
<1>2. CASE FsyncWorker
  <2>1. Grown(Elems(buf)) /\ Len(lines') \in Nat
    BY <1>0, <1>2, FlushedGrows DEF FsyncWorker
  <2>2. /\ synced' = Len(lines')
        /\ UNCHANGED <<last, terminal, mark, crashes, fpc, since, cursor, got>>
    BY <1>2 DEF FsyncWorker, taskVars, followerVars
  <2>3. ASSUME NEW f \in Followers, fpc'[f] # "off" PROVE SentInv(f)' /\ FinalInv(f)'
    BY <1>0, <2>1, <2>2, <2>3, GrownKeeps
  <2>4. LogTypeOK'
    BY <1>0, <1>t, <2>1, <2>2, GrownTypes DEF LogTypeOK
  <2> QED BY <2>3, <2>4 DEF LogInv
<1>3. CASE SetTerminal
  <2>1. ~terminal /\ terminal' = TRUE /\ mark' = last
        /\ UNCHANGED <<lines, half, buf, synced, last, crashes, fpc, since, cursor, got>>
    BY <1>3 DEF SetTerminal, fileVars, followerVars
  <2>2. ASSUME NEW f \in Followers, fpc'[f] # "off" PROVE SentInv(f)' /\ FinalInv(f)'
    <3>1. SentInv(f) /\ FinalInv(f)
      BY <1>0, <2>1, <2>2
    <3>2. SentInv(f)'
      BY <2>1, <3>1 DEF SentInv, Expected, Elems
    <3>3. fpc'[f] \notin {"final", "final_flushed", "ended"}
      BY <2>1, <3>1 DEF FinalInv
    <3> QED BY <3>2, <3>3 DEF FinalInv
  <2>3. LogTypeOK'
    BY <1>0, <1>t, <2>1 DEF LogTypeOK
  <2> QED BY <2>2, <2>3 DEF LogInv
<1>4. CASE Crash
  <2>1. /\ crashes < MaxCrashes /\ crashes' = crashes + 1
        /\ buf' = <<>> /\ terminal' = FALSE /\ mark' = 0
        /\ fpc' = [f \in Followers |-> "off"]
        /\ UNCHANGED <<synced, last, since, cursor, got>>
    BY <1>4 DEF Crash
  <2>2. /\ lines' \in Seq(Event \cup {Torn}) /\ half' \in {"none", "dead"}
        /\ synced \in 0..Len(lines')
    <3>1. CASE lines' = lines /\ half' = IF half = "none" THEN "none" ELSE "dead"
      BY <1>t, <3>1
    <3>2. CASE \E k \in synced..Len(lines) :
                  /\ lines' = SubSeq(lines, 1, k)
                  /\ half' \in {"none"} \cup {h \in {"dead"} : k < Len(lines)}
      <4>1. PICK k \in synced..Len(lines) :
                  /\ lines' = SubSeq(lines, 1, k)
                  /\ half' \in {"none"} \cup {h \in {"dead"} : k < Len(lines)}
        BY <3>2
      <4>2. k \in Nat /\ k <= Len(lines) /\ synced <= k /\ synced \in Nat
        BY <1>t
      <4>3. \A i \in 1..k : lines[i] \in Event \cup {Torn}
        BY <1>t, <4>2, ElementOfSeq
      <4>4. lines' \in Seq(Event \cup {Torn}) /\ Len(lines') = IF 1 <= k THEN k - 1 + 1 ELSE 0
        BY <4>1, <4>2, <4>3, SubSeqProperties
      <4>5. Len(lines') = k
        BY <4>2, <4>4
      <4> QED BY <4>1, <4>2, <4>4, <4>5
    <3> QED BY <1>4, <3>1, <3>2 DEF Crash
  <2>3. LogTypeOK'
    <3>1. /\ buf' \in Seq(Event) /\ terminal' \in BOOLEAN /\ mark' \in 0..last'
          /\ crashes' \in 0..MaxCrashes
          /\ fpc' \in [Followers -> {"off", "gone", "ended"} \cup Polling \cup Finishing]
      <4>1. crashes' \in 0..MaxCrashes /\ 0 \in 0..last' /\ <<>> \in Seq(Event)
        BY <1>t, <2>1
      <4>2. fpc' \in [Followers -> {"off", "gone", "ended"} \cup Polling \cup Finishing]
        BY <2>1
      <4> QED BY <2>1, <4>1, <4>2
    <3> QED BY <1>t, <2>1, <2>2, <3>1 DEF LogTypeOK
  <2> QED BY <2>1, <2>3 DEF LogInv
<1>5. ASSUME NEW f \in Followers, Attach(f) PROVE LogInv'
  <2>1. PICK s \in Starts : /\ since' = [since EXCEPT ![f] = s]
                            /\ cursor' = [cursor EXCEPT ![f] = s]
    BY <1>5 DEF Attach
  <2>2. /\ fpc' = [fpc EXCEPT ![f] = "poll"] /\ got' = [got EXCEPT ![f] = <<>>]
        /\ UNCHANGED <<lines, half, buf, synced, last, terminal, mark, crashes>>
    BY <1>5 DEF Attach, StreamGoto, fileVars, taskVars
  <2>3. s \in Nat
    BY BoundsAssumption
  <2>4. LogTypeOK'
    BY <1>0, <1>t, <2>1, <2>2, <2>3 DEF LogTypeOK, Polling, Finishing
  <2>5. ASSUME NEW g \in Followers, fpc'[g] # "off" PROVE SentInv(g)' /\ FinalInv(g)'
    <3>1. CASE g = f
      <4>1. fpc'[g] = "poll" /\ got'[g] = <<>> /\ since'[g] = s /\ cursor'[g] = s
        BY <1>t, <2>1, <2>2, <3>1
      <4>2. SubSeq(lines', s + 1, s) = <<>>
        BY <2>3, SubSeqEmpty
      <4>3. \A i \in Expected(since[g])' : ~(i <= s)
        BY <1>t, <2>2, <2>3, <4>1, LenProperties DEF Expected
      <4> QED BY <2>3, <4>1, <4>2, <4>3 DEF SentInv, FinalInv
    <3>2. CASE g # f
      <4>1. fpc'[g] = fpc[g] /\ got'[g] = got[g] /\ since'[g] = since[g] /\ cursor'[g] = cursor[g]
        BY <1>t, <2>1, <2>2, <3>2
      <4> QED BY <1>0, <2>2, <2>5, <4>1 DEF SentInv, FinalInv, Expected, Elems
    <3> QED BY <3>1, <3>2
  <2> QED BY <2>4, <2>5 DEF LogInv
<1>6. ASSUME NEW f \in Followers, Disconnect(f) \/ CheckHandle(f) PROVE LogInv'
  <2>1. /\ UNCHANGED <<lines, half, buf, synced, last, terminal, mark, crashes, since, cursor, got>>
        /\ fpc[f] # "off"
        /\ \E to \in {"gone", "final", "poll"} :
              fpc' = [fpc EXCEPT ![f] = to] /\ (to = "final" => terminal)
    BY <1>6 DEF Disconnect, CheckHandle, StreamGoto, fileVars, taskVars, Polling, Finishing
  <2>2. LogTypeOK'
    BY <1>0, <1>t, <2>1 DEF LogTypeOK, Polling, Finishing
  <2>3. ASSUME NEW g \in Followers, fpc'[g] # "off" PROVE SentInv(g)' /\ FinalInv(g)'
    <3>1. fpc[g] # "off" /\ (\/ fpc'[g] = fpc[g] \/ fpc'[g] \in {"gone", "poll"}
                             \/ (fpc'[g] = "final" /\ terminal))
      <4>1. PICK to \in {"gone", "final", "poll"} :
               fpc' = [fpc EXCEPT ![f] = to] /\ (to = "final" => terminal)
        BY <2>1, Zenon
      <4>2. fpc'[g] = IF g = f THEN to ELSE fpc[g]
        BY <1>t, <4>1
      <4>3. fpc[f] # "off"
        BY <2>1, Zenon
      <4> QED BY <2>3, <4>1, <4>2, <4>3
    <3>2. SentInv(g) /\ FinalInv(g)
      BY <1>0, <3>1
    <3>3. SentInv(g)'
      BY <2>1, <3>2 DEF SentInv, Expected, Elems
    <3>4. FinalInv(g)'
      BY <2>1, <3>1, <3>2 DEF FinalInv, Expected, Elems
    <3> QED BY <3>3, <3>4
  <2> QED BY <2>2, <2>3 DEF LogInv
<1>7. ASSUME NEW f \in Followers, TailFlush(f) PROVE LogInv'
  <2>1. Grown(Elems(buf)) /\ Elems(buf') = {} /\ Len(lines') \in Nat
    BY <1>0, <1>7, FlushedGrows DEF TailFlush
  <2>2. /\ UNCHANGED <<synced, last, terminal, mark, crashes, since, cursor, got>>
        /\ \/ fpc[f] = "poll" /\ fpc' = [fpc EXCEPT ![f] = "poll_flushed"]
           \/ fpc[f] = "final" /\ fpc' = [fpc EXCEPT ![f] = "final_flushed"]
    BY <1>7 DEF TailFlush, StreamGoto, taskVars
  <2>3. LogTypeOK'
    <3>1. fpc' \in [Followers -> {"off", "gone", "ended"} \cup Polling \cup Finishing]
      BY <1>t, <2>2 DEF Polling, Finishing
    <3> QED BY <1>0, <1>t, <2>1, <2>2, <3>1, GrownTypes DEF LogTypeOK
  <2>4. ASSUME NEW g \in Followers, fpc'[g] # "off" PROVE SentInv(g)' /\ FinalInv(g)'
    <3>1. /\ fpc[g] # "off"
          /\ \/ fpc'[g] = fpc[g] \/ fpc'[g] = "poll_flushed"
             \/ (fpc[g] = "final" /\ fpc'[g] = "final_flushed")
      BY <1>t, <2>2, <2>4
    <3>2. SentInv(g) /\ FinalInv(g)
      BY <1>0, <3>1
    <3>3. SentInv(g)' /\ (fpc'[g] = fpc[g] => FinalInv(g)')
      BY <1>0, <2>1, <2>2, <3>2, GrownKeeps
    <3>4. fpc'[g] # fpc[g] => FinalInv(g)'
      BY <2>1, <2>2, <3>1, <3>2 DEF FinalInv
    <3> QED BY <3>3, <3>4
  <2> QED BY <2>3, <2>4 DEF LogInv
<1>8. ASSUME NEW f \in Followers, TailRead(f) PROVE LogInv'
  <2>1. /\ UNCHANGED <<lines, half, buf, synced, last, terminal, mark, crashes, since>>
        /\ got' = [got EXCEPT ![f] = @ \o Read(cursor[f])]
        /\ cursor' = [cursor EXCEPT ![f] = @ + Len(Read(cursor[f]))]
        /\ \/ fpc[f] = "poll_flushed" /\ fpc' = [fpc EXCEPT ![f] = "delivered"]
           \/ fpc[f] = "final_flushed" /\ fpc' = [fpc EXCEPT ![f] = "ended"]
    BY <1>8 DEF TailRead, StreamGoto, fileVars, taskVars
  <2>2. Read(cursor[f]) \in Seq(Event) /\ Len(Read(cursor[f])) \in Nat
    BY <1>0, <1>t, ReadIsRight
  <2>3. LogTypeOK'
    <3>1. fpc' \in [Followers -> {"off", "gone", "ended"} \cup Polling \cup Finishing]
      BY <1>t, <2>1 DEF Polling, Finishing
    <3>2. got[f] \o Read(cursor[f]) \in Seq(Event) /\ cursor[f] + Len(Read(cursor[f])) \in Nat
      BY <1>t, <2>2, ConcatProperties
    <3>3. got' \in [Followers -> Seq(Event)] /\ cursor' \in [Followers -> Nat]
      BY <1>t, <2>1, <3>2
    <3> QED BY <1>0, <1>t, <2>1, <3>1, <3>3 DEF LogTypeOK
  <2>4. ASSUME NEW g \in Followers, fpc'[g] # "off" PROVE SentInv(g)' /\ FinalInv(g)'
    <3>1. CASE g = f
      BY <1>0, <1>8, <2>1, <3>1, ReadKeeps
    <3>2. CASE g # f
      <4>1. fpc'[g] = fpc[g] /\ got'[g] = got[g] /\ since'[g] = since[g] /\ cursor'[g] = cursor[g]
        BY <1>t, <2>1, <3>2
      <4>2. SentInv(g) /\ FinalInv(g)
        BY <1>0, <2>4, <4>1
      <4>0. lines' = lines /\ buf' = buf /\ terminal' = terminal /\ mark' = mark
        BY <2>1
      <4>3. SentInv(g)'
        BY <4>0, <4>1, <4>2 DEF SentInv, Expected, Elems
      <4>4. FinalInv(g)'
        BY <4>0, <4>1, <4>2 DEF FinalInv, Expected, Elems
      <4> QED BY <4>3, <4>4
    <3> QED BY <3>1, <3>2
  <2> QED BY <2>3, <2>4 DEF LogInv
<1>9. CASE UNCHANGED logVars
  BY <1>0, <1>9 DEF LogInv, LogTypeOK, SentInv, FinalInv, Expected, Elems, logVars, fileVars,
     taskVars, followerVars
<1> QED BY <1>1, <1>2, <1>3, <1>4, <1>5, <1>6, <1>7, <1>8, <1>9 DEF LogNext, Stream

LEMMA LogHolds == LogSpec => []LogInv
<1>1. LogInit => LogInv
  <2>1. Len(<<>>) = 0 /\ 0..0 = {0}
    OBVIOUS
  <2>2. <<>> \in Seq(Event \cup {Torn}) /\ <<>> \in Seq(Event)
    OBVIOUS
  <2>3. SUFFICES ASSUME LogInit PROVE LogInv
    OBVIOUS
  <2>4. LogTypeOK
    <3>1. /\ lines = <<>> /\ half = "none" /\ buf = <<>> /\ synced = 0
          /\ last = 0 /\ terminal = FALSE /\ mark = 0 /\ crashes = 0
          /\ fpc \in [Followers -> {"off"}]
          /\ since \in [Followers -> Nat] /\ cursor \in [Followers -> Nat]
          /\ got \in [Followers -> Seq(Event)]
      BY <2>2, <2>3 DEF LogInit
    <3>2. fpc \in [Followers -> {"off", "gone", "ended"} \cup Polling \cup Finishing]
      BY <3>1
    <3>3. /\ synced \in 0..Len(lines) /\ last \in 0..MaxEvents /\ mark \in 0..last
          /\ crashes \in 0..MaxCrashes /\ terminal \in BOOLEAN
      <4>1. 0 \in 0..0 /\ 0 \in 0..MaxEvents /\ 0 \in 0..MaxCrashes
        BY BoundsAssumption
      <4>2. Len(lines) = 0
        BY <2>1, <3>1
      <4>3. synced \in 0..Len(lines) /\ mark \in 0..last
        BY <3>1, <4>1, <4>2
      <4>4. last \in 0..MaxEvents /\ crashes \in 0..MaxCrashes
        BY <3>1, <4>1
      <4>5. terminal \in BOOLEAN
        BY <3>1
      <4> QED BY <4>3, <4>4, <4>5
    <3>4. lines \in Seq(Event \cup {Torn}) /\ buf \in Seq(Event) /\ half # "live"
      BY <2>2, <3>1
    <3> QED BY <3>1, <3>2, <3>3, <3>4 DEF LogTypeOK
  <2>5. \A f \in Followers : fpc[f] = "off"
    BY <2>3 DEF LogInit
  <2> QED BY <2>4, <2>5 DEF LogInv
<1> QED BY <1>1, LogStep, PTL DEF LogSpec

\* The state of the event log and of its streams keeps its types.
THEOREM LogTypeCorrect == LogSpec => []LogTypeOK
<1>1. LogInv => LogTypeOK
  BY DEF LogInv
<1> QED BY <1>1, LogHolds, PTL

\* No client of attach_stream misses a readable event behind its cursor, and one
\* whose file no crash has damaged gets it as it is: tail skips lines, but what it
\* counts is never more than what it has read.
THEOREM StreamsSkipNothing == LogSpec => []SentAsWritten
<1>1. LogInv => SentAsWritten
  BY DEF LogInv, SentInv, SentAsWritten
<1> QED BY <1>1, LogHolds, PTL

\* The final read, which follows the check of the handle, makes a stream that
\* ends complete up to the moment the handle became terminal.
THEOREM EndedStreamsAreComplete == LogSpec => []EndedSawAll
<1>1. LogInv => EndedSawAll
  BY DEF LogInv, FinalInv, EndedSawAll
<1> QED BY <1>1, LogHolds, PTL

-----------------------------------------------------------------------------
(* The pump of an attached cloud stream *)

Lines == [kind : {"frame", "parse_error", "stream_cut", "dedup_drop", "fallback_to_poll"},
          at : Nat]

\* Frame j was not printed again too early.
Apart(j) ==
    \A i \in 1..(j - 1) :
        (received[j] # NoId /\ received[i] = received[j]) => Cardinality(Between(i, j)) >= LruMax

\* What has come after frame i.
After(i) == Between(i, Len(received) + 1)

\* The ids remembered are distinct and in the order in which they came last: what
\* is behind one of them came after each of its frames.  An id forgotten has had
\* LruMax others after it.
LruInv ==
    /\ Distinct(lru) /\ NoId \notin Elems(lru)
    /\ \A i \in DOMAIN received, p, q \in DOMAIN lru :
         (lru[p] = received[i] /\ p < q) => lru[q] \in After(i)
    /\ \A i \in DOMAIN received :
         received[i] \notin Elems(lru) \cup {NoId} => Cardinality(After(i)) >= LruMax

PrintedInv ==
    /\ printed \in Seq(Lines)
    /\ \A p \in DOMAIN printed :
         printed[p].kind = "frame" => printed[p].at \in DOMAIN received /\ Apart(printed[p].at)

PumpInv == StreamTypeOK /\ LruInv /\ PrintedInv

\* The ids remembered after one has come: it is the newest, the others keep their
\* order, and when one is forgotten the rest fill the window.
LEMMA RememberedIs ==
    ASSUME NEW S, lru \in Seq(S), Len(lru) <= LruMax, Distinct(lru), NEW id \in S
    PROVE  LET r == Remembered(id)
           IN  /\ r \in Seq(S) /\ Len(r) <= LruMax /\ Len(r) \in Nat /\ Len(r) >= 1
               /\ Distinct(r) /\ r[Len(r)] = id
               /\ Elems(r) \subseteq Elems(lru) \cup {id}
               /\ \A p, q \in DOMAIN r : (p < q /\ q < Len(r)) =>
                     \E a, b \in DOMAIN lru : a < b /\ r[p] = lru[a] /\ r[q] = lru[b]
               /\ \/ Elems(lru) \subseteq Elems(r)
                  \/ /\ Len(r) = LruMax /\ id \notin Elems(lru) /\ Len(lru) = LruMax
                     /\ Elems(lru) \subseteq Elems(r) \cup {lru[1]} /\ 1 \in DOMAIN lru
                     /\ \A p \in DOMAIN r : r[p] = id \/ \E b \in DOMAIN lru : 1 < b /\ r[p] = lru[b]
<1> DEFINE n == Len(lru)
<1>0. /\ n \in Nat /\ DOMAIN lru = 1..n /\ LruMax \in Nat /\ LruMax >= 1 /\ n <= LruMax
      /\ \A i \in 1..n : lru[i] \in S
  BY StreamAssumption, LenProperties, ElementOfSeq
<1> HIDE DEF n
<1>1. CASE Seen(id)
  <2> DEFINE k == CHOOSE i \in DOMAIN lru : lru[i] = id
             r == MovedToEnd(lru, k)
  <2>1. k \in 1..n /\ lru[k] = id
    <3>1. \E i \in DOMAIN lru : lru[i] = id
      BY <1>1 DEF Seen
    <3> QED BY <1>0, <3>1
  <2>2. Remembered(id) = r
    BY <1>1 DEF Remembered
  <2> HIDE DEF k
  <2>3. /\ r = [j \in 1..n |-> IF j < k THEN lru[j] ELSE IF j < n THEN lru[j + 1] ELSE lru[k]]
    BY <1>0 DEF MovedToEnd, n
  <2> HIDE DEF r
  <2>4. \A j \in 1..n : /\ j < k => r[j] = lru[j]
                        /\ (~(j < k) /\ j < n) => r[j] = lru[j + 1]
                        /\ j = n => r[j] = lru[k]
    BY <1>0, <2>1, <2>3
  <2>5. r \in Seq(S) /\ Len(r) = n /\ DOMAIN r = 1..n
    <3>1. \A j \in 1..n : r[j] \in S
      BY <1>0, <2>1, <2>3
    <3>2. DOMAIN r = 1..n /\ r = [j \in 1..n |-> r[j]]
      BY <2>3
    <3> QED BY <1>0, <3>1, <3>2
  <2>6. r[n] = id
    BY <1>0, <2>1, <2>4
  <2>7. ASSUME NEW p \in 1..n, p < n
        PROVE  \E a \in 1..n : /\ a # k /\ r[p] = lru[a] /\ (a = p \/ a = p + 1)
                               /\ (p < k => a = p) /\ (~(p < k) => a = p + 1)
    BY <1>0, <2>1, <2>4, <2>7
  <2>8. ASSUME NEW p \in 1..n, NEW q \in 1..n, p < q, q < n
        PROVE  \E a, b \in DOMAIN lru : a < b /\ r[p] = lru[a] /\ r[q] = lru[b]
    <3>1. p < n
      BY <1>0, <2>8
    <3>2. PICK a \in 1..n : r[p] = lru[a] /\ (p < k => a = p) /\ (~(p < k) => a = p + 1)
      BY <2>7, <3>1
    <3>3. PICK b \in 1..n : r[q] = lru[b] /\ (q < k => b = q) /\ (~(q < k) => b = q + 1)
      BY <2>7, <2>8
    <3>4. a < b
      BY <1>0, <2>1, <2>8, <3>2, <3>3
    <3> QED BY <1>0, <3>2, <3>3, <3>4
  <2>9. Distinct(r)
    <3>1. ASSUME NEW p \in 1..n, NEW q \in 1..n, p < q PROVE r[p] # r[q]
      <4>1. CASE q < n
        BY <1>0, <2>8, <3>1, <4>1 DEF Distinct
      <4>2. CASE q = n
        <5>1. p < n
          BY <1>0, <3>1, <4>2
        <5>2. PICK a \in 1..n : a # k /\ r[p] = lru[a]
          BY <2>7, <5>1
        <5> QED BY <1>0, <2>1, <2>6, <4>2, <5>2 DEF Distinct
      <4> QED BY <1>0, <4>1, <4>2
    <3>2. ASSUME NEW p \in 1..n, NEW q \in 1..n, r[p] = r[q] PROVE p = q
      BY <1>0, <3>1, <3>2
    <3> QED BY <2>5, <3>2 DEF Distinct
  <2>10. Elems(r) \subseteq Elems(lru)
    <3>1. ASSUME NEW p \in 1..n PROVE r[p] \in Elems(lru)
      <4>1. CASE p = n
        BY <1>0, <2>1, <2>6, <4>1 DEF Elems
      <4>2. CASE p < n
        BY <1>0, <2>7, <4>2 DEF Elems
      <4> QED BY <1>0, <4>1, <4>2
    <3> QED BY <2>5, <3>1 DEF Elems
  <2>11. Elems(lru) \subseteq Elems(r)
    <3>1. ASSUME NEW a \in 1..n PROVE lru[a] \in Elems(r)
      <4>1. CASE a = k
        BY <1>0, <2>1, <2>5, <2>6, <4>1 DEF Elems
      <4>2. CASE a < k
        BY <1>0, <2>1, <2>4, <2>5, <4>2 DEF Elems
      <4>3. CASE a > k
        <5>1. a - 1 \in 1..n /\ ~(a - 1 < k) /\ a - 1 < n /\ (a - 1) + 1 = a
          BY <1>0, <2>1, <4>3
        <5>2. r[a - 1] = lru[a]
          BY <2>4, <5>1
        <5> QED BY <2>5, <5>1, <5>2 DEF Elems
      <4> QED BY <1>0, <2>1, <4>1, <4>2, <4>3
    <3> QED BY <1>0, <3>1 DEF Elems
  <2>12. n >= 1
    BY <1>0, <2>1
  <2> QED BY <1>0, <2>2, <2>5, <2>6, <2>8, <2>9, <2>10, <2>11, <2>12
<1>2. CASE ~Seen(id)
  <2> DEFINE s == Append(lru, id)
  <2>0. id \notin Elems(lru)
    BY <1>2 DEF Seen, Elems
  <2>1. /\ s \in Seq(S) /\ Len(s) = n + 1 /\ DOMAIN s = 1..(n + 1)
        /\ \A i \in 1..n : s[i] = lru[i]
        /\ s[n + 1] = id
    BY <1>0, AppendProperties, LenProperties DEF n
  <2>2. Distinct(s) /\ Elems(s) = Elems(lru) \cup {id}
    BY <2>0, AppendDistinct
  <2>3. Remembered(id) = IF Len(s) > LruMax THEN Tail(s) ELSE s
    BY <1>2 DEF Remembered, Added
  <2> HIDE DEF s
  <2>4. CASE Len(s) > LruMax
    <3> DEFINE r == Tail(s)
    <3>1. n = LruMax /\ n >= 1 /\ s # <<>>
      BY <1>0, <2>1, <2>4
    <3>2. /\ r \in Seq(S) /\ Len(r) = n /\ Head(s) = lru[1]
          /\ \A i \in 1..n : r[i] = s[i + 1]
          /\ DOMAIN r = 1..n
      <4>1. r \in Seq(S) /\ Len(r) = Len(s) - 1 /\ \A i \in 1..Len(r) : r[i] = s[i + 1]
        BY <2>1, <3>1, HeadTailProperties
      <4>2. Head(s) = s[1] /\ s[1] = lru[1]
        BY <1>0, <2>1, <3>1
      <4>3. Len(r) = n
        BY <1>0, <2>1, <4>1
      <4> QED BY <4>1, <4>2, <4>3, LenProperties
    <3>3. Distinct(r) /\ Elems(r) = Elems(s) \ {lru[1]}
      BY <2>1, <2>2, <3>1, <3>2, TailDistinct
    <3> HIDE DEF r
    <3>4. r[n] = id
      BY <1>0, <2>1, <3>1, <3>2
    <3>5. ASSUME NEW p \in 1..n, p < n PROVE p + 1 \in 1..n /\ r[p] = lru[p + 1]
      BY <1>0, <2>1, <3>2, <3>5
    <3>6. ASSUME NEW p \in 1..n, NEW q \in 1..n, p < q, q < n
          PROVE  \E a, b \in DOMAIN lru : a < b /\ r[p] = lru[a] /\ r[q] = lru[b]
      <4>1. p < n /\ p + 1 < q + 1
        BY <1>0, <3>6
      <4>2. /\ p + 1 \in 1..n /\ r[p] = lru[p + 1]
            /\ q + 1 \in 1..n /\ r[q] = lru[q + 1]
        BY <3>5, <3>6, <4>1
      <4> QED BY <1>0, <4>1, <4>2
    <3>7. ASSUME NEW p \in 1..n PROVE r[p] = id \/ \E b \in DOMAIN lru : 1 < b /\ r[p] = lru[b]
      <4>1. CASE p = n
        BY <3>4, <4>1
      <4>2. CASE p # n
        <5>1. p < n /\ 1 < p + 1
          BY <1>0, <4>2
        <5> QED BY <1>0, <3>5, <5>1
      <4> QED BY <4>1, <4>2
    <3>8. Remembered(id) = r
      BY <2>3, <2>4 DEF r
    <3>9. 1 \in DOMAIN lru /\ Len(lru) = LruMax
      BY <1>0, <3>1 DEF n
    <3>10. Elems(lru) \subseteq Elems(r) \cup {lru[1]} /\ Elems(r) \subseteq Elems(lru) \cup {id}
      BY <2>2, <3>3
    <3> QED BY <1>0, <2>0, <3>1, <3>2, <3>3, <3>4, <3>6, <3>7, <3>8, <3>9, <3>10
  <2>5. CASE ~(Len(s) > LruMax)
    <3>1. ASSUME NEW p \in 1..(n + 1), NEW q \in 1..(n + 1), p < q, q < n + 1
          PROVE  \E a, b \in DOMAIN lru : a < b /\ s[p] = lru[a] /\ s[q] = lru[b]
      <4>1. p \in 1..n /\ q \in 1..n
        BY <1>0, <3>1
      <4> QED BY <1>0, <2>1, <3>1, <4>1
    <3>2. Remembered(id) = s
      BY <2>3, <2>5
    <3>3. n + 1 <= LruMax /\ n + 1 \in Nat /\ n + 1 >= 1
      BY <1>0, <2>1, <2>5
    <3> QED BY <2>1, <2>2, <3>1, <3>2, <3>3
  <2> QED BY <2>4, <2>5
<1> QED BY <1>1, <1>2

\* Only finitely many frames come between two.
LEMMA BetweenFinite ==
    ASSUME NEW i \in Nat, NEW j \in Nat
    PROVE  IsFiniteSet(Between(i, j))
<1> DEFINE S == (i + 1)..(j - 1)
           T == {received[k] : k \in S}
           f == [k \in S |-> received[k]]
<1>1. IsFiniteSet(S)
  BY FS_Interval
<1>2. f \in Surjection(S, T)
  BY DEF Surjection
<1>3. IsFiniteSet(T)
  BY <1>1, <1>2, FS_Surjection
<1>4. Between(i, j) = T \ {NoId, received[i]}
  BY DEF Between
<1> QED BY <1>3, <1>4, FS_Difference

\* What a frame that comes changes, and what not.
LEMMA FrameAfter ==
    ASSUME NEW S, received \in Seq(S), NEW id \in S, received' = Append(received, id),
           NEW n, n = Len(received)
    PROVE  /\ n \in Nat /\ Len(received') = n + 1
           /\ DOMAIN received = 1..n /\ DOMAIN received' = 1..(n + 1)
           /\ \A i \in 1..n : received'[i] = received[i]
           /\ received'[n + 1] = id
           /\ \A j \in 1..n : Apart(j) => Apart(j)'
           /\ \A i \in 1..n :
                 /\ Between(i, n + 1)' = After(i)
                 /\ After(i)' = After(i) \cup ({id} \ {NoId, received[i]})
<1>1. /\ n \in Nat /\ Len(received') = n + 1
      /\ DOMAIN received = 1..n /\ DOMAIN received' = 1..(n + 1)
      /\ \A i \in 1..n : received'[i] = received[i]
      /\ received'[n + 1] = id
  BY AppendProperties, LenProperties
<1>3. ASSUME NEW i \in 1..n, NEW j \in 1..(n + 1) PROVE Between(i, j)' = Between(i, j)
  <2>1. \A k \in (i + 1)..(j - 1) : k \in 1..n /\ received'[k] = received[k]
    BY <1>1
  <2>2. received'[i] = received[i]
    BY <1>1
  <2> QED BY <2>1, <2>2 DEF Between
<1>4. ASSUME NEW j \in 1..n, Apart(j) PROVE Apart(j)'
  <2>1. ASSUME NEW i \in 1..(j - 1), received'[j] # NoId, received'[i] = received'[j]
        PROVE  Cardinality(Between(i, j)') >= LruMax
    <3>1. i \in 1..n /\ j \in 1..(n + 1) /\ received'[i] = received[i] /\ received'[j] = received[j]
      BY <1>1
    <3>2. Between(i, j)' = Between(i, j)
      BY <1>3, <3>1
    <3> QED BY <1>4, <2>1, <3>1, <3>2 DEF Apart
  <2> QED BY <2>1 DEF Apart
<1>5. ASSUME NEW i \in 1..n
      PROVE  /\ Between(i, n + 1)' = After(i)
             /\ After(i)' = After(i) \cup ({id} \ {NoId, received[i]})
  <2>1. After(i) = Between(i, n + 1) /\ n + 1 \in 1..(n + 1)
    BY <1>1 DEF After
  <2>2. Between(i, n + 1)' = After(i)
    BY <1>3, <2>1
  <2>3. After(i) = {received[k] : k \in (i + 1)..n} \ {NoId, received[i]}
    <3>1. (n + 1) - 1 = n
      BY <1>1
    <3> QED BY <2>1, <3>1 DEF Between
  <2>4. After(i)' = {received'[k] : k \in (i + 1)..(n + 1)} \ {NoId, received'[i]}
    <3>1. (Len(received') + 1) - 1 = n + 1
      BY <1>1
    <3> QED BY <3>1 DEF After, Between
  <2>5. {received'[k] : k \in (i + 1)..(n + 1)} = {received[k] : k \in (i + 1)..n} \cup {id}
    <3>1. (i + 1)..(n + 1) = ((i + 1)..n) \cup {n + 1}
      BY <1>1
    <3>2. \A k \in (i + 1)..n : received'[k] = received[k]
      BY <1>1
    <3> QED BY <1>1, <3>1, <3>2
  <2> QED BY <1>1, <2>2, <2>3, <2>4, <2>5
<1> QED BY <1>1, <1>4, <1>5

\* Printing anything but a frame.
LEMMA PrintsOther ==
    ASSUME PrintedInv, NEW s \in Seq(Lines), \A q \in DOMAIN s : s[q].kind # "frame",
           printed' = printed \o s,
           \A j \in DOMAIN received : /\ j \in DOMAIN received'
                                      /\ Apart(j) => Apart(j)'
    PROVE  PrintedInv'
<1>1. /\ printed \in Seq(Lines) /\ printed' \in Seq(Lines)
      /\ Len(printed) \in Nat /\ Len(s) \in Nat
      /\ DOMAIN printed = 1..Len(printed) /\ DOMAIN s = 1..Len(s)
      /\ DOMAIN printed' = 1..(Len(printed) + Len(s))
      /\ \A i \in 1..(Len(printed) + Len(s)) :
            printed'[i] = IF i <= Len(printed) THEN printed[i] ELSE s[i - Len(printed)]
  BY ConcatProperties, LenProperties DEF PrintedInv
<1>2. ASSUME NEW i \in DOMAIN printed', printed'[i].kind = "frame"
      PROVE  i \in DOMAIN printed /\ printed'[i] = printed[i]
  <2>1. CASE i <= Len(printed)
    BY <1>1, <2>1
  <2>2. CASE ~(i <= Len(printed))
    <3>1. i - Len(printed) \in DOMAIN s /\ printed'[i] = s[i - Len(printed)]
      BY <1>1, <2>2
    <3> QED BY <1>2, <3>1
  <2> QED BY <2>1, <2>2
<1>3. ASSUME NEW i \in DOMAIN printed', printed'[i].kind = "frame"
      PROVE  printed'[i].at \in DOMAIN received' /\ Apart(printed[i].at)' /\ printed'[i] = printed[i]
  <2>1. i \in DOMAIN printed /\ printed'[i] = printed[i]
    BY <1>2, <1>3
  <2> DEFINE j == printed'[i].at
  <2>2. j \in DOMAIN received /\ Apart(j)
    BY <1>3, <2>1 DEF PrintedInv
  <2> QED BY <2>1, <2>2
<1> QED BY <1>1, <1>3 DEF PrintedInv

\* Printing a frame.
LEMMA PrintsFrame ==
    ASSUME PrintedInv, NEW j \in DOMAIN received', j \in Nat, Apart(j)',
           printed' = Append(printed, Line("frame", j)),
           \A k \in DOMAIN received : /\ k \in DOMAIN received'
                                      /\ Apart(k) => Apart(k)'
    PROVE  PrintedInv'
<1>1. Line("frame", j) \in Lines /\ Line("frame", j).at = j
  BY DEF Line, Lines
<1>2. /\ printed' \in Seq(Lines) /\ Len(printed) \in Nat
      /\ DOMAIN printed = 1..Len(printed) /\ DOMAIN printed' = 1..(Len(printed) + 1)
      /\ \A i \in 1..Len(printed) : printed'[i] = printed[i]
      /\ printed'[Len(printed) + 1] = Line("frame", j)
  BY <1>1, AppendProperties, LenProperties DEF PrintedInv
<1>3. ASSUME NEW i \in DOMAIN printed', printed'[i].kind = "frame"
      PROVE  printed'[i].at \in DOMAIN received' /\ Apart(printed[i].at)'
  <2>1. CASE i = Len(printed) + 1
    BY <1>1, <1>2, <2>1
  <2>2. CASE i # Len(printed) + 1
    <3>1. i \in DOMAIN printed /\ printed'[i] = printed[i]
      BY <1>2, <2>2
    <3> DEFINE k == printed'[i].at
    <3>2. k \in DOMAIN received /\ Apart(k)
      BY <1>3, <3>1 DEF PrintedInv
    <3> QED BY <3>1, <3>2
  <2> QED BY <2>1, <2>2
<1> QED BY <1>2, <1>3 DEF PrintedInv

\* What comes after a frame keeps the order of the ids remembered and fills the
\* window of those forgotten.
LEMMA LruStep ==
    ASSUME StreamTypeOK, LruInv, NEW id \in FrameIds \cup {NoId},
           received' = Append(received, id),
           lru' = IF id = NoId THEN lru ELSE Remembered(id)
    PROVE  /\ LruInv' /\ lru' \in Seq(FrameIds) /\ Len(lru') <= LruMax
<1> DEFINE n == Len(received)
<1>0. /\ received \in Seq(FrameIds \cup {NoId}) /\ lru \in Seq(FrameIds) /\ Len(lru) <= LruMax
      /\ Len(lru) \in Nat /\ DOMAIN lru = 1..Len(lru)
      /\ LruMax \in Nat /\ LruMax >= 1
  BY StreamAssumption, LenProperties DEF StreamTypeOK
<1>1. /\ n \in Nat
      /\ DOMAIN received = 1..n /\ DOMAIN received' = 1..(n + 1)
      /\ \A i \in 1..n : received'[i] = received[i]
      /\ received'[n + 1] = id
      /\ \A i \in 1..n : After(i)' = After(i) \cup ({id} \ {NoId, received[i]})
  <2>0. PICK m : m = n
    OBVIOUS
  <2>1. /\ m \in Nat
        /\ DOMAIN received = 1..m /\ DOMAIN received' = 1..(m + 1)
        /\ \A i \in 1..m : received'[i] = received[i]
        /\ received'[m + 1] = id
        /\ \A i \in 1..m : After(i)' = After(i) \cup ({id} \ {NoId, received[i]})
    BY <1>0, <2>0, FrameAfter
  <2> QED BY <2>0, <2>1
<1> HIDE DEF n
<1>2. /\ Distinct(lru) /\ NoId \notin Elems(lru)
      /\ \A i \in 1..n, p, q \in DOMAIN lru :
           (lru[p] = received[i] /\ p < q) => lru[q] \in After(i)
      /\ \A i \in 1..n : received[i] \notin Elems(lru) \cup {NoId} => Cardinality(After(i)) >= LruMax
  BY <1>1 DEF LruInv
<1>3. ASSUME NEW i \in 1..n PROVE IsFiniteSet(After(i)) /\ IsFiniteSet(After(i)')
  <2>1. IsFiniteSet(After(i))
    <3>1. i \in Nat /\ Len(received) + 1 \in Nat
      BY <1>1 DEF n
    <3> QED BY <3>1, BetweenFinite DEF After
  <2>2. IsFiniteSet({id} \ {NoId, received[i]})
    BY FS_Singleton, FS_Difference
  <2>3. IsFiniteSet(After(i) \cup ({id} \ {NoId, received[i]}))
    BY <2>1, <2>2, FS_Union
  <2>4. After(i)' = After(i) \cup ({id} \ {NoId, received[i]})
    BY <1>1
  <2> QED BY <2>1, <2>3, <2>4
<1>4. ASSUME NEW i \in 1..n, Cardinality(After(i)) >= LruMax PROVE Cardinality(After(i)') >= LruMax
  <2>1. After(i) \subseteq After(i)'
    BY <1>1
  <2>2. Cardinality(After(i)) <= Cardinality(After(i)')
    BY <1>3, <2>1, FS_Subset
  <2>3. Cardinality(After(i)) \in Nat /\ Cardinality(After(i)') \in Nat
    BY <1>3, FS_CardinalityType
  <2> QED BY <1>0, <1>4, <2>2, <2>3
<1>5. CASE id = NoId
  <2>1. lru' = lru
    BY <1>5
  <2>2. ASSUME NEW i \in 1..(n + 1), NEW p \in DOMAIN lru', NEW q \in DOMAIN lru',
               lru'[p] = received'[i], p < q
        PROVE  lru'[q] \in After(i)'
    <3>1. lru[p] # NoId
      BY <1>2, <2>1 DEF Elems
    <3>2. i \in 1..n
      BY <1>1, <1>5, <2>1, <2>2, <3>1
    <3> QED BY <1>1, <1>2, <2>1, <2>2, <3>2
  <2>3. ASSUME NEW i \in 1..(n + 1), received'[i] \notin Elems(lru') \cup {NoId}
        PROVE  Cardinality(After(i)') >= LruMax
    <3>1. i \in 1..n
      BY <1>1, <1>5, <2>3
    <3>2. received[i] \notin Elems(lru) \cup {NoId}
      BY <1>1, <2>1, <2>3, <3>1
    <3> QED BY <1>2, <1>4, <3>1, <3>2
  <2>4. LruInv'
    BY <1>1, <1>2, <2>1, <2>2, <2>3 DEF LruInv, Distinct, Elems
  <2> QED BY <1>0, <2>1, <2>4
<1>6. CASE id # NoId
  <2> DEFINE r == Remembered(id)
  <2>0. lru' = r /\ id \in FrameIds
    BY <1>6
  <2>1. /\ r \in Seq(FrameIds) /\ Len(r) <= LruMax /\ Len(r) \in Nat /\ Len(r) >= 1
        /\ Distinct(r) /\ r[Len(r)] = id
        /\ Elems(r) \subseteq Elems(lru) \cup {id}
        /\ \A p, q \in DOMAIN r : (p < q /\ q < Len(r)) =>
              \E a, b \in DOMAIN lru : a < b /\ r[p] = lru[a] /\ r[q] = lru[b]
        /\ \/ Elems(lru) \subseteq Elems(r)
           \/ /\ Len(r) = LruMax /\ id \notin Elems(lru) /\ Len(lru) = LruMax
              /\ Elems(lru) \subseteq Elems(r) \cup {lru[1]} /\ 1 \in DOMAIN lru
              /\ \A p \in DOMAIN r : r[p] = id \/ \E b \in DOMAIN lru : 1 < b /\ r[p] = lru[b]
    BY <1>0, <1>2, <2>0, RememberedIs
  <2> HIDE DEF r
  <2>2. DOMAIN r = 1..Len(r)
    BY <2>1, LenProperties
  <2>3. NoId \notin Elems(r) /\ id \in Elems(r)
    BY <1>2, <1>6, <2>1, <2>2 DEF Elems
  <2>4. ASSUME NEW i \in 1..(n + 1), NEW p \in 1..Len(r), NEW q \in 1..Len(r),
               r[p] = received'[i], p < q
        PROVE  r[q] \in After(i)'
    <3>1. p < Len(r) /\ r[p] # id /\ r[p] # NoId
      <4>1. p < Len(r)
        BY <2>1, <2>4
      <4>2. r[p] # r[Len(r)]
        BY <2>1, <2>2, <4>1 DEF Distinct
      <4> QED BY <2>1, <2>2, <2>3, <4>1, <4>2 DEF Elems
    <3>2. i \in 1..n /\ received'[i] = received[i]
      BY <1>1, <2>4, <3>1
    <3>3. CASE q = Len(r)
      BY <1>1, <1>6, <2>1, <2>4, <3>1, <3>2, <3>3
    <3>4. CASE q # Len(r)
      <4>1. q < Len(r)
        BY <2>1, <3>4
      <4>2. PICK a \in DOMAIN lru, b \in DOMAIN lru : a < b /\ r[p] = lru[a] /\ r[q] = lru[b]
        <5>1. p \in DOMAIN r /\ q \in DOMAIN r
          BY <2>2
        <5> QED BY <2>1, <2>4, <4>1, <5>1, Zenon
      <4>3. lru[b] \in After(i)
        BY <1>2, <2>4, <3>2, <4>2
      <4> QED BY <1>1, <3>2, <4>2, <4>3
    <3> QED BY <3>3, <3>4
  <2>5. ASSUME NEW i \in 1..(n + 1), received'[i] \notin Elems(r) \cup {NoId}
        PROVE  Cardinality(After(i)') >= LruMax
    <3>1. i \in 1..n /\ received'[i] = received[i] /\ received[i] # id
      BY <1>1, <2>3, <2>5
    <3>2. CASE received[i] \notin Elems(lru)
      BY <1>2, <1>4, <2>5, <3>1, <3>2
    <3>3. CASE received[i] \in Elems(lru)
      <4>1. /\ Len(r) = LruMax /\ id \notin Elems(lru) /\ 1 \in DOMAIN lru
            /\ Elems(lru) \subseteq Elems(r) \cup {lru[1]}
            /\ \A p \in DOMAIN r : r[p] = id \/ \E b \in DOMAIN lru : 1 < b /\ r[p] = lru[b]
        BY <2>1, <2>5, <3>1, <3>3
      <4>2. received[i] = lru[1]
        BY <2>5, <3>1, <3>3, <4>1
      <4>3. \A p \in 1..LruMax : r[p] \in After(i)'
        <5> SUFFICES ASSUME NEW p \in 1..LruMax PROVE r[p] \in After(i)'
          OBVIOUS
        <5>1. CASE r[p] = id
          BY <1>1, <1>6, <3>1, <5>1
        <5>2. CASE r[p] # id
          <6>1. PICK b \in DOMAIN lru : 1 < b /\ r[p] = lru[b]
            BY <2>2, <4>1, <5>2
          <6>2. lru[b] \in After(i)
            BY <1>2, <3>1, <4>1, <4>2, <6>1
          <6> QED BY <1>1, <3>1, <6>1, <6>2
        <5> QED BY <5>1, <5>2
      <4> DEFINE A == After(i)'
                 S == 1..LruMax
      <4>4. r \in Injection(S, A)
        <5>1. r \in [S -> A]
          <6>1. DOMAIN r = S /\ r = [p \in S |-> r[p]]
            BY <2>1, <2>2, <4>1
          <6> QED BY <4>3, <6>1
        <5>2. \A p, q \in S : r[p] = r[q] => p = q
          BY <2>1, <2>2, <4>1 DEF Distinct
        <5> QED BY <5>1, <5>2 DEF Injection, IsInjective
      <4>5. IsFiniteSet(A)
        BY <1>3, <3>1
      <4> HIDE DEF A, S
      <4>6. Cardinality(S) <= Cardinality(A)
        BY <4>4, <4>5, FS_Injection
      <4>7. Cardinality(S) = LruMax
        BY <1>0, FS_Interval DEF S
      <4> QED BY <4>6, <4>7 DEF A
    <3> QED BY <3>2, <3>3
  <2>6. LruInv'
    <3>1. Distinct(lru)' /\ NoId \notin Elems(lru)'
      BY <2>0, <2>1, <2>3
    <3> QED BY <1>1, <2>0, <2>2, <2>4, <2>5, <3>1 DEF LruInv
  <2> QED BY <2>0, <2>1, <2>6
<1> QED BY <1>5, <1>6

\* Nothing comes, and nothing but other lines is printed.
LEMMA QuietStep ==
    ASSUME StreamTypeOK, LruInv, PrintedInv, UNCHANGED <<received, lru>>,
           NEW s \in Seq(Lines), \A q \in DOMAIN s : s[q].kind # "frame", printed' = printed \o s
    PROVE  LruInv' /\ PrintedInv'
<1>1. \A j \in DOMAIN received : j \in DOMAIN received' /\ (Apart(j) => Apart(j)')
  BY DEF Apart, Between
<1>2. PrintedInv'
  BY <1>1, PrintsOther
<1>3. \A i : After(i)' = After(i)
  BY DEF After, Between
<1>4. LruInv'
  BY <1>3 DEF LruInv, Distinct, Elems
<1> QED BY <1>2, <1>4

\* The summary of what was dropped, and the other lines about the stream.
LEMMA LinesThatAreNoFrames ==
    /\ <<>> \in Seq(Lines) /\ \A q \in DOMAIN <<>> : <<>>[q].kind # "frame"
    /\ \A n \in Nat, k \in {"stream_cut", "parse_error", "fallback_to_poll", "dedup_drop"} :
          /\ <<Line(k, n)>> \in Seq(Lines)
          /\ \A q \in DOMAIN <<Line(k, n)>> : <<Line(k, n)>>[q].kind # "frame"
    /\ \A n \in Nat : /\ Summary(n) \in Seq(Lines)
                      /\ \A q \in DOMAIN Summary(n) : Summary(n)[q].kind # "frame"
<1>1. <<>> \in Seq(Lines) /\ DOMAIN <<>> = {}
  OBVIOUS
<1>2. ASSUME NEW n \in Nat,
             NEW k \in {"stream_cut", "parse_error", "fallback_to_poll", "dedup_drop"}
      PROVE  /\ <<Line(k, n)>> \in Seq(Lines)
             /\ \A q \in DOMAIN <<Line(k, n)>> : <<Line(k, n)>>[q].kind # "frame"
  <2>1. Line(k, n) \in Lines /\ Line(k, n).kind # "frame"
    BY DEF Line, Lines
  <2> QED BY <2>1
<1>3. ASSUME NEW n \in Nat
      PROVE  /\ Summary(n) \in Seq(Lines)
             /\ \A q \in DOMAIN Summary(n) : Summary(n)[q].kind # "frame"
  <2>1. CASE n = 0
    BY <1>1, <2>1 DEF Summary
  <2>2. CASE n # 0
    <3>1. Summary(n) = <<Line("dedup_drop", n)>>
      BY <2>2 DEF Summary
    <3> QED BY <1>2, <3>1
  <2> QED BY <2>1, <2>2
<1> QED BY <1>1, <1>2, <1>3

\* One more line that is no frame, or two pieces of such.
LEMMA TwoPieces ==
    ASSUME NEW s \in Seq(Lines), NEW t \in Seq(Lines), printed \in Seq(Lines),
           \A q \in DOMAIN s : s[q].kind # "frame", \A q \in DOMAIN t : t[q].kind # "frame"
    PROVE  /\ s \o t \in Seq(Lines) /\ \A q \in DOMAIN (s \o t) : (s \o t)[q].kind # "frame"
           /\ (printed \o s) \o t = printed \o (s \o t)
<1>1. /\ s \o t \in Seq(Lines) /\ Len(s \o t) = Len(s) + Len(t)
      /\ Len(s) \in Nat /\ Len(t) \in Nat /\ DOMAIN (s \o t) = 1..(Len(s) + Len(t))
      /\ DOMAIN s = 1..Len(s) /\ DOMAIN t = 1..Len(t)
      /\ \A i \in 1..(Len(s) + Len(t)) : (s \o t)[i] = IF i <= Len(s) THEN s[i] ELSE t[i - Len(s)]
  BY ConcatProperties, LenProperties
<1>2. ASSUME NEW q \in DOMAIN (s \o t) PROVE (s \o t)[q].kind # "frame"
  <2>1. CASE q <= Len(s)
    BY <1>1, <2>1
  <2>2. CASE ~(q <= Len(s))
    <3>1. q - Len(s) \in DOMAIN t /\ (s \o t)[q] = t[q - Len(s)]
      BY <1>1, <2>2
    <3> QED BY <3>1
  <2> QED BY <2>1, <2>2
<1> QED BY <1>1, <1>2, ConcatAssociative

\* Every step of the main thread and of the pump keeps PumpInv.
LEMMA PumpStep == PumpInv /\ [StreamNext]_streamVars => PumpInv'
<1> SUFFICES ASSUME PumpInv, [StreamNext]_streamVars PROVE PumpInv'
  OBVIOUS
<1>0. StreamTypeOK /\ LruInv /\ PrintedInv /\ printed \in Seq(Lines)
  BY DEF PumpInv, PrintedInv
<1>t. /\ drops \in Nat /\ drops \in 0..(FlushEvery - 1) /\ FlushEvery \in Nat /\ FlushEvery >= 1
      /\ Len(received) \in Nat
  BY <1>0, StreamAssumption, LenProperties DEF StreamTypeOK
\* The types that PrintedInv and LruStep do not give.
<1> DEFINE Rest == /\ attachPc' \in {"status", "reading", "joining", "left"}
                   /\ taskEnded' \in BOOLEAN /\ stopSet' \in BOOLEAN
                   /\ pump' \in {"none", "reading", "over"} \cup PumpEnds
                   /\ drops' \in 0..(FlushEvery - 1)
<1>k. ASSUME PrintedInv', LruInv', Rest,
             received' \in Seq(FrameIds \cup {NoId}) /\ Len(received') <= MaxFrames,
             lru' \in Seq(FrameIds) /\ Len(lru') <= LruMax
      PROVE  PumpInv'
  <2>1. \A i \in DOMAIN printed' :
          printed'[i].kind \in {"frame", "parse_error", "stream_cut",
                               "dedup_drop", "fallback_to_poll"}
    <3> SUFFICES ASSUME NEW i \in DOMAIN printed'
                 PROVE  printed'[i].kind \in {"frame", "parse_error", "stream_cut",
                                             "dedup_drop", "fallback_to_poll"}
      OBVIOUS
    <3>1. printed' \in Seq(Lines)
      BY <1>k DEF PrintedInv
    <3>2. printed'[i] \in Lines
      BY <3>1, ElementOfSeq, LenProperties
    <3> QED BY <3>2 DEF Lines
  <2> QED BY <1>k, <2>1 DEF PumpInv, StreamTypeOK
<1>q. ASSUME UNCHANGED <<received, lru>>, Rest,
             NEW s \in Seq(Lines), \A q \in DOMAIN s : s[q].kind # "frame", printed' = printed \o s
      PROVE  PumpInv'
  <2>1. LruInv' /\ PrintedInv'
    BY <1>0, <1>q, QuietStep
  <2>2. /\ received' \in Seq(FrameIds \cup {NoId}) /\ Len(received') <= MaxFrames
        /\ lru' \in Seq(FrameIds) /\ Len(lru') <= LruMax
    BY <1>0, <1>q DEF StreamTypeOK
  <2> QED BY <1>k, <1>q, <2>1, <2>2
<1>e. /\ <<>> \in Seq(Lines) /\ \A q \in DOMAIN <<>> : <<>>[q].kind # "frame"
      /\ printed \o <<>> = printed
  BY <1>0, LinesThatAreNoFrames, ConcatEmptySeq
<1>1. CASE AttachStarts \/ TaskEnds \/ ReadingStops \/ Joins \/ Attached \/ UNCHANGED streamVars
  <2>1. UNCHANGED <<received, lru, printed>> /\ Rest
    BY <1>0, <1>1 DEF StreamTypeOK, AttachStarts, TaskEnds, ReadingStops, Joins, Attached,
       streamVars, attachVars, pumpVars
  <2>2. printed' = printed \o <<>>
    BY <1>e, <2>1
  <2> QED BY <1>q, <1>e, <2>1, <2>2
<1>2. CASE SeesStop
  <2>1. /\ UNCHANGED <<received, lru>> /\ printed' = printed \o Summary(drops) /\ Rest
    BY <1>0, <1>2, <1>t DEF SeesStop, StreamTypeOK, attachVars, PumpEnds
  <2>2. Summary(drops) \in Seq(Lines) /\ \A q \in DOMAIN Summary(drops) : Summary(drops)[q].kind # "frame"
    BY <1>t, LinesThatAreNoFrames
  <2> QED BY <1>q, <2>1, <2>2
<1>3. CASE StreamOver
  <2>1. /\ UNCHANGED <<received, lru>>
        /\ Rest
        /\ \/ printed' = printed
           \/ \E m \in {<<>>, <<Line("stream_cut", 0)>>} :
                  printed' = printed \o m \o Summary(drops)
    BY <1>0, <1>3, <1>t, SMTT(30) DEF StreamOver, StreamTypeOK, attachVars, PumpEnds
  <2>2. CASE printed' = printed
    <3>1. printed' = printed \o <<>>
      BY <1>e, <2>2
    <3> QED BY <1>q, <1>e, <2>1, <3>1
  <2>3. ASSUME NEW m \in {<<>>, <<Line("stream_cut", 0)>>},
               printed' = printed \o m \o Summary(drops)
        PROVE  PumpInv'
    <3>1. m \in Seq(Lines) /\ \A q \in DOMAIN m : m[q].kind # "frame"
      BY LinesThatAreNoFrames
    <3>2. /\ Summary(drops) \in Seq(Lines)
          /\ \A q \in DOMAIN Summary(drops) : Summary(drops)[q].kind # "frame"
      BY <1>t, LinesThatAreNoFrames
    <3> DEFINE u == Summary(drops)
    <3> HIDE DEF u
    <3>3. /\ m \o Summary(drops) \in Seq(Lines)
          /\ \A q \in DOMAIN (m \o Summary(drops)) : (m \o Summary(drops))[q].kind # "frame"
          /\ printed' = printed \o (m \o Summary(drops))
      BY <1>0, <2>3, <3>1, <3>2, TwoPieces
    <3> QED BY <1>q, <2>1, <3>3
  <2> QED BY <2>1, <2>2, <2>3
<1>4. CASE PumpLeaves
  <2>1. /\ UNCHANGED <<received, lru>>
        /\ Rest
        /\ printed' = printed \/ printed' = Append(printed, Line("fallback_to_poll", 0))
    BY <1>0, <1>4 DEF PumpLeaves, StreamTypeOK, attachVars, PumpEnds
  <2>2. CASE printed' = printed
    <3>1. printed' = printed \o <<>>
      BY <1>e, <2>2
    <3> QED BY <1>q, <1>e, <2>1, <3>1
  <2>3. CASE printed' = Append(printed, Line("fallback_to_poll", 0))
    <3>1. Line("fallback_to_poll", 0) \in Lines
      BY DEF Line, Lines
    <3>2. printed' = printed \o <<Line("fallback_to_poll", 0)>>
      BY <1>0, <2>3, <3>1, AppendIsConcat
    <3>3. /\ <<Line("fallback_to_poll", 0)>> \in Seq(Lines)
          /\ \A q \in DOMAIN <<Line("fallback_to_poll", 0)>> :
                <<Line("fallback_to_poll", 0)>>[q].kind # "frame"
      BY LinesThatAreNoFrames
    <3> QED BY <1>q, <2>1, <3>2, <3>3
  <2> QED BY <2>1, <2>2, <2>3
\* A frame that comes.
<1>f. ASSUME NEW id \in FrameIds \cup {NoId}, FrameComes(id),
             lru' = IF id = NoId THEN lru ELSE Remembered(id), drops' \in 0..(FlushEvery - 1),
             PrintedInv'
      PROVE  PumpInv'
  <2>1. /\ Len(received) < MaxFrames /\ received' = Append(received, id)
        /\ UNCHANGED <<attachPc, taskEnded, stopSet, pump>>
    BY <1>f DEF FrameComes, attachVars
  <2>2. received' \in Seq(FrameIds \cup {NoId}) /\ Len(received') <= MaxFrames
    <3>1. received \in Seq(FrameIds \cup {NoId}) /\ MaxFrames \in Nat
      BY <1>0, StreamAssumption DEF StreamTypeOK
    <3> QED BY <1>t, <2>1, <3>1, AppendProperties
  <2>3. LruInv' /\ lru' \in Seq(FrameIds) /\ Len(lru') <= LruMax
    BY <1>0, <1>f, <2>1, LruStep
  <2>4. Rest
    BY <1>0, <1>f, <2>1 DEF StreamTypeOK
  <2> QED BY <1>f, <1>k, <2>2, <2>3, <2>4
<1>g. ASSUME NEW id \in FrameIds \cup {NoId}, NEW n, n = Len(received),
             received' = Append(received, id)
      PROVE  /\ n \in Nat /\ Len(received') = n + 1
             /\ DOMAIN received = 1..n /\ DOMAIN received' = 1..(n + 1)
             /\ \A i \in 1..n : received'[i] = received[i]
             /\ received'[n + 1] = id
             /\ \A j \in 1..n : Apart(j) => Apart(j)'
             /\ \A i \in 1..n : Between(i, n + 1)' = After(i)
  <2>1. received \in Seq(FrameIds \cup {NoId})
    BY <1>0 DEF StreamTypeOK
  <2> QED BY <1>g, <2>1, FrameAfter
<1>5. CASE BadFrame
  <2>1. /\ FrameComes(NoId) /\ received' = Append(received, NoId)
        /\ printed' = Append(printed, Line("parse_error", Len(received')))
        /\ UNCHANGED <<lru, drops>>
    BY <1>5 DEF BadFrame, FrameComes
  <2>2. PICK n : n = Len(received)
    OBVIOUS
  <2>3. /\ Len(received') = n + 1 /\ n + 1 \in Nat
        /\ \A j \in DOMAIN received : j \in DOMAIN received' /\ (Apart(j) => Apart(j)')
    BY <1>g, <2>1, <2>2
  <2>4. PrintedInv'
    <3> DEFINE s == <<Line("parse_error", n + 1)>>
    <3>1. s \in Seq(Lines) /\ \A q \in DOMAIN s : s[q].kind # "frame"
      BY <2>3, LinesThatAreNoFrames
    <3>2. Line("parse_error", n + 1) \in Lines
      BY <2>3 DEF Line, Lines
    <3>3. printed' = printed \o s
      BY <1>0, <2>1, <2>3, <3>2, AppendIsConcat
    <3> HIDE DEF s
    <3> QED BY <1>0, <2>3, <3>1, <3>3, PrintsOther
  <2> QED BY <1>f, <1>t, <2>1, <2>4
<1>6. ASSUME NEW id \in FrameIds \cup {NoId}, PumpFrame(id) PROVE PumpInv'
  <2>1. FrameComes(id) /\ received' = Append(received, id)
        /\ lru' = IF id = NoId THEN lru ELSE Remembered(id)
    BY <1>6 DEF PumpFrame, FrameComes
  <2>2. PICK n : n = Len(received)
    OBVIOUS
  <2>3. /\ Len(received') = n + 1 /\ n \in Nat /\ n + 1 \in Nat /\ received'[n + 1] = id
        /\ DOMAIN received = 1..n /\ n + 1 \in DOMAIN received'
        /\ \A i \in 1..n : received'[i] = received[i] /\ Between(i, n + 1)' = After(i)
        /\ \A j \in DOMAIN received : j \in DOMAIN received' /\ (Apart(j) => Apart(j)')
    BY <1>g, <2>1, <2>2
  <2>4. CASE id = NoId \/ ~Seen(id)
    <3>1. printed' = Append(printed, Line("frame", n + 1)) /\ drops' = drops
      BY <1>6, <2>3, <2>4 DEF PumpFrame
    <3>2. Apart(n + 1)'
      <4>1. ASSUME NEW i \in 1..((n + 1) - 1), received'[n + 1] # NoId,
                   received'[i] = received'[n + 1]
            PROVE  Cardinality(Between(i, n + 1)') >= LruMax
        <5>1. i \in 1..n /\ received[i] = id /\ id # NoId
          BY <2>3, <4>1
        <5>2. received[i] \notin Elems(lru) \cup {NoId}
          BY <2>4, <5>1 DEF Seen, Elems
        <5> QED BY <1>0, <2>3, <5>1, <5>2 DEF LruInv
      <4> QED BY <4>1 DEF Apart
    <3>3. PrintedInv'
      BY <1>0, <2>3, <3>1, <3>2, PrintsFrame
    <3> QED BY <1>f, <1>t, <2>1, <3>1, <3>3
  <2>5. CASE id # NoId /\ Seen(id)
    <3>1. /\ drops' = (drops + 1) % FlushEvery
          /\ printed' = printed \o Summary(IF drops' = 0 THEN FlushEvery ELSE 0)
      BY <1>6, <2>5 DEF PumpFrame
    <3>2. drops' \in 0..(FlushEvery - 1)
      BY <1>t, <3>1
    <3>3. PICK m \in Nat : m = IF drops' = 0 THEN FlushEvery ELSE 0
      BY <1>t
    <3>4. Summary(m) \in Seq(Lines) /\ \A q \in DOMAIN Summary(m) : Summary(m)[q].kind # "frame"
      BY LinesThatAreNoFrames
    <3>5. printed' = printed \o Summary(m)
      BY <3>1, <3>3
    <3>6. PrintedInv'
      BY <1>0, <2>3, <3>4, <3>5, PrintsOther
    <3> QED BY <1>f, <2>1, <3>2, <3>6
  <2> QED BY <2>4, <2>5
<1> QED BY <1>1, <1>2, <1>3, <1>4, <1>5, <1>6 DEF StreamNext

LEMMA PumpHolds == StreamSpec => []PumpInv
<1>1. StreamInit => PumpInv
  <2> SUFFICES ASSUME StreamInit PROVE PumpInv
    OBVIOUS
  <2>1. /\ received = <<>> /\ lru = <<>> /\ printed = <<>> /\ DOMAIN <<>> = {} /\ Len(<<>>) = 0
        /\ attachPc = "status" /\ taskEnded = FALSE /\ stopSet = FALSE /\ pump = "none" /\ drops = 0
    BY DEF StreamInit
  <2>2. <<>> \in Seq(FrameIds \cup {NoId}) /\ <<>> \in Seq(FrameIds) /\ <<>> \in Seq(Lines)
    OBVIOUS
  <2>3. 0 \in 0..(FlushEvery - 1) /\ 0 <= MaxFrames /\ 0 <= LruMax
    BY StreamAssumption
  <2>4. StreamTypeOK
    BY <2>1, <2>2, <2>3 DEF StreamTypeOK
  <2>5. LruInv /\ PrintedInv
    BY <2>1, <2>2 DEF LruInv, PrintedInv, Distinct, Elems
  <2> QED BY <2>4, <2>5 DEF PumpInv
<1> QED BY <1>1, PumpStep, PTL DEF StreamSpec

\* The state of "popola attach --follow" keeps its types.
THEOREM StreamTypeCorrect == StreamSpec => []StreamTypeOK
<1>1. PumpInv => StreamTypeOK
  BY DEF PumpInv
<1> QED BY <1>1, PumpHolds, PTL

\* A frame is printed again only when at least LruMax other frames have come
\* since: the window of SSEReader is in the order of last use.
THEOREM FramesAreNotRepeated == StreamSpec => []SeenFramesAreDropped
<1>1. PumpInv => SeenFramesAreDropped
  BY DEF PumpInv, PrintedInv, Apart, SeenFramesAreDropped
<1> QED BY <1>1, PumpHolds, PTL
-----------------------------------------------------------------------------
(* The Lark listener                                                        *)

\* The state of the listener and of its watchdog keeps its types, for any limit on
\* restarts: restart_count never exceeds MAX_RESTARTS.
THEOREM LarkTypeCorrect == LarkSpec => []LarkTypeOK
<1>1. LarkInit => LarkTypeOK
  <2>1. 0 \in 0..MaxLives /\ 0 \in 0..MaxRestarts
    BY RestartsAssumption
  <2> QED BY <2>1, Zenon DEF LarkInit, LarkTypeOK
<1>2. LarkTypeOK /\ [LarkNext]_larkVars => LarkTypeOK'
  <2> SUFFICES ASSUME LarkTypeOK, [LarkNext]_larkVars PROVE LarkTypeOK'
    OBVIOUS
  <2> USE RestartsAssumption DEF LarkTypeOK
  <2>1. CASE PrintsReady \/ Dies
    BY <2>1 DEF PrintsReady, Dies, watchVars
  <2>2. CASE Start
    BY <2>2 DEF Start, watchVars
  <2>3. CASE Spawned \/ StartDone \/ StartTimeout
    BY <2>3 DEF Spawned, StartDone, StartTimeout, listenerVars, watchVars
  <2>4. CASE Watch
    <3>1. restarts' \in 0..MaxRestarts
      BY <2>4 DEF Watch, WatchResets, WatchFinds, WatchRestarts
    <3>2. lives' \in 0..MaxLives
      BY <2>4 DEF Watch, WatchResets, WatchFinds, WatchRestarts, listenerVars
    <3>3. escalated' \in BOOLEAN
      BY <2>4 DEF Watch, WatchResets, WatchFinds, WatchRestarts
    <3>4. /\ child' \in {"none", "alive", "dead"} /\ readySeen' \in BOOLEAN
          /\ watchPc' \in {"off", "sleeping", "backing_off", "done"}
          /\ UNCHANGED <<startPc, stopping>>
      BY <2>4 DEF Watch, WatchResets, WatchFinds, WatchRestarts, listenerVars
    <3> QED BY <3>1, <3>2, <3>3, <3>4
  <2>5. CASE StopWatch \/ StopListener
    BY <2>5 DEF StopWatch, StopListener, listenerVars, watchVars
  <2>6. CASE UNCHANGED larkVars
    BY <2>6 DEF larkVars, listenerVars, watchVars
  <2> QED BY <2>1, <2>2, <2>3, <2>4, <2>5, <2>6 DEF LarkNext
<1> QED BY <1>1, <1>2, PTL DEF LarkSpec

-----------------------------------------------------------------------------
(* The vote                                                                 *)

\* The greatest of some numbers up to n.
LEMMA GreatestUpTo ==
    ASSUME NEW n \in Nat, NEW T, T \subseteq 0..n, T # {}
    PROVE  \E m \in T : \A k \in T : k <= m
<1> DEFINE S == {n - k : k \in T}
<1>1. S \subseteq Nat /\ S # {}
  <2>1. \A k \in T : n - k \in Nat
    OBVIOUS
  <2> QED BY <2>1
<1>2. PICK c \in S : \A k \in S : c <= k
  <2> HIDE DEF S
  <2> QED BY <1>1, LeastNatural
<1>3. PICK m \in T : c = n - m
  OBVIOUS
<1>4. \A k \in T : n - m <= n - k
  BY <1>2, <1>3
<1>5. \A k \in T : k <= m
  BY <1>4
<1> QED BY <1>5

LEMMA PartsAreFinite ==
    ASSUME NEW n \in Nat, NEW T \in SUBSET (1..n)
    PROVE  IsFiniteSet(T) /\ Cardinality(T) \in 0..n
<1>1. IsFiniteSet(1..n) /\ Cardinality(1..n) = n
  BY FS_Interval
<1> DEFINE I == 1..n
<1>2. IsFiniteSet(I) /\ Cardinality(I) = n /\ T \in SUBSET I
  BY <1>1
<1> HIDE DEF I
<1>3. IsFiniteSet(T) /\ Cardinality(T) <= n
  BY <1>2, FS_Subset
<1> QED BY <1>3, FS_CardinalityType

\* Those who vote for a bucket.
VotersOf(o, b) == {i \in DOMAIN o : Bucket(o[i]) = b}

FiniteVote(n, o) ==
    /\ Voting(o) \subseteq 1..n /\ Voting(o) \subseteq Nat /\ Voting(o) \subseteq 0..n
    /\ IsFiniteSet(Voting(o)) /\ Cardinality(Voting(o)) \in Nat
    /\ \A b : /\ IsFiniteSet(VotersOf(o, b)) /\ Cardinality(VotersOf(o, b)) \in Nat
              /\ b # "" => VotersOf(o, b) \subseteq Voting(o)
    /\ \A i \in Voting(o) :
          VotesFor(o, o[i]) = Cardinality(VotersOf(o, Bucket(o[i]))) /\ VotesFor(o, o[i]) \in 0..n

LEMMA VotersAreFinite ==
    ASSUME NEW n \in Nat, NEW o, DOMAIN o = 1..n
    PROVE  FiniteVote(n, o)
<1>2. ASSUME NEW T \in SUBSET (1..n)
      PROVE  IsFiniteSet(T) /\ Cardinality(T) \in 0..n /\ Cardinality(T) \in Nat
  BY <1>2, PartsAreFinite
<1>3. Voting(o) \in SUBSET (1..n) /\ \A b : VotersOf(o, b) \in SUBSET (1..n)
  BY DEF Voting, VotersOf
<1>4. \A b : b # "" => VotersOf(o, b) \subseteq Voting(o)
  BY DEF Voting, VotersOf
<1>5. \A i \in Voting(o) : VotesFor(o, o[i]) = Cardinality(VotersOf(o, Bucket(o[i])))
  BY DEF VotesFor, VotersOf
<1>6. 1..n \subseteq Nat /\ 1..n \subseteq 0..n
  OBVIOUS
<1> QED BY <1>2, <1>3, <1>4, <1>5, <1>6 DEF FiniteVote

\* There is a first of those with most votes.
LEMMA MostIsThere ==
    ASSUME NEW n \in Nat, NEW o, DOMAIN o = 1..n, Voting(o) # {}
    PROVE  /\ FirstOfMost(o) \in Voting(o)
           /\ \A j \in Voting(o) : VotesFor(o, o[j]) <= VotesFor(o, o[FirstOfMost(o)])
<1> DEFINE V(i) == VotesFor(o, o[i])
           T == {V(i) : i \in Voting(o)}
<1>0. FiniteVote(n, o)
  BY VotersAreFinite
<1>1. \A i \in Voting(o) : V(i) \in 0..n
  BY <1>0 DEF FiniteVote
<1> HIDE DEF V
<1>2. T \subseteq 0..n /\ T # {}
  BY <1>1
<1>3. PICK v \in T : \A k \in T : k <= v
  <2> HIDE DEF T
  <2> QED BY <1>2, GreatestUpTo
<1> DEFINE S == {i \in Voting(o) : V(i) = v}
<1>4. S \subseteq Nat /\ S # {}
  <2>1. Voting(o) \subseteq Nat
    BY <1>0 DEF FiniteVote
  <2> QED BY <1>3, <2>1
<1>5. PICK m \in S : \A k \in S : m <= k
  <2> HIDE DEF S
  <2> QED BY <1>4, LeastNatural
<1>6. m \in Voting(o) /\ \A j \in Voting(o) : V(m) > V(j) \/ (V(m) = V(j) /\ m <= j)
  <2>1. m \in Voting(o) /\ V(m) = v
    BY <1>5
  <2>2. ASSUME NEW j \in Voting(o) PROVE V(m) > V(j) \/ (V(m) = V(j) /\ m <= j)
    <3>1. V(j) <= v /\ V(j) \in Nat /\ V(m) \in Nat
      BY <1>1, <1>3, <2>1
    <3>2. V(j) = v => m <= j
      BY <1>5
    <3> QED BY <2>1, <3>1, <3>2
  <2> QED BY <2>1, <2>2
<1>7. FirstOfMost(o) = CHOOSE i \in Voting(o) :
          \A j \in Voting(o) : V(i) > V(j) \/ (V(i) = V(j) /\ i <= j)
  BY DEF FirstOfMost, V
<1>8. /\ FirstOfMost(o) \in Voting(o)
      /\ \A j \in Voting(o) : V(FirstOfMost(o)) > V(j)
              \/ (V(FirstOfMost(o)) = V(j) /\ FirstOfMost(o) <= j)
  BY <1>6, <1>7
<1>9. \A j \in Voting(o) : V(j) <= V(FirstOfMost(o))
  BY <1>1, <1>8
<1> QED BY <1>8, <1>9 DEF V

\* The output returned is of the winning bucket.
LEMMA WinnerIsOfMost ==
    ASSUME NEW n \in Nat, NEW o, DOMAIN o = 1..n, Voting(o) # {}
    PROVE  Bucket(WinningOutput(o)) = Bucket(o[FirstOfMost(o)])
<1> DEFINE W == {i \in Voting(o) : Bucket(o[i]) = Bucket(o[FirstOfMost(o)])}
<1>1. W \subseteq 0..n /\ W # {}
  <2>1. Voting(o) \subseteq 0..n
    BY VotersAreFinite DEF FiniteVote
  <2>2. FirstOfMost(o) \in Voting(o)
    BY MostIsThere
  <2> QED BY <2>1, <2>2
<1>2. WinningOutput(o) = o[CHOOSE i \in W : \A j \in W : j <= i]
  BY DEF WinningOutput
<1>3. \E i \in W : \A j \in W : j <= i
  <2> HIDE DEF W
  <2> QED BY <1>1, GreatestUpTo
<1>4. PICK i \in W : i = CHOOSE k \in W : \A j \in W : j <= k
  BY <1>3
<1> QED BY <1>2, <1>4

\* What a vote returns.
LEMMA TallyIs ==
    ASSUME NEW o, NEW s \in {"majority", "unanimous"}
    PROVE  /\ Voting(o) = {} => TallyVotes(o, s).passed = FALSE
           /\ Voting(o) # {} =>
                 /\ TallyVotes(o, s).winner = WinningOutput(o)
                 /\ s = "majority" =>
                       TallyVotes(o, s).passed =
                          IsMajority(VotesFor(o, o[FirstOfMost(o)]), Cardinality(Voting(o)))
                 /\ s = "unanimous" =>
                       TallyVotes(o, s).passed =
                          (VotesFor(o, o[FirstOfMost(o)]) = Cardinality(Voting(o)))
<1>1. CASE Voting(o) = {}
  BY <1>1 DEF TallyVotes
<1>2. CASE Voting(o) # {} /\ s = "majority"
  BY <1>2 DEF TallyVotes
<1>3. CASE Voting(o) # {} /\ s = "unanimous"
  BY <1>3 DEF TallyVotes
<1> QED BY <1>1, <1>2, <1>3

Reorders(n, p) ==
    /\ p \in [1..n -> 1..n]
    /\ \A k \in 1..n : \E i \in 1..n : p[i] = k
    /\ \A i, j \in 1..n : p[i] = p[j] => i = j

\* p takes the n values of R, all of them up to n.
Takes(n, p, R) ==
    /\ n \in Nat /\ p \in [1..n -> 1..n] /\ Cardinality(R) = n
    /\ \A k : k \in R <=> \E i \in 1..n : p[i] = k

\* A function that takes every value of its finite domain takes each once.
LEMMA OrderIsBijection ==
    ASSUME NEW n, NEW p, NEW R, Takes(n, p, R)
    PROVE  Reorders(n, p)
<1>0. /\ n \in Nat /\ p \in [1..n -> 1..n] /\ Cardinality(R) = n
      /\ \A k : k \in R <=> \E i \in 1..n : p[i] = k
  BY DEF Takes
<1>1. IsFiniteSet(1..n) /\ Cardinality(1..n) = n
  BY <1>0, FS_Interval
<1>2. R \in SUBSET (1..n) /\ DOMAIN p = 1..n
  BY <1>0
<1>3. R = 1..n
  <2> DEFINE I == 1..n
  <2>1. n \in Nat /\ IsFiniteSet(I) /\ Cardinality(I) = n /\ Cardinality(R) = n /\ R \in SUBSET I
    BY <1>0, <1>1, <1>2
  <2> HIDE DEF I
  <2>2. I = R
    BY <2>1, FS_Subset
  <2> QED BY <2>2 DEF I
<1>4. \A k \in 1..n : \E i \in 1..n : p[i] = k
  BY <1>0, <1>3
<1>5. p \in Surjection(1..n, 1..n)
  BY <1>0, <1>4 DEF Surjection
<1>6. p \in Injection(1..n, 1..n)
  <2> DEFINE I == 1..n
  <2>1. IsFiniteSet(I) /\ p \in Surjection(I, I)
    BY <1>1, <1>5
  <2> HIDE DEF I
  <2>2. p \in Injection(I, I)
    BY <2>1, FS_SurjSameCardinalityImpliesInj
  <2> QED BY <2>2 DEF I
<1> QED BY <1>0, <1>4, <1>6 DEF Injection, IsInjective, Reorders

\* Another order of the same outputs gives every bucket as many votes.
LEMMA OrderKeepsVotes ==
    ASSUME NEW n \in Nat, NEW p, Reorders(n, p),
           NEW A, A \subseteq 1..n, NEW B, B \subseteq 1..n,
           \A i \in 1..n : i \in A <=> p[i] \in B
    PROVE  Cardinality(A) = Cardinality(B)
<1> DEFINE g == [i \in A |-> p[i]]
<1>1. /\ p \in [1..n -> 1..n] /\ \A k \in 1..n : \E i \in 1..n : p[i] = k
      /\ \A i, j \in 1..n : p[i] = p[j] => i = j
  BY DEF Reorders
<1>2. g \in [A -> B] /\ \A i, j \in A : g[i] = g[j] => i = j
  BY <1>1
<1>3. \A k \in B : \E i \in A : g[i] = k
  BY <1>1
<1> HIDE DEF g
<1>4. g \in Bijection(A, B)
  BY <1>2, <1>3 DEF Bijection, Injection, Surjection, IsInjective
<1>5. ExistsBijection(A, B)
  BY <1>4 DEF ExistsBijection
<1>6. IsFiniteSet(A)
  BY PartsAreFinite
<1> QED BY <1>5, <1>6, FS_Bijection

\* The outputs q are those of o, in the order p.
InOrder(n, o, p, q) ==
    /\ n \in Nat /\ DOMAIN o = 1..n /\ DOMAIN q = 1..n
    /\ \A i \in 1..n : q[i] = o[p[i]]

\* A vote that passed also passes on q, and elects the same bucket.
SameVerdict(o, q, s) ==
    TallyVotes(o, s).passed =>
        /\ TallyVotes(q, s).passed
        /\ Bucket(TallyVotes(q, s).winner) = Bucket(TallyVotes(o, s).winner)

CountsVotes(s) == s \in {"majority", "unanimous"}

\* A vote that passes elects the same bucket in every order.
LEMMA VoteInOtherOrder ==
    ASSUME NEW n, NEW o, NEW p, NEW q, NEW s,
           InOrder(n, o, p, q), Reorders(n, p), CountsVotes(s)
    PROVE  SameVerdict(o, q, s)
<1> SUFFICES ASSUME TallyVotes(o, s).passed
             PROVE  /\ TallyVotes(q, s).passed
                    /\ Bucket(TallyVotes(q, s).winner) = Bucket(TallyVotes(o, s).winner)
  BY DEF SameVerdict
<1>0. n \in Nat /\ DOMAIN o = 1..n /\ s \in {"majority", "unanimous"}
  BY DEF InOrder, CountsVotes
<1>1. DOMAIN q = 1..n /\ \A i \in 1..n : q[i] = o[p[i]] /\ p[i] \in 1..n
  BY DEF Reorders, InOrder
<1>f. FiniteVote(n, o) /\ FiniteVote(n, q)
  BY <1>0, <1>1, VotersAreFinite
<1>2. \A x : Cardinality(VotersOf(q, x)) = Cardinality(VotersOf(o, x))
  <2>1. TAKE x
  <2>2. \A i \in 1..n : i \in VotersOf(q, x) <=> p[i] \in VotersOf(o, x)
    BY <1>0, <1>1 DEF VotersOf
  <2>3. VotersOf(q, x) \subseteq 1..n /\ VotersOf(o, x) \subseteq 1..n
    BY <1>0, <1>1 DEF VotersOf
  <2> QED BY <1>0, <2>2, <2>3, OrderKeepsVotes
<1>3. Cardinality(Voting(q)) = Cardinality(Voting(o))
  <2>1. \A i \in 1..n : i \in Voting(q) <=> p[i] \in Voting(o)
    BY <1>0, <1>1 DEF Voting
  <2>2. Voting(q) \subseteq 1..n /\ Voting(o) \subseteq 1..n
    BY <1>0, <1>1 DEF Voting
  <2> QED BY <1>0, <2>1, <2>2, OrderKeepsVotes
<1> DEFINE b == Bucket(o[FirstOfMost(o)])
           c == Bucket(q[FirstOfMost(q)])
           total == Cardinality(Voting(o))
<1>4. Voting(o) # {} /\ Voting(q) # {} /\ total \in Nat /\ total # 0
  <2>1. Voting(o) # {}
    BY <1>0, TallyIs
  <2>2. IsFiniteSet(Voting(o)) /\ IsFiniteSet(Voting(q)) /\ total \in Nat
    BY <1>0, <1>f DEF FiniteVote
  <2> QED BY <1>0, <1>3, <2>1, <2>2, FS_EmptySet
<1>5. FirstOfMost(o) \in Voting(o) /\ FirstOfMost(q) \in Voting(q) /\ b # "" /\ c # ""
  BY <1>0, <1>1, <1>4, MostIsThere DEF Voting
<1> DEFINE most == Cardinality(VotersOf(o, b))
           again == Cardinality(VotersOf(q, c))
<1>6. /\ VotesFor(o, o[FirstOfMost(o)]) = most /\ VotesFor(q, q[FirstOfMost(q)]) = again
      /\ most \in Nat /\ again \in Nat
      /\ IsFiniteSet(VotersOf(q, b)) /\ VotersOf(q, b) \subseteq Voting(q)
      /\ IsFiniteSet(VotersOf(q, c)) /\ VotersOf(q, c) \subseteq Voting(q)
      /\ IsFiniteSet(Voting(q))
  BY <1>0, <1>f, <1>5 DEF FiniteVote
<1>7. IF s = "majority" THEN 2 * most > total ELSE most = total
  BY <1>0, <1>4, <1>6, TallyIs DEF IsMajority
<1>8. Cardinality(VotersOf(q, b)) = most /\ most # 0
  BY <1>0, <1>2, <1>4, <1>6, <1>7
<1>9. most <= again
  <2>1. PICK j \in VotersOf(q, b) : TRUE
    BY <1>0, <1>6, <1>8, FS_EmptySet
  <2>2. j \in Voting(q) /\ Bucket(q[j]) = b
    BY <1>0, <1>6, <2>1 DEF VotersOf
  <2>3. VotesFor(q, q[j]) = most
    BY <1>0, <1>f, <1>8, <2>2 DEF FiniteVote
  <2> QED BY <1>0, <1>1, <1>4, <1>6, <2>2, <2>3, MostIsThere
<1>10. b = c
  <2> SUFFICES ASSUME b # c PROVE FALSE
    OBVIOUS
  <2>1. VotersOf(q, b) \cap VotersOf(q, c) = {}
    BY DEF VotersOf
  <2>2. Cardinality(VotersOf(q, b) \cup VotersOf(q, c)) = most + again
    <3> DEFINE P == VotersOf(q, b)
               R == VotersOf(q, c)
    <3>1. IsFiniteSet(P) /\ IsFiniteSet(R) /\ Cardinality(P) = most /\ Cardinality(R) = again
          /\ P \cap R = {}
      BY <1>0, <1>6, <1>8, <2>1
    <3> HIDE DEF P, R, most, again
    <3>2. Cardinality(P \cup R) = most + again - Cardinality({})
      BY <3>1, FS_Union
    <3>3. Cardinality({}) = 0
      BY FS_EmptySet
    <3>4. Cardinality(P \cup R) = most + again
      BY <1>0, <1>6, <3>2, <3>3
    <3> QED BY <3>4 DEF P, R
  <2>3. most + again <= total
    BY <1>0, <1>3, <1>6, <2>2, FS_Subset
  <2> HIDE DEF most, again, total
  <2> QED BY <1>0, <1>4, <1>6, <1>7, <1>8, <1>9, <2>3
<1>11. again = most
  BY <1>0, <1>2, <1>10
<1>12. TallyVotes(q, s).passed
  <2>1. VotesFor(q, q[FirstOfMost(q)]) = most /\ Cardinality(Voting(q)) = total
    BY <1>0, <1>3, <1>6, <1>11
  <2>2. /\ s = "majority" => TallyVotes(q, s).passed = IsMajority(most, total)
        /\ s = "unanimous" => TallyVotes(q, s).passed = (most = total)
    <3>1. Voting(q) # {}
      BY <1>0, <1>4
    <3> HIDE DEF most, total
    <3> QED BY <2>1, <3>1, TallyIs
  <2> HIDE DEF most, total
  <2> QED BY <1>0, <1>7, <2>2 DEF IsMajority
<1>13. Bucket(TallyVotes(q, s).winner) = c /\ Bucket(TallyVotes(o, s).winner) = b
  BY <1>0, <1>1, <1>4, TallyIs, WinnerIsOfMost
<1> QED BY <1>0, <1>10, <1>12, <1>13

-----------------------------------------------------------------------------
(* The primitives                                                           *)

\* What a report on a child has done.
Reports == [status : {102, 200, 500}, told : SUBSET Subscribers, firedOk : Nat,
            raised : BOOLEAN]

SuperviseInv ==
    /\ IsFiniteSet(registry)
    /\ answer = NoAnswer => due = {} /\ \A s \in Subscribers : fired[s] = 0
    /\ answer # NoAnswer =>
          /\ answer \in Reports /\ IsFiniteSet(answer.told) /\ due \subseteq answer.told
          /\ \A s \in Subscribers : fired[s] = IF s \in answer.told \ due THEN 1 ELSE 0
          /\ answer.raised = FALSE => answer.firedOk = Cardinality(answer.told \ due)
          /\ answer.raised = TRUE => answer.firedOk < Cardinality(answer.told \ due)
          /\ answer.status # 102 => due = {} /\ (answer.status = 200 <=> answer.raised = FALSE)

\* What the two collections of federate say of the children dispatched so far.
Noted ==
    /\ childIds \in Seq(1..MaxClis)
    /\ \A k \in DOMAIN children :
          children[k] = "runs" <=> \E i \in DOMAIN childIds : childIds[i] = k
    /\ \A i \in DOMAIN childIds : childIds[i] \in DOMAIN children
    /\ \A i, j \in DOMAIN childIds : i < j => childIds[i] < childIds[j]
    /\ dispatchErrors \subseteq DOMAIN children
    /\ \A k \in DOMAIN children : k \in dispatchErrors <=> children[k] # "runs"

FederateInv ==
    /\ Noted /\ Len(children) <= request.clis
    /\ answer.status = 200 => /\ Len(children) = request.clis
                              /\ answer.tasks = childIds /\ answer.errors = dispatchErrors

HandOverInv ==
    answer.status = 200 => /\ children = <<"runs">> /\ answer.tasks = <<1>>
                           /\ (1 \in sourceLog) = answer.logOpen

VoteInv ==
    answer.status = 200 => /\ ballot.outputs \in Seq(BallotTexts) /\ ballot.strategy \in Strategies
                           /\ answer.outcome = TallyVotes(ballot.outputs, ballot.strategy)

PrimitivesInv ==
    /\ PrimitivesTypeOK
    /\ request.kind = "supervise" => SuperviseInv
    /\ request.kind = "federate" => FederateInv
    /\ request.kind = "relay" => HandOverInv
    /\ request.kind = "vote" => VoteInv

LEMMA KindsOfRequest ==
    ASSUME request \in Requests
    PROVE  /\ request.kind \in {"relay", "source", "federate", "vote", "supervise"}
           /\ request.kind = "federate" => request.clis \in 0..MaxClis
<1>1. CASE request \in [kind : {"relay", "source"}, source : {"absent", "running", "ended"},
                        complete : BOOLEAN]
  BY <1>1
<1>2. CASE request \in [kind : {"federate"}, clis : 0..MaxClis, known : BOOLEAN]
  BY <1>2
<1>3. CASE request \in [kind : {"vote"}] \cup [kind : {"supervise"}]
  BY <1>3
<1> QED BY <1>1, <1>2, <1>3 DEF Requests

\* A child more.
LEMMA ChildAppended ==
    ASSUME PrimitivesTypeOK, NEW how \in ChildFates, DispatchChild(how),
           Len(children) <= MaxClis
    PROVE  /\ children' \in Seq(ChildFates) /\ Len(children') = Len(children) + 1
           /\ Len(children) \in Nat /\ DOMAIN children = 1..Len(children)
           /\ DOMAIN children' = 1..(Len(children) + 1)
           /\ children'[Len(children) + 1] = how
           /\ \A k \in 1..Len(children) : children'[k] = children[k]
<1>1. children \in Seq(ChildFates)
  BY DEF PrimitivesTypeOK
<1>2. children' = Append(children, how)
  BY DEF DispatchChild
<1> QED BY <1>1, <1>2, AppendProperties, LenProperties

LEMMA FederateKeeps ==
    ASSUME PrimitivesTypeOK, request.kind = "federate", FederateInv, FederateDispatches
    PROVE  /\ FederateInv' /\ Len(children') <= MaxClis /\ children' \in Seq(ChildFates)
           /\ childIds' \in Seq(1..MaxClis) /\ dispatchErrors' \subseteq 1..MaxClis
<1> DEFINE n == Len(children)
           m == Len(childIds)
<1>1. PICK how \in ChildFates :
          /\ DispatchChild(how)
          /\ IF how = "runs"
             THEN childIds' = Append(childIds, n + 1) /\ UNCHANGED dispatchErrors
             ELSE dispatchErrors' = dispatchErrors \cup {n + 1} /\ UNCHANGED childIds
  BY DEF FederateDispatches
<1>2. UNCHANGED <<request, answer>> /\ answer.status = 0 /\ n < request.clis
  BY DEF FederateDispatches, callVars, Asked, NoAnswer
<1>3. request.clis \in 0..MaxClis /\ MaxClis \in Nat
  BY KindsOfRequest, ClisAssumption DEF PrimitivesTypeOK
<1>4. children \in Seq(ChildFates) /\ n \in Nat
  BY LenProperties DEF PrimitivesTypeOK
<1>5. /\ children' \in Seq(ChildFates) /\ Len(children') = n + 1
      /\ DOMAIN children = 1..n /\ DOMAIN children' = 1..(n + 1)
      /\ children'[n + 1] = how /\ \A k \in 1..n : children'[k] = children[k]
  BY <1>1, <1>2, <1>3, <1>4, ChildAppended
<1>6. /\ childIds \in Seq(1..MaxClis) /\ m \in Nat /\ DOMAIN childIds = 1..m
      /\ \A k \in 1..n : children[k] = "runs" <=> \E i \in 1..m : childIds[i] = k
      /\ \A i \in 1..m : childIds[i] \in 1..n
      /\ \A i, j \in 1..m : i < j => childIds[i] < childIds[j]
      /\ dispatchErrors \subseteq 1..n
      /\ \A k \in 1..n : k \in dispatchErrors <=> children[k] # "runs"
  <2>1. childIds \in Seq(1..MaxClis)
    BY DEF FederateInv, Noted
  <2>2. m \in Nat /\ DOMAIN childIds = 1..m
    BY <2>1, LenProperties
  <2> QED BY <1>5, <2>1, <2>2 DEF FederateInv, Noted
<1> HIDE DEF n, m
<1>7. Noted'
  <2>1. CASE how = "runs"
    <3>1. /\ childIds' \in Seq(1..MaxClis) /\ DOMAIN childIds' = 1..(m + 1)
          /\ childIds'[m + 1] = n + 1 /\ \A i \in 1..m : childIds'[i] = childIds[i]
      <4>1. n + 1 \in 1..MaxClis /\ childIds' = Append(childIds, n + 1)
        BY <1>1, <1>2, <1>3, <1>4, <2>1 DEF n
      <4> QED BY <1>6, <4>1, AppendProperties, LenProperties DEF m
    <3>2. dispatchErrors' = dispatchErrors
      BY <1>1, <2>1
    <3>3. \A k \in 1..(n + 1) : children'[k] = "runs" <=> \E i \in 1..(m + 1) : childIds'[i] = k
      <4>1. TAKE k \in 1..(n + 1)
      <4>2. CASE k = n + 1
        BY <1>5, <1>6, <2>1, <3>1, <4>2
      <4>3. CASE k \in 1..n
        <5>1. children'[k] = "runs" <=> \E i \in 1..m : childIds[i] = k
          BY <1>5, <1>6, <4>3
        <5>2. \A i \in 1..(m + 1) : childIds'[i] = k => i \in 1..m
          BY <1>4, <1>6, <3>1, <4>3
        <5>3. \A i \in 1..m : i \in 1..(m + 1) /\ childIds'[i] = childIds[i]
          BY <1>6, <3>1
        <5> QED BY <5>1, <5>2, <5>3
      <4> QED BY <1>4, <4>2, <4>3
    <3>4. /\ \A i \in 1..(m + 1) : childIds'[i] \in 1..(n + 1)
          /\ \A i, j \in 1..(m + 1) : i < j => childIds'[i] < childIds'[j]
      <4>1. \A i \in 1..(m + 1) : i = m + 1 \/ i \in 1..m
        BY <1>6
      <4>2. \A i \in 1..m : childIds'[i] \in 1..n
        BY <1>6, <3>1
      <4>3. \A i \in 1..(m + 1) : childIds'[i] \in 1..(n + 1)
        BY <1>4, <3>1, <4>1, <4>2
      <4>4. ASSUME NEW i \in 1..(m + 1), NEW j \in 1..(m + 1), i < j
            PROVE  childIds'[i] < childIds'[j]
        <5>1. i \in 1..m
          BY <1>6, <4>4
        <5>2. CASE j = m + 1
          BY <1>4, <3>1, <4>2, <5>1, <5>2
        <5>3. CASE j \in 1..m
          BY <1>6, <3>1, <4>4, <5>1, <5>3
        <5> QED BY <4>1, <5>2, <5>3
      <4> QED BY <4>3, <4>4
    <3>5. /\ dispatchErrors' \subseteq 1..(n + 1)
          /\ \A k \in 1..(n + 1) : k \in dispatchErrors' <=> children'[k] # "runs"
      BY <1>4, <1>5, <1>6, <2>1, <3>2
    <3> QED BY <1>5, <3>1, <3>3, <3>4, <3>5 DEF Noted
  <2>2. CASE how # "runs"
    <3>1. childIds' = childIds /\ dispatchErrors' = dispatchErrors \cup {n + 1}
      BY <1>1, <2>2 DEF n
    <3>2. \A k \in 1..(n + 1) : children'[k] = "runs" <=> \E i \in 1..m : childIds[i] = k
      BY <1>4, <1>5, <1>6, <2>2
    <3>3. \A i \in 1..m : childIds[i] \in 1..(n + 1)
      BY <1>4, <1>6
    <3>4. /\ dispatchErrors' \subseteq 1..(n + 1)
          /\ \A k \in 1..(n + 1) : k \in dispatchErrors' <=> children'[k] # "runs"
      BY <1>4, <1>5, <1>6, <2>2, <3>1
    <3> QED BY <1>5, <1>6, <3>1, <3>2, <3>3, <3>4 DEF Noted
  <2> QED BY <2>1, <2>2
<1>8. n + 1 <= request.clis /\ n + 1 <= MaxClis
  BY <1>2, <1>3, <1>4 DEF n
<1>9. FederateInv'
  BY <1>2, <1>5, <1>7, <1>8 DEF FederateInv
<1>10. dispatchErrors' \subseteq 1..MaxClis
  BY <1>3, <1>4, <1>5, <1>7, <1>8 DEF Noted
<1> QED BY <1>5, <1>7, <1>8, <1>9, <1>10 DEF Noted

\* The report on a child.
LEMMA ReportKeeps ==
    ASSUME PrimitivesTypeOK, SuperviseInv, Supervising,
           \/ \E s \in Subscribers : Subscribe(s) \/ Unsubscribe(s) \/ CallNext(s)
           \/ \E outcome \in {"completed", "failed", "canceled"} : OnChildTerminal(outcome)
           \/ ReportReturns
    PROVE  /\ SuperviseInv'
           /\ registry' \subseteq Subscribers /\ due' \subseteq Subscribers
           /\ fired' \in [Subscribers -> 0..1]
           /\ answer' = answer \/ answer' \in Reports
<1>t. /\ registry \subseteq Subscribers /\ due \subseteq Subscribers
      /\ fired \in [Subscribers -> 0..1] /\ IsFiniteSet(registry)
  BY DEF PrimitivesTypeOK, SuperviseInv
<1>n. \A r \in Reports : r # NoAnswer
  BY DEF Reports, NoAnswer
<1>1. CASE \E s \in Subscribers : Subscribe(s) \/ Unsubscribe(s)
  <2>1. PICK s \in Subscribers : registry' = registry \cup {s} \/ registry' = registry \ {s}
    BY <1>1 DEF Subscribe, Unsubscribe
  <2>2. UNCHANGED <<answer, due, fired>>
    BY <1>1 DEF Subscribe, Unsubscribe
  <2>3. IsFiniteSet(registry')
    BY <1>t, <2>1, FS_AddElement, FS_RemoveElement
  <2> QED BY <1>t, <2>1, <2>2, <2>3 DEF SuperviseInv
<1>2. ASSUME NEW outcome, OnChildTerminal(outcome)
      PROVE  SuperviseInv' /\ UNCHANGED <<registry, fired>> /\ due' \subseteq Subscribers
             /\ answer' \in Reports
  <2>1. /\ answer = NoAnswer /\ UNCHANGED <<registry, fired>>
        /\ due' \subseteq registry
        /\ answer' = [status |-> 102, told |-> due', firedOk |-> 0, raised |-> FALSE]
    BY <1>2 DEF OnChildTerminal
  <2>2. answer' \in Reports /\ answer'.told = due' /\ answer'.firedOk = 0
        /\ answer'.raised = FALSE /\ answer'.status = 102
    BY <1>t, <2>1 DEF Reports
  <2>3. IsFiniteSet(due')
    BY <1>t, <2>1, FS_Subset
  <2>4. Cardinality(due' \ due') = 0
    BY FS_EmptySet
  <2>5. \A s \in Subscribers : fired'[s] = 0
    BY <2>1 DEF SuperviseInv
  <2> QED BY <1>t, <1>n, <2>1, <2>2, <2>3, <2>4, <2>5 DEF SuperviseInv
<1>3. ASSUME NEW s \in Subscribers, CallNext(s)
      PROVE  SuperviseInv' /\ UNCHANGED registry /\ due' \subseteq Subscribers
             /\ fired' \in [Subscribers -> 0..1] /\ answer' \in Reports
  <2>1. /\ s \in due /\ due' = due \ {s} /\ fired' = [fired EXCEPT ![s] = @ + 1]
        /\ UNCHANGED registry
    BY <1>3 DEF CallNext
  <2>2. /\ answer # NoAnswer /\ answer \in Reports /\ IsFiniteSet(answer.told)
        /\ due \subseteq answer.told
        /\ \A r \in Subscribers : fired[r] = IF r \in answer.told \ due THEN 1 ELSE 0
        /\ answer.raised = FALSE => answer.firedOk = Cardinality(answer.told \ due)
        /\ answer.raised = TRUE => answer.firedOk < Cardinality(answer.told \ due)
        /\ answer.status = 102
    BY <2>1 DEF SuperviseInv
  <2>3. /\ answer.told \in SUBSET Subscribers /\ answer.firedOk \in Nat
        /\ answer.raised \in BOOLEAN
    BY <2>2 DEF Reports
  <2>4. Cardinality(answer.told \ due') = Cardinality(answer.told \ due) + 1
        /\ Cardinality(answer.told \ due) \in Nat
    <3>1. IsFiniteSet(answer.told \ due)
      BY <2>2, FS_Subset
    <3>2. answer.told \ due' = (answer.told \ due) \cup {s} /\ s \notin answer.told \ due
      BY <2>1, <2>2
    <3> QED BY <3>1, <3>2, FS_AddElement, FS_CardinalityType
  <2>5. /\ fired' \in [Subscribers -> 0..1]
        /\ \A r \in Subscribers : fired'[r] = IF r \in answer.told \ due' THEN 1 ELSE 0
    <3>1. fired[s] = 0
      BY <2>1, <2>2
    <3>2. fired'[s] = 1 /\ \A r \in Subscribers \ {s} : fired'[r] = fired[r]
      BY <1>t, <2>1, <3>1
    <3>3. fired' \in [Subscribers -> 0..1]
      BY <1>t, <2>1, <3>1
    <3> QED BY <2>1, <2>2, <3>2, <3>3
  <2>6. /\ answer' \in Reports /\ answer'.told = answer.told /\ answer'.status = 102
        /\ \/ answer'.firedOk = answer.firedOk + 1 /\ answer'.raised = answer.raised
           \/ answer'.firedOk = answer.firedOk /\ answer'.raised = TRUE
    <3>1. CASE answer' = [answer EXCEPT !.firedOk = @ + 1]
      BY <2>2, <2>3, <3>1 DEF Reports
    <3>2. CASE answer' = [answer EXCEPT !.raised = TRUE]
      BY <2>2, <2>3, <3>2 DEF Reports
    <3> QED BY <1>3, <3>1, <3>2 DEF CallNext
  <2>7. /\ answer'.raised = FALSE => answer'.firedOk = Cardinality(answer.told \ due')
        /\ answer'.raised = TRUE => answer'.firedOk < Cardinality(answer.told \ due')
    BY <2>2, <2>3, <2>4, <2>6
  <2> QED BY <1>t, <1>n, <2>1, <2>2, <2>5, <2>6, <2>7 DEF SuperviseInv
<1>4. CASE ReportReturns
  <2>1. /\ answer.status = 102 /\ due = {} /\ UNCHANGED <<registry, due, fired>>
        /\ answer' = [answer EXCEPT !.status = IF answer.raised THEN 500 ELSE 200]
    BY <1>4 DEF ReportReturns
  <2>2. answer # NoAnswer /\ answer \in Reports
    BY <2>1 DEF SuperviseInv, NoAnswer
  <2>3. /\ answer' \in Reports /\ answer'.told = answer.told
        /\ answer'.firedOk = answer.firedOk /\ answer'.raised = answer.raised
        /\ answer'.status = IF answer.raised THEN 500 ELSE 200
    BY <2>1, <2>2 DEF Reports
  <2>4. answer.raised \in BOOLEAN
    BY <2>2 DEF Reports
  <2> QED BY <1>t, <1>n, <2>1, <2>2, <2>3, <2>4 DEF SuperviseInv
<1> QED BY <1>t, <1>1, <1>2, <1>3, <1>4

\* Every step keeps the invariant.
LEMMA PrimitivesStep ==
    ASSUME PrimitivesInv, [PrimitivesNext]_primitiveVars
    PROVE  PrimitivesInv'
<1> DEFINE Statuses == {0, 102, 200, 400, 404, 500}
<1>t. /\ request \in Requests /\ children \in Seq(ChildFates) /\ Len(children) <= MaxClis + 1
      /\ childIds \in Seq(1..MaxClis) /\ dispatchErrors \subseteq 1..MaxClis
      /\ sourceLog \subseteq {1} /\ answer.status \in Statuses
      /\ ballot = NoBallot \/ ballot.strategy \in Strategies
      /\ callbacks \in [Subscribers -> {"both", "complete", "fail", "none"}]
      /\ registry \subseteq Subscribers /\ due \subseteq Subscribers
      /\ fired \in [Subscribers -> 0..1]
  BY DEF PrimitivesInv, PrimitivesTypeOK
<1>0. NoAnswer.status = 0
  BY DEF NoAnswer
\* An answer to a request of one kind, with the children as they are.
<1>a. ASSUME NEW a, Reply(a), a.status \in Statuses,
             request.kind # "supervise", request.kind # "vote",
             children' \in Seq(ChildFates), Len(children') <= MaxClis + 1,
             UNCHANGED <<childIds, dispatchErrors>>, sourceLog' \subseteq {1},
             request.kind = "federate" => FederateInv', request.kind = "relay" => HandOverInv'
      PROVE  PrimitivesInv'
  <2>1. /\ answer' = a
        /\ UNCHANGED <<request, ballot, callbacks, registry, due, fired>>
    BY <1>a DEF Reply, superviseVars
  <2>2. PrimitivesTypeOK'
    BY <1>t, <1>a, <2>1 DEF PrimitivesTypeOK
  <2> QED BY <1>a, <2>1, <2>2 DEF PrimitivesInv
<1>1. CASE RelayRefused \/ SourceInfo \/ FederateRefused
  <2>1. PICK a : Reply(a) /\ a.status \in {200, 400, 404}
                 /\ (a.status = 200 => request.kind = "source")
    <3>1. CASE RelayRefused
      BY <3>1 DEF RelayRefused, Asked
    <3>2. CASE FederateRefused
      BY <3>2 DEF FederateRefused, Asked
    <3>3. CASE SourceInfo
      <4>1. request.source \in {"absent", "running", "ended"}
        BY <1>t, <3>3 DEF SourceInfo, Asked, Requests
      <4> QED BY <3>3, <4>1 DEF SourceInfo, Asked
    <3> QED BY <1>1, <3>1, <3>2, <3>3
  <2>2. /\ UNCHANGED <<children, childIds, dispatchErrors, sourceLog>>
        /\ request.kind \in {"relay", "source", "federate"}
    BY <1>1 DEF RelayRefused, SourceInfo, FederateRefused, childVars, Asked
  <2>3. answer' = a /\ UNCHANGED request
    BY <2>1 DEF Reply
  <2>4. request.kind = "federate" => FederateInv'
    BY <2>1, <2>2, <2>3 DEF PrimitivesInv, FederateInv, Noted
  <2>5. request.kind = "relay" => HandOverInv'
    BY <2>1, <2>2, <2>3 DEF HandOverInv
  <2> QED BY <1>t, <1>a, <2>1, <2>2, <2>4, <2>5
<1>2. CASE RelayDispatches
  <2>1. PICK how \in ChildFates :
            /\ DispatchChild(how)
            /\ IF how = "runs" THEN UNCHANGED <<callVars, ballot, superviseVars>>
               ELSE \E status \in {400, 500} : Reply([status |-> status])
    BY <1>2 DEF RelayDispatches
  <2>2. /\ request.kind = "relay" /\ answer = NoAnswer /\ children = <<>>
        /\ UNCHANGED <<childIds, dispatchErrors, sourceLog>>
    BY <1>2 DEF RelayDispatches, Asked
  <2>3. children' \in Seq(ChildFates) /\ Len(children') <= MaxClis + 1
    <3>1. Len(children) = 0 /\ MaxClis \in Nat
      BY <2>2, ClisAssumption
    <3>2. Len(children') = 1 /\ children' \in Seq(ChildFates)
      BY <2>1, <3>1, ChildAppended DEF PrimitivesInv
    <3> QED BY <3>1, <3>2
  <2>4. CASE how = "runs"
    <3>1. UNCHANGED <<request, answer, ballot, callbacks, registry, due, fired>>
      BY <2>1, <2>4 DEF callVars, superviseVars
    <3>2. PrimitivesTypeOK'
      BY <1>t, <2>2, <2>3, <3>1 DEF PrimitivesTypeOK
    <3> QED BY <1>0, <2>2, <3>1, <3>2 DEF PrimitivesInv, HandOverInv
  <2>5. CASE how # "runs"
    <3>1. PICK status \in {400, 500} : Reply([status |-> status])
      BY <2>1, <2>5
    <3>2. answer'.status = status /\ UNCHANGED request
      BY <3>1 DEF Reply
    <3>3. HandOverInv'
      BY <3>2 DEF HandOverInv
    <3> QED BY <1>t, <1>a, <2>2, <2>3, <3>1, <3>3
  <2> QED BY <2>4, <2>5
<1>3. CASE RelayRecords
  <2>1. PICK logged \in {"open", "closed", "raises"} :
            /\ sourceLog' = IF logged = "open" THEN {1} ELSE {}
            /\ Reply(IF logged = "raises" THEN [status |-> 500]
                     ELSE [status |-> 200, tasks |-> <<1>>, logOpen |-> logged = "open"])
    BY <1>3 DEF RelayRecords
  <2>2. /\ request.kind = "relay" /\ children = <<"runs">>
        /\ UNCHANGED <<children, childIds, dispatchErrors>>
    BY <1>3 DEF RelayRecords, Asked
  <2>3. CASE logged = "raises"
    <3>1. Reply([status |-> 500]) /\ sourceLog' \subseteq {1}
      BY <2>1, <2>3
    <3>2. HandOverInv'
      BY <3>1 DEF HandOverInv, Reply
    <3> QED BY <1>t, <1>a, <2>2, <3>1, <3>2
  <2>4. CASE logged # "raises"
    <3> DEFINE a == [status |-> 200, tasks |-> <<1>>, logOpen |-> logged = "open"]
    <3>1. Reply(a) /\ sourceLog' \subseteq {1} /\ a.status = 200
      BY <2>1, <2>4
    <3>2. answer' = a
      BY <3>1 DEF Reply
    <3>3. answer'.tasks = <<1>> /\ answer'.logOpen = (logged = "open")
      BY <3>2
    <3>4. (1 \in sourceLog') = (logged = "open")
      BY <2>1
    <3>5. HandOverInv'
      BY <2>2, <3>3, <3>4 DEF HandOverInv
    <3> HIDE DEF a
    <3> QED BY <1>t, <1>a, <2>2, <3>1, <3>5
  <2> QED BY <2>3, <2>4
<1>4. CASE FederateDispatches
  <2>1. /\ request.kind = "federate"
        /\ UNCHANGED <<request, answer, sourceLog, ballot, callbacks, registry, due, fired>>
    BY <1>4 DEF FederateDispatches, Asked, callVars, superviseVars
  <2>2. /\ FederateInv' /\ Len(children') <= MaxClis /\ children' \in Seq(ChildFates)
        /\ childIds' \in Seq(1..MaxClis) /\ dispatchErrors' \subseteq 1..MaxClis
    BY <1>4, <2>1, FederateKeeps DEF PrimitivesInv
  <2>3. Len(children') <= MaxClis + 1
    BY <2>2, ClisAssumption, LenProperties
  <2>4. PrimitivesTypeOK'
    BY <1>t, <2>1, <2>2, <2>3 DEF PrimitivesTypeOK
  <2> QED BY <2>1, <2>2, <2>4 DEF PrimitivesInv
<1>5. CASE FederateAnswers
  <2> DEFINE a == [status |-> 200, tasks |-> childIds, errors |-> dispatchErrors]
  <2>1. /\ request.kind = "federate" /\ Len(children) = request.clis /\ Reply(a)
        /\ UNCHANGED <<children, childIds, dispatchErrors, sourceLog>>
    BY <1>5 DEF FederateAnswers, Asked, childVars
  <2>2. answer' = a /\ UNCHANGED request
    BY <2>1 DEF Reply
  <2>3. answer'.tasks = childIds /\ answer'.errors = dispatchErrors /\ a.status = 200
    BY <2>2
  <2>4. FederateInv'
    BY <2>1, <2>2, <2>3 DEF PrimitivesInv, FederateInv, Noted
  <2> HIDE DEF a
  <2> QED BY <1>t, <1>a, <2>1, <2>3, <2>4
<1>6. CASE Vote
  <2>1. PICK n \in 0..MaxClis, strategy \in Strategies : \E outputs \in [1..n -> BallotTexts] :
            /\ ballot' = [outputs |-> outputs, strategy |-> strategy]
            /\ answer' = [status |-> 200, outcome |-> TallyVotes(outputs, strategy)]
    BY <1>6 DEF Vote
  <2>2. PICK outputs \in [1..n -> BallotTexts] :
            /\ ballot' = [outputs |-> outputs, strategy |-> strategy]
            /\ answer' = [status |-> 200, outcome |-> TallyVotes(outputs, strategy)]
    BY <2>1
  <2>3. /\ request.kind = "vote"
        /\ UNCHANGED <<request, children, childIds, dispatchErrors, sourceLog, callbacks,
                       registry, due, fired>>
    BY <1>6 DEF Vote, Asked, childVars, superviseVars
  <2>4. outputs \in Seq(BallotTexts)
    BY ClisAssumption
  <2>5. /\ answer'.status = 200 /\ answer'.outcome = TallyVotes(outputs, strategy)
        /\ ballot'.outputs = outputs /\ ballot'.strategy = strategy
    BY <2>2
  <2>6. PrimitivesTypeOK'
    BY <1>t, <2>3, <2>5 DEF PrimitivesTypeOK
  <2> QED BY <2>3, <2>4, <2>5, <2>6 DEF PrimitivesInv, VoteInv
<1>7. CASE \/ \E s \in Subscribers : Subscribe(s) \/ Unsubscribe(s) \/ CallNext(s)
           \/ \E outcome \in {"completed", "failed", "canceled"} : OnChildTerminal(outcome)
           \/ ReportReturns
  <2>1. Supervising
    BY <1>7 DEF Subscribe, Unsubscribe, CallNext, OnChildTerminal, ReportReturns
  <2>2. /\ request.kind = "supervise"
        /\ UNCHANGED <<request, children, childIds, dispatchErrors, sourceLog, ballot, callbacks>>
    BY <2>1 DEF Supervising, childVars
  <2>3. /\ SuperviseInv' /\ registry' \subseteq Subscribers /\ due' \subseteq Subscribers
        /\ fired' \in [Subscribers -> 0..1] /\ (answer' = answer \/ answer' \in Reports)
    BY <1>7, <2>1, <2>2, ReportKeeps DEF PrimitivesInv
  <2>4. answer'.status \in Statuses
    BY <1>t, <2>3 DEF Reports
  <2>5. PrimitivesTypeOK'
    BY <1>t, <2>2, <2>3, <2>4 DEF PrimitivesTypeOK
  <2> QED BY <2>2, <2>3, <2>5 DEF PrimitivesInv
<1>8. CASE UNCHANGED primitiveVars
  <2>1. UNCHANGED <<request, answer, children, childIds, dispatchErrors, sourceLog, ballot,
                    callbacks, registry, due, fired>>
    BY <1>8 DEF primitiveVars, callVars, childVars, superviseVars
  <2> QED BY <2>1 DEF PrimitivesInv, PrimitivesTypeOK, SuperviseInv, FederateInv, Noted,
                      HandOverInv, VoteInv
<1> QED BY <1>1, <1>2, <1>3, <1>4, <1>5, <1>6, <1>7, <1>8 DEF PrimitivesNext

LEMMA PrimitivesHold == PrimitivesSpec => []PrimitivesInv
<1>1. PrimitivesInit => PrimitivesInv
  <2> SUFFICES ASSUME PrimitivesInit PROVE PrimitivesInv
    OBVIOUS
  <2>1. answer.status = 0 /\ <<>> \in Seq(ChildFates) /\ <<>> \in Seq(1..MaxClis)
        /\ Len(children) = 0 /\ DOMAIN children = {} /\ DOMAIN childIds = {}
    BY DEF PrimitivesInit, NoAnswer
  <2>2. fired \in [Subscribers -> 0..1] /\ \A s \in Subscribers : fired[s] = 0
    BY DEF PrimitivesInit
  <2>3. PrimitivesTypeOK
    BY <2>1, <2>2, ClisAssumption DEF PrimitivesInit, PrimitivesTypeOK
  <2>4. SuperviseInv
    BY <2>2, FS_EmptySet DEF PrimitivesInit, SuperviseInv
  <2>5. Noted
    BY <2>1 DEF PrimitivesInit, Noted
  <2>6. request.kind = "federate" => FederateInv
    BY <2>1, <2>3, <2>5, KindsOfRequest, ClisAssumption DEF FederateInv, PrimitivesTypeOK
  <2> QED BY <2>1, <2>3, <2>4, <2>6 DEF PrimitivesInv, HandOverInv, VoteInv
<1>2. PrimitivesInv /\ [PrimitivesNext]_primitiveVars => PrimitivesInv'
  BY PrimitivesStep
<1> QED BY <1>1, <1>2, PTL DEF PrimitivesSpec

\* The state of the primitives keeps its types, for any number of CLIs and of
\* subscriptions: no callback is called twice.
THEOREM PrimitivesTypeCorrect == PrimitivesSpec => []PrimitivesTypeOK
<1>1. PrimitivesInv => PrimitivesTypeOK
  BY DEF PrimitivesInv
<1> QED BY <1>1, PrimitivesHold, PTL

\* For any number of CLIs and subscriptions, what a graph node is told is so: a vote that
\* passes does not depend on the order of the outputs, a report that returns has told
\* everyone, and an answer names the children that run (federate.py: tally_votes,
\* federate; supervise.py: on_child_terminal; relay.py: relay).
THEOREM PrimitivesAreTrue == PrimitivesSpec => []PrimitivesAnswerTruly
<1>1. PrimitivesInv => VoteIgnoresOrder
  <2> SUFFICES ASSUME PrimitivesInv, request.kind = "vote", answer.status = 200,
                      ballot.strategy # "first_to_finish",
                      NEW order \in [DOMAIN ballot.outputs -> DOMAIN ballot.outputs],
                      answer.outcome.passed,
                      Cardinality({order[i] : i \in DOMAIN order}) = Len(ballot.outputs),
                      NEW again, again = TallyVotes([i \in DOMAIN order |-> ballot.outputs[order[i]]],
                                                    ballot.strategy)
               PROVE  again.passed /\ Bucket(again.winner) = Bucket(answer.outcome.winner)
    BY SMTT(30) DEF VoteIgnoresOrder
  <2> DEFINE o == ballot.outputs
             s == ballot.strategy
             q == [i \in DOMAIN order |-> o[order[i]]]
             R == {order[i] : i \in DOMAIN order}
  <2>1. o \in Seq(BallotTexts) /\ s \in {"majority", "unanimous"}
        /\ answer.outcome = TallyVotes(o, s)
    BY DEF PrimitivesInv, VoteInv, Strategies
  <2> DEFINE n == Len(o)
  <2>2. n \in Nat /\ DOMAIN o = 1..n
    BY <2>1, LenProperties
  <2>3. InOrder(n, o, order, q)
    BY <2>2 DEF InOrder
  <2>4. Takes(n, order, R)
    BY <2>2 DEF Takes
  <2>5. TallyVotes(o, s).passed /\ again = TallyVotes(q, s) /\ CountsVotes(s)
    BY <2>1 DEF CountsVotes
  <2> HIDE DEF o, s, q, R, n
  <2>6. Reorders(n, order)
    BY <2>4, OrderIsBijection
  <2>7. SameVerdict(o, q, s)
    BY <2>3, <2>5, <2>6, VoteInOtherOrder
  <2>8. /\ TallyVotes(q, s).passed
        /\ Bucket(TallyVotes(q, s).winner) = Bucket(TallyVotes(o, s).winner)
    BY <2>5, <2>7 DEF SameVerdict
  <2> QED BY <2>1, <2>5, <2>8
<1>2. PrimitivesInv => EveryoneIsTold
  <2> SUFFICES ASSUME PrimitivesInv, request.kind = "supervise", answer.status \in {200, 500}
               PROVE  /\ \A s \in Subscribers : fired[s] = IF s \in answer.told THEN 1 ELSE 0
                      /\ (answer.status = 200) = (answer.firedOk = Cardinality(answer.told))
    BY DEF EveryoneIsTold
  <2>1. answer # NoAnswer /\ SuperviseInv
    BY DEF PrimitivesInv, NoAnswer
  <2>2. /\ due = {} /\ answer.told \ due = answer.told /\ answer \in Reports
        /\ answer.status = 200 <=> answer.raised = FALSE
    BY <2>1 DEF SuperviseInv
  <2>3. /\ answer.raised = FALSE => answer.firedOk = Cardinality(answer.told)
        /\ answer.raised = TRUE => answer.firedOk < Cardinality(answer.told)
        /\ Cardinality(answer.told) \in Nat
    BY <2>1, <2>2, FS_CardinalityType DEF SuperviseInv
  <2>4. answer.raised \in BOOLEAN /\ answer.firedOk \in Nat
    BY <2>2 DEF Reports
  <2>5. \A s \in Subscribers : fired[s] = IF s \in answer.told THEN 1 ELSE 0
    BY <2>1, <2>2 DEF SuperviseInv
  <2> QED BY <2>2, <2>3, <2>4, <2>5
<1>3. PrimitivesInv => AnswerNamesTheChildren
  <2> SUFFICES ASSUME PrimitivesInv, request.kind \in {"relay", "federate"}, answer.status = 200
               PROVE  /\ {answer.tasks[i] : i \in DOMAIN answer.tasks} = Ran
                      /\ \A i, j \in DOMAIN answer.tasks :
                            i < j => answer.tasks[i] < answer.tasks[j]
                      /\ request.kind = "relay" => (1 \in sourceLog) = answer.logOpen
                      /\ request.kind = "federate" => answer.errors = (1..request.clis) \ Ran
    BY DEF AnswerNamesTheChildren
  <2>1. CASE request.kind = "relay"
    <3>1. children = <<"runs">> /\ answer.tasks = <<1>> /\ (1 \in sourceLog) = answer.logOpen
      BY <2>1 DEF PrimitivesInv, HandOverInv
    <3>2. DOMAIN answer.tasks = {1} /\ answer.tasks[1] = 1 /\ Ran = {1}
      BY <3>1 DEF Ran
    <3>3. \A i, j \in {1} : ~(i < j)
      OBVIOUS
    <3> QED BY <2>1, <3>1, <3>2, <3>3
  <2>2. CASE request.kind = "federate"
    <3>1. /\ Noted /\ answer.tasks = childIds /\ answer.errors = dispatchErrors
          /\ Len(children) = request.clis
      BY <2>2 DEF PrimitivesInv, FederateInv
    <3>2. DOMAIN children = 1..request.clis
      BY <3>1, LenProperties DEF PrimitivesInv, PrimitivesTypeOK
    <3>3. \A k : k \in Ran <=> k \in DOMAIN children /\ children[k] = "runs"
      BY DEF Ran
    <3>4. \A k : k \in {answer.tasks[i] : i \in DOMAIN answer.tasks} <=> k \in Ran
      BY <3>1, <3>3 DEF Noted
    <3>5. answer.errors = (1..request.clis) \ Ran
      BY <3>1, <3>2, <3>3 DEF Noted
    <3>6. {answer.tasks[i] : i \in DOMAIN answer.tasks} = Ran
      BY <3>4
    <3>7. \A i, j \in DOMAIN answer.tasks : i < j => answer.tasks[i] < answer.tasks[j]
      BY <3>1 DEF Noted
    <3> QED BY <2>2, <3>5, <3>6, <3>7
  <2> QED BY <2>1, <2>2
<1> QED BY <1>1, <1>2, <1>3, PrimitivesHold, PTL DEF PrimitivesAnswerTruly
-----------------------------------------------------------------------------
(* The parts of MCServices                                                  *)

\* What moves one part at a time is a behaviour of every part: what is proved of a
\* part, here or in HandoffProofs and OutputProofs, holds in the joint exploration.
LEMMA ServicesAreParts ==
    ServicesSpec =>
        /\ LogSpec /\ QueueSpec /\ StreamSpec /\ LarkSpec /\ OutputSpec
        /\ PrimitivesSpec /\ HandoffSpec
<1>1. ServicesInit => /\ LogInit /\ QueueInit /\ StreamInit /\ LarkInit /\ OutputInit
                      /\ PrimitivesInit /\ HandoffInit
  BY DEF ServicesInit
<1>2. [ServicesNext]_serviceVars =>
        /\ [LogNext]_logVars /\ [QueueNext]_queueVars /\ [StreamNext]_streamVars
        /\ [LarkNext]_larkVars /\ [OutputNext]_outputVars
        /\ [PrimitivesNext]_primitiveVars /\ [HandoffNext]_handoffVars
  BY DEF ServicesNext, Moves, serviceVars
<1> QED BY <1>1, <1>2, PTL
        DEF ServicesSpec, LogSpec, QueueSpec, StreamSpec, LarkSpec, OutputSpec,
            PrimitivesSpec, HandoffSpec

\* The types of all parts hold in the joint exploration.
THEOREM ServicesTypeCorrect == ServicesSpec => []ServicesTypeOK
BY ServicesAreParts, LogTypeCorrect, QueueTypeCorrect, StreamTypeCorrect, LarkTypeCorrect,
   OutputTypeCorrect, PrimitivesTypeCorrect, HandoffTypeCorrect, PTL DEF ServicesTypeOK
=============================================================================
