----------------------- MODULE DurableLedgerRefinement -----------------------
(***************************************************************************)
(* Proof that DurableLedger implements EventLog, for any set of producers  *)
(* and any bounds: under the mapping log <- file, held <- Copies, each     *)
(* step of a producer, of the writer thread, of replay and of a crash is a *)
(* step of EventLog or leaves what it shows unchanged.  The inductive      *)
(* invariant of DurableLedgerProofs says why a step is the one it is.      *)
(***************************************************************************)
EXTENDS DurableLedgerProofs

\* The types the lemmas below need.
LEMMA DiskType ==
  ASSUME IInv
  PROVE  /\ file \in Stored /\ pend \in Stored /\ lost \in Stored /\ owner \in Stored
         /\ \A i \in Ids : file[i] \in {NoEvent, owner[i]} /\ pend[i] \in {NoEvent, owner[i]}
         /\ session \in Sessions /\ NoEvent \notin Sessions
         /\ \A p \in Producers : prod[p].id \in Ids
BY LedgerConstants DEF IInv, TypeOK, StoredIsOwners, NoEvent, Sessions

\* Membership in the set of events of which a copy exists, before and after a step.
LEMMA InCopies ==
  ASSUME NEW i \in Ids, NEW s \in Sessions
  PROVE  /\ <<i, s>> \in Copies <=> Kept(i, s)
         /\ <<i, s>> \in Copies' <=> Kept(i, s)'
BY DEF Copies, Kept

\* A step that touches no directory, no ownership and no acknowledgement shows nothing.
LEMMA Quiet ==
  ASSUME UNCHANGED disk, UNCHANGED owner, UNCHANGED acked
  PROVE  UNCHANGED Log!vars
BY DEF disk, Log!vars, Copies, Kept

\* A marker or a quarantine copy of an event is made, in place of older ones at most.
LEMMA StoreStep ==
  ASSUME IInv, NEW i \in Ids, owner[i] \in Sessions,
         UNCHANGED file, UNCHANGED owner, UNCHANGED acked,
         pend' \in Stored, lost' \in Stored,
         \A j \in Ids : j # i => pend'[j] = pend[j] /\ lost'[j] = lost[j],
         pend'[i] \in {NoEvent, owner[i]},
         \/ lost'[i] = owner[i]
         \/ lost'[i] = lost[i] /\ pend'[i] = owner[i]
  PROVE  Log!Store(i, owner[i])
<1> DEFINE Gone == Copies \ Copies'
<1>1. \A j \in Ids, s \in Sessions : s = owner[j] /\ Kept(j, s) => Kept(j, s)'
  <2> SUFFICES ASSUME NEW j \in Ids, NEW s \in Sessions, s = owner[j], Kept(j, s)
               PROVE  Kept(j, s)'
    OBVIOUS
  <2>1. CASE j = i
    BY <2>1 DEF Kept
  <2>2. CASE j # i
    BY <2>2 DEF Kept
  <2> QED
    BY <2>1, <2>2
<1>2. \A j \in Ids, s \in Sessions : Kept(j, s)' => Kept(j, s) \/ (j = i /\ s = owner[i])
  <2> SUFFICES ASSUME NEW j \in Ids, NEW s \in Sessions, Kept(j, s)', ~Kept(j, s)
               PROVE  j = i /\ s = owner[i]
    OBVIOUS
  <2>1. j = i
    BY DEF Kept
  <2>2. file'[i] \in {NoEvent, owner[i]} /\ pend[i] \in {NoEvent, owner[i]}
    BY DiskType
  <2> QED
    BY <2>1, <2>2, DiskType DEF Kept
<1>3. Kept(i, owner[i])'
  BY DEF Kept
<1>4. Gone \in SUBSET Log!Expendable
  <2> SUFFICES ASSUME NEW e \in Copies, e \notin Copies'
               PROVE  file[e[1]] # e[2] /\ e # <<e[1], owner[e[1]]>>
    BY DEF Log!Expendable, Log!Current
  <2> PICK j \in Ids, s \in Sessions : e = <<j, s>>
    BY DEF Copies
  <2>1. s # owner[j]
    BY <1>1, InCopies
  <2> QED
    BY <2>1, DiskType
<1>5. Copies' = (Copies \ Gone) \cup {<<i, owner[i]>>}
  <2>1. ASSUME NEW e \in Copies' PROVE e \in Copies \/ e = <<i, owner[i]>>
    <3> PICK j \in Ids, s \in Sessions : e = <<j, s>>
      BY DEF Copies
    <3> QED
      BY <1>2, InCopies, <2>1
  <2>2. <<i, owner[i]>> \in Copies'
    BY <1>3, InCopies
  <2> QED
    BY <2>1, <2>2
<1>6. owner[i] # NoEvent
  BY DiskType
<1> QED
  BY <1>4, <1>5, <1>6 DEF Log!Store

\* A marker is removed, or its removal fails.
LEMMA DropMarker ==
  ASSUME IInv, NEW i \in Ids, DeleteMarker(i), UNCHANGED file, UNCHANGED lost
  PROVE  /\ Copies' = Copies \/ Copies' = Copies \ {<<i, owner[i]>>}
         /\ file[i] = owner[i] \/ lost[i] = owner[i] => Copies' = Copies
<1>1. /\ pend' \in Stored
      /\ \A j \in Ids : j # i => pend'[j] = pend[j]
      /\ pend'[i] \in {NoEvent, pend[i]}
  BY DeleteMarkerEffect DEF IInv
<1>2. pend[i] \in {NoEvent, owner[i]}
  BY DiskType
<1>3. \A j \in Ids, s \in Sessions : <<j, s>> # <<i, owner[i]>> => (Kept(j, s)' <=> Kept(j, s))
  BY <1>1, <1>2, DiskType DEF Kept
<1>4. \A s \in Sessions : Kept(i, s)' => Kept(i, s)
  BY <1>1, <1>2, DiskType DEF Kept
<1>5. Copies' \subseteq Copies /\ Copies \ {<<i, owner[i]>>} \subseteq Copies'
  <2>1. ASSUME NEW j \in Ids, NEW s \in Sessions PROVE
          /\ <<j, s>> \in Copies' => <<j, s>> \in Copies
          /\ <<j, s>> # <<i, owner[i]>> /\ <<j, s>> \in Copies => <<j, s>> \in Copies'
    BY <1>3, <1>4, InCopies
  <2> QED
    BY <2>1 DEF Copies
<1>6. (file[i] = owner[i] \/ lost[i] = owner[i]) /\ <<i, owner[i]>> \in Copies
        => <<i, owner[i]>> \in Copies'
  BY DEF Copies, Kept
<1> QED
  BY <1>5, <1>6

\* A canonical file is written, over nothing or over the same event.
LEMMA PublishStep ==
  ASSUME IInv, NEW i \in Ids, owner[i] \in Sessions,
         file' = [file EXCEPT ![i] = owner[i]],
         UNCHANGED pend, UNCHANGED lost, UNCHANGED owner, UNCHANGED acked
  PROVE  Log!Publish(i, owner[i]) \/ UNCHANGED Log!vars
<1>0. file[i] \in {NoEvent, owner[i]} /\ file \in Stored
  BY DiskType
<1>1. CASE file[i] = owner[i]
  <2>1. file' = file
    BY <1>0, <1>1 DEF Stored
  <2> QED
    BY <2>1, Quiet DEF disk
<1>2. CASE file[i] = NoEvent
  <2>1. \A j \in Ids, s \in Sessions :
          Kept(j, s)' <=> Kept(j, s) \/ <<j, s>> = <<i, owner[i]>>
    BY <1>0, <1>2, DiskType DEF Kept, Stored
  <2>2. Copies' = Copies \cup {<<i, owner[i]>>}
    <3>1. \A j \in Ids, s \in Sessions :
            <<j, s>> \in Copies' <=> <<j, s>> \in Copies \/ <<j, s>> = <<i, owner[i]>>
      BY <2>1, InCopies
    <3> QED
      BY <3>1 DEF Copies
  <2> QED
    BY <1>2, <2>2 DEF Log!Publish
<1> QED
  BY <1>0, <1>1, <1>2

\* _serialize_and_cache_event hands out an id: nothing at or above it is in the log.
LEMMA AddEventRefines ==
  ASSUME IInv, NEW p \in Producers, NEW critical \in BOOLEAN, AddEvent(p, critical)
  PROVE  Log!Next
<1>1. Copies' = Copies
  BY DEF AddEvent, disk, Copies, Kept
<1>2. curId \in Ids /\ session \in Sessions /\ Running
  BY DiskType DEF AddEvent, Running
<1>3. owner[curId] # session /\ \A j \in Ids : j >= curId => file[j] = NoEvent
  BY <1>2 DEF IInv, FreshIds, Ids
<1>4. owner' = [owner EXCEPT ![curId] = session] /\ UNCHANGED file /\ UNCHANGED acked
  BY DEF AddEvent, disk
<1>5. Log!Take(curId, session)
  BY <1>1, <1>3, <1>4 DEF Log!Take
<1> QED
  BY <1>2, <1>5 DEF Log!Next

\* The steps of persist_event in one producer.
LEMMA ProducerRefines ==
  ASSUME IInv, NEW p \in Producers, ProducerStep(p)
  PROVE  Log!Next \/ UNCHANGED Log!vars
<1> DEFINE i == prod[p].id
<1>0. i \in Ids /\ session \in Sessions
  BY DiskType
<1>1. prod[p].pc # "idle" /\ Running
  BY DEF ProducerStep, EnqueueMark, EnqueuePut, EnqueueFull, SyncMark, SyncWrite, SyncUnmark
<1>2. /\ owner[i] = session /\ <<i, session>> \notin acked
      /\ prod[p].pc = "put" => pend[i] = session
      /\ prod[p].pc = "unmark" => file[i] = session
  BY <1>1 DEF IInv, ProducersOwn, OwnsEvent
<1>3. ASSUME NEW ok \in BOOLEAN, WriteMarker(i, session, ok),
             UNCHANGED <<file, lost, owner, acked>>
      PROVE  Log!Next \/ UNCHANGED Log!vars
  <2>1. /\ pend' \in Stored
        /\ \A j \in Ids : j # i => pend'[j] = pend[j]
        /\ pend'[i] = IF ok THEN session ELSE pend[i]
    BY <1>0, <1>3, WriteMarkerEffect DEF IInv
  <2>2. CASE ok
    <3>1. Log!Store(i, owner[i])
      <4> HIDE DEF i
      <4> QED
        BY <1>0, <1>2, <1>3, <2>1, <2>2, StoreStep, DiskType
    <3>2. i \in Ids /\ owner[i] \in Sessions
      BY <1>0, <1>2
    <3> QED
      <4> HIDE DEF i
      <4> QED
        BY <3>1, <3>2 DEF Log!Next
  <2>3. CASE ~ok
    BY <1>3, <2>3, Quiet DEF WriteMarker, disk
  <2> QED
    BY <2>2, <2>3
<1>4. CASE EnqueueMark(p)
  <2>1. CASE wpc = "off"
    BY <1>4, <2>1, Quiet DEF EnqueueMark, disk, history
  <2>2. CASE wpc # "off"
    BY <1>3, <1>4, <2>2 DEF EnqueueMark, history
  <2> QED
    BY <2>1, <2>2
<1>5. CASE SyncMark(p)
  BY <1>3, <1>5 DEF SyncMark, history
<1>6. ASSUME Copies' = Copies, UNCHANGED <<file, owner>>, Ack(p), Kept(i, session)
      PROVE  Log!Next
  <2>1. Log!Acknowledge(i, owner[i])
    BY <1>0, <1>2, <1>6, InCopies DEF Ack, Log!Acknowledge
  <2>2. i \in Ids /\ owner[i] \in Sessions
    BY <1>0, <1>2
  <2> QED
    <3> HIDE DEF i
    <3> QED
      BY <2>1, <2>2 DEF Log!Next
<1>7. CASE EnqueuePut(p)
  <2>1. Copies' = Copies /\ UNCHANGED <<file, owner>>
    BY <1>7 DEF EnqueuePut, disk, Copies, Kept
  <2>2. CASE prod[p].pc = "put"
    BY <1>2, <1>6, <1>7, <2>1, <2>2 DEF EnqueuePut, Kept
  <2>3. CASE prod[p].pc # "put"
    BY <1>7, <2>3, Quiet DEF EnqueuePut
  <2> QED
    BY <2>2, <2>3
<1>8. CASE SyncUnmark(p)
  <2>1. Copies' = Copies /\ UNCHANGED <<file, owner>>
    BY <1>0, <1>2, <1>8, DropMarker DEF SyncUnmark
  <2> QED
    BY <1>2, <1>6, <1>8, <2>1 DEF SyncUnmark, Kept
<1>9. CASE EnqueueFull(p)
  <2>1. CASE prod[p].pc # "put"
    BY <1>9, <2>1, Quiet DEF EnqueueFull, disk, history
  <2>2. CASE prod[p].pc = "put" /\ (file[i] = owner[i] \/ Copies' = Copies)
    <3>1. Copies' = Copies
      BY <1>0, <1>9, <2>2, DropMarker DEF EnqueueFull
    <3> QED
      BY <1>9, <3>1 DEF EnqueueFull, history, Log!vars
  <2>3. CASE prod[p].pc = "put" /\ file[i] # owner[i] /\ Copies' # Copies
    <3>1. Copies' = Copies \ {<<i, owner[i]>>}
      BY <1>0, <1>9, <2>3, DropMarker DEF EnqueueFull
    <3>2. file[i] = NoEvent
      BY <1>0, <2>3, DiskType
    <3>3. {<<i, owner[i]>>} \cap Copies \in SUBSET Log!Expendable
      BY <1>0, <1>2, <3>2, DiskType DEF Log!Expendable
    <3>4. Copies' = Copies \ ({<<i, owner[i]>>} \cap Copies)
      BY <3>1
    <3>5. Log!Discard
      BY <1>9, <3>3, <3>4 DEF EnqueueFull, history, Log!Discard
    <3> QED
      BY <3>5 DEF Log!Next
  <2> QED
    BY <2>1, <2>2, <2>3
<1>10. CASE SyncWrite(p)
  <2>1. CASE file' = [file EXCEPT ![i] = session]
    <3>1. Log!Publish(i, owner[i]) \/ UNCHANGED Log!vars
      BY <1>0, <1>2, <1>10, <2>1, PublishStep DEF SyncWrite, history
    <3>2. i \in Ids /\ owner[i] \in Sessions
      BY <1>0, <1>2, <1>10 DEF SyncWrite
    <3> QED
      <4> HIDE DEF i
      <4> QED
        BY <3>1, <3>2 DEF Log!Next
  <2>2. CASE UNCHANGED file
    BY <1>10, <2>2, Quiet DEF SyncWrite, disk, history
  <2> QED
    BY <1>10, <2>1, <2>2 DEF SyncWrite
<1> QED
  BY <1>4, <1>5, <1>7, <1>8, <1>9, <1>10 DEF ProducerStep

\* The steps of the writer thread.
LEMMA WriterRefines ==
  ASSUME IInv, WriterStep
  PROVE  Log!Next \/ UNCHANGED Log!vars
<1> DEFINE i == Head(batch)
<1>1. CASE WriterLoop \/ WriterGet \/ WriterDrainMore \/ WriterDrainEnd \/ FlushWait
  <2>1. UNCHANGED disk /\ UNCHANGED owner /\ UNCHANGED acked
    BY <1>1 DEF WriterLoop, WriterGet, WriterDrainMore, WriterDrainEnd, FlushWait,
       WriterUnchanged, history
  <2> QED
    BY <2>1, Quiet
<1>2. ASSUME wpc \in {"flush", "unmark", "quarantine", "unmarkLost"}
      PROVE  /\ i \in Ids /\ owner[i] = session /\ session \in Sessions
             /\ wpc = "unmark" => file[i] = session
             /\ wpc = "unmarkLost" => lost[i] = session
  BY <1>2, ItemInHand, DiskType DEF IInv, WriterOwns
<1>3. CASE FlushWrite
  <2>1. CASE file' = [file EXCEPT ![i] = session]
    <3>1. Log!Publish(i, owner[i]) \/ UNCHANGED Log!vars
      BY <1>2, <1>3, <2>1, PublishStep DEF FlushWrite, WriterUnchanged, history
    <3>2. i \in Ids /\ owner[i] \in Sessions
      BY <1>2, <1>3 DEF FlushWrite
    <3> QED
      <4> HIDE DEF i
      <4> QED
        BY <3>1, <3>2 DEF Log!Next
  <2>2. CASE UNCHANGED file
    BY <1>3, <2>2, Quiet DEF FlushWrite, WriterUnchanged, disk, history
  <2> QED
    BY <1>3, <2>1, <2>2 DEF FlushWrite
<1>4. CASE FlushUnmark \/ QuarantineUnmark
  <2>1. /\ wpc \in {"unmark", "unmarkLost"} /\ DeleteMarker(i)
        /\ UNCHANGED <<file, lost, owner, acked>>
    BY <1>4 DEF FlushUnmark, QuarantineUnmark, WriterUnchanged, history
  <2>2. Copies' = Copies
    BY <1>2, <2>1, DropMarker
  <2> QED
    BY <2>1, <2>2 DEF Log!vars
<1>5. CASE Quarantine
  <2>1. CASE lost' = [lost EXCEPT ![i] = session]
    <3>1. i \in Ids /\ owner[i] = session /\ session \in Sessions
      BY <1>2, <1>5 DEF Quarantine
    <3>2. /\ UNCHANGED <<file, pend, owner, acked>>
          /\ lost' \in Stored /\ lost'[i] = owner[i]
          /\ \A j \in Ids : j # i => lost'[j] = lost[j]
      BY <1>5, <2>1, <3>1, DiskType DEF Quarantine, WriterUnchanged, history, Stored
    <3>3. Log!Store(i, owner[i])
      <4> HIDE DEF i
      <4> QED
        BY <3>1, <3>2, StoreStep, DiskType
    <3> QED
      BY <3>1, <3>3 DEF Log!Next
  <2>2. CASE UNCHANGED lost
    BY <1>5, <2>2, Quiet DEF Quarantine, WriterUnchanged, disk, history
  <2> QED
    BY <1>5, <2>1, <2>2 DEF Quarantine
<1> QED
  BY <1>1, <1>3, <1>4, <1>5 DEF WriterStep

\* The steps of replay_pending_events.
LEMMA ReplayRefines ==
  ASSUME IInv, NEW i \in Ids, ReplayStep(i)
  PROVE  Log!Next \/ UNCHANGED Log!vars
<1>1. /\ pend[i] = owner[i] /\ owner[i] \in Sessions
      /\ UNCHANGED owner /\ UNCHANGED acked
  <2>1. i \in todo /\ UNCHANGED owner /\ UNCHANGED acked
    BY DEF ReplayStep, ReplayRecover, ReplayClean, ReplayQuarantine, ReplaySkip,
       ReplayUnchanged, history
  <2>2. pend[i] # NoEvent /\ pend[i] \in {NoEvent, owner[i]} /\ owner \in Stored
    BY <2>1, DiskType DEF IInv, QuietWhenNotRunning
  <2> QED
    BY <2>1, <2>2 DEF Stored
<1>2. CASE ReplayRecover(i)
  <2>1. Log!Publish(i, owner[i]) \/ UNCHANGED Log!vars
    BY <1>1, <1>2, PublishStep DEF ReplayRecover
  <2> QED
    BY <1>1, <2>1 DEF Log!Next
<1>3. CASE ReplayClean(i)
  <2>1. file[i] = owner[i]
    BY <1>3, DiskType DEF ReplayClean
  <2>2. Copies' = Copies
    BY <1>3, <2>1, DropMarker DEF ReplayClean
  <2> QED
    BY <1>1, <1>3, <2>2 DEF ReplayClean, Log!vars
<1>4. CASE ReplayQuarantine(i)
  <2>1. /\ UNCHANGED file /\ pend' \in Stored /\ lost' \in Stored
        /\ lost'[i] = owner[i] /\ pend'[i] \in {NoEvent, owner[i]}
        /\ \A j \in Ids : j # i => pend'[j] = pend[j] /\ lost'[j] = lost[j]
    BY <1>1, <1>4, DiskType DEF ReplayQuarantine, Stored
  <2>2. Log!Store(i, owner[i])
    BY <1>1, <2>1, StoreStep
  <2> QED
    BY <1>1, <2>2 DEF Log!Next
<1>5. CASE ReplaySkip(i)
  BY <1>1, <1>5, Quiet DEF ReplaySkip
<1> QED
  BY <1>2, <1>3, <1>4, <1>5 DEF ReplayStep

\* An empty directory shows an empty log.
LEMMA InitRefines == Init => Log!Init
<1> SUFFICES ASSUME Init PROVE Log!Init
  OBVIOUS
<1>1. Copies = {}
  BY DEF Init, Copies, Kept, NoEvent, Sessions
<1>2. file \in [Ids -> {NoEvent} \cup Sessions] /\ owner \in [Ids -> {NoEvent} \cup Sessions]
  BY DEF Init
<1>3. acked = {} /\ \A i \in Ids : file[i] = NoEvent
  BY DEF Init
<1> QED
  BY <1>1, <1>2, <1>3 DEF Log!Init

\* The event ledger -- producers, writer thread, retries, quarantine, crashes and
\* replay -- implements the append-only log of EventLog.
THEOREM LedgerImplementsEventLog == Spec => ImplementsEventLog
<1>1. IInv /\ [Next]_vars => [Log!Next]_(Log!vars)
  <2> SUFFICES ASSUME IInv, [Next]_vars PROVE Log!Next \/ UNCHANGED Log!vars
    OBVIOUS
  <2>1. ASSUME NEW p \in Producers, NEW critical \in BOOLEAN, AddEvent(p, critical)
        PROVE  Log!Next
    BY <2>1, AddEventRefines
  <2>2. ASSUME NEW p \in Producers, ProducerStep(p) PROVE Log!Next \/ UNCHANGED Log!vars
    BY <2>2, ProducerRefines
  <2>3. CASE WriterStep
    BY <2>3, WriterRefines
  <2>4. CASE CloseBegin \/ CloseStep \/ Crash \/ Restart \/ ReplayEnd \/ UNCHANGED vars
    <3>1. UNCHANGED disk /\ UNCHANGED owner /\ UNCHANGED acked
      BY <2>4 DEF CloseBegin, CloseStep, CloseSentinel, CloseJoin, Crash, ProcessEnds,
         Restart, ReplayEnd, vars, disk, history
    <3> QED
      BY <3>1, Quiet
  <2>5. ASSUME NEW i \in Ids, ReplayStep(i) PROVE Log!Next \/ UNCHANGED Log!vars
    BY <2>5, ReplayRefines
  <2> QED
    BY <2>1, <2>2, <2>3, <2>4, <2>5 DEF Next
<1> QED
  BY <1>1, InitRefines, LedgerInvariant, PTL DEF Spec, ImplementsEventLog, Log!Spec
=============================================================================
