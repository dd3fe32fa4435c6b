------------------------ MODULE DurableLedgerProofs ------------------------
(***************************************************************************)
(* Proofs about DurableLedger, for any set of producers and any bounds:    *)
(* the invariant IInv is inductive, hence TypeOK and AckedDurable hold, and*)
(* the ledger is append-only.                                              *)
(*                                                                         *)
(* There is one lemma per action.  The frame lemmas collect what the steps *)
(* of one thread have in common, so that the lemma of an action is left    *)
(* with its types, the conjunct about its own thread, and the two facts    *)
(* its frame asks for.                                                     *)
(***************************************************************************)
EXTENDS DurableLedger, SequenceTheorems, TLAPS

(***************************************************************************)
(* What the building blocks of the actions do to the typed state.          *)
(***************************************************************************)

\* A file operation that fails, or does not, keeps the fault count within its bound.
LEMMA FaultType ==
  ASSUME TypeOK, Fault \/ NoFault
  PROVE  faults' \in 0 .. MaxFaults
BY LedgerConstants DEF TypeOK, Fault, NoFault

\* file_store.write of a marker changes the marker of one id, and only if it succeeds.
LEMMA WriteMarkerEffect ==
  ASSUME TypeOK, NEW i \in Ids, NEW ok \in BOOLEAN, WriteMarker(i, session, ok)
  PROVE  /\ pend' \in Stored
         /\ faults' \in 0 .. MaxFaults
         /\ \A j \in Ids : j # i => pend'[j] = pend[j]
         /\ pend'[i] = IF ok THEN session ELSE pend[i]
<1>1. faults' \in 0 .. MaxFaults
  BY FaultType DEF WriteMarker
<1> QED
  BY <1>1 DEF TypeOK, WriteMarker, Stored

\* file_store.delete of a marker removes the marker of one id, or leaves it.
LEMMA DeleteMarkerEffect ==
  ASSUME TypeOK, NEW i \in Ids, DeleteMarker(i)
  PROVE  /\ pend' \in Stored
         /\ faults' \in 0 .. MaxFaults
         /\ \A j \in Ids : j # i => pend'[j] = pend[j]
         /\ pend'[i] \in {NoEvent, pend[i]}
<1>1. faults' \in 0 .. MaxFaults
  BY FaultType DEF DeleteMarker
<1> QED
  BY <1>1 DEF TypeOK, DeleteMarker, Stored

\* Moving one producer on in persist_event leaves its event and the others alone.
LEMMA GotoEffect ==
  ASSUME TypeOK, NEW p \in Producers, NEW pc \in ProducerPc, Goto(p, pc)
  PROVE  /\ prod' \in [Producers -> [pc : ProducerPc, id : Ids]]
         /\ \A q \in Producers : q # p => prod'[q] = prod[q]
         /\ prod'[p].id = prod[p].id
         /\ prod'[p].pc = pc
BY DEF TypeOK, Goto

\* _flush_batch going on to the next item drops the head of the batch, and its loop
\* ends exactly when no item is left.
LEMMA NextItemEffect ==
  ASSUME TypeOK, batch # <<>>, NextItem
  PROVE  /\ batch' \in Seq(Ids) /\ Len(batch') <= BatchSize
         /\ tries' = 0
         /\ wpc' \in {"loop", "flush"}
         /\ wpc' = "loop" <=> batch' = <<>>
         /\ \A k \in DOMAIN batch' : \E m \in DOMAIN batch : batch'[k] = batch[m]
<1>1. batch \in Seq(Ids) /\ Len(batch) \in Nat /\ Len(batch) > 0
  BY EmptySeq, LenProperties DEF TypeOK
<1>2. /\ batch' \in Seq(Ids) /\ Len(batch') = Len(batch) - 1
      /\ \A k \in 1 .. Len(batch') : batch'[k] = batch[k + 1]
  BY <1>1, HeadTailProperties DEF NextItem
<1>3. wpc' = "loop" <=> batch' = <<>>
  <2>1. batch' = <<>> <=> Len(batch') = 0
    BY <1>2, EmptySeq
  <2> QED
    BY <2>1, <1>1, <1>2 DEF NextItem
<1>4. \A k \in DOMAIN batch' : k + 1 \in DOMAIN batch /\ batch'[k] = batch[k + 1]
  BY <1>1, <1>2, LenProperties
<1> QED
  BY <1>1, <1>2, <1>3, <1>4, LedgerConstants DEF TypeOK, NextItem

\* queue.put below the capacity adds one item at the end of the writer's queue.
LEMMA PutEffect ==
  ASSUME TypeOK, NEW x \in Ids \cup {Sentinel}, Len(queue) < QueueCap,
         queue' = Append(queue, x)
  PROVE  /\ queue' \in Seq(Ids \cup {Sentinel}) /\ Len(queue') <= QueueCap
         /\ \A k \in DOMAIN queue' : queue'[k] = x \/ \E m \in DOMAIN queue : queue'[k] = queue[m]
<1>1. /\ queue' \in Seq(Ids \cup {Sentinel}) /\ Len(queue') = Len(queue) + 1
      /\ \A k \in 1 .. Len(queue) : queue'[k] = queue[k]
      /\ queue'[Len(queue) + 1] = x
  BY AppendProperties DEF TypeOK
<1>2. DOMAIN queue' = 1 .. Len(queue) + 1 /\ DOMAIN queue = 1 .. Len(queue) /\ Len(queue) \in Nat
  BY <1>1, LenProperties DEF TypeOK
<1> QED
  BY <1>1, <1>2, LedgerConstants

\* queue.get removes the first item: what is left was in the queue before.
LEMMA TakeEffect ==
  ASSUME TypeOK, queue # <<>>, queue' = Tail(queue)
  PROVE  /\ queue' \in Seq(Ids \cup {Sentinel}) /\ Len(queue') <= QueueCap
         /\ \A k \in DOMAIN queue' : \E m \in DOMAIN queue : queue'[k] = queue[m]
         /\ Head(queue) \in Ids \cup {Sentinel}
         /\ \E m \in DOMAIN queue : queue[m] = Head(queue)
<1>1. queue \in Seq(Ids \cup {Sentinel}) /\ Len(queue) \in Nat /\ Len(queue) > 0
  BY EmptySeq, LenProperties DEF TypeOK
<1>2. /\ queue' \in Seq(Ids \cup {Sentinel}) /\ Len(queue') = Len(queue) - 1
      /\ \A k \in 1 .. Len(queue') : queue'[k] = queue[k + 1]
      /\ Head(queue) \in Ids \cup {Sentinel} /\ Head(queue) = queue[1]
  BY <1>1, HeadTailProperties
<1>3. \A k \in DOMAIN queue' : k + 1 \in DOMAIN queue /\ queue'[k] = queue[k + 1]
  BY <1>1, <1>2, LenProperties
<1>4. 1 \in DOMAIN queue
  BY <1>1, LenProperties
<1> QED
  BY <1>1, <1>2, <1>3, <1>4, LedgerConstants DEF TypeOK

\* EventStream.__init__ over an empty directory establishes the invariant.
LEMMA InitIInv == Init => IInv
<1> SUFFICES ASSUME Init PROVE IInv
  OBVIOUS
<1>1. TypeOK
  BY LedgerConstants DEF Init, TypeOK, Stored, Ids, Sessions, NoEvent, Phases, ProducerPc, WriterPc, Idle, Sentinel
<1>2. QuietWhenNotRunning /\ AckedWasOwned /\ AckedDurable
  BY DEF Init, QuietWhenNotRunning, Running, AckedWasOwned, AckedDurable, Idle
<1>3. FreshIds /\ StoredIsOwners
  BY DEF Init, FreshIds, StoredIsOwners, Running, NoEvent
<1>4. ProducersOwn /\ WriterOwns
  BY LedgerConstants DEF Init, ProducersOwn, OwnsEvent, WriterOwns, Idle
<1> QED
  BY <1>1, <1>2, <1>3, <1>4 DEF IInv

\* add_event hands out an id nobody uses: it is on no disk, in no queue and with no
\* other producer.
LEMMA AddEventIInv ==
  ASSUME IInv, NEW p \in Producers, NEW critical \in BOOLEAN, AddEvent(p, critical)
  PROVE  IInv'
<1> USE DEF disk, writer, process
<1>1. TypeOK'
  BY LedgerConstants DEF IInv, TypeOK, AddEvent, Stored, Ids, Sessions, ProducerPc
<1>2. QuietWhenNotRunning'
  BY DEF IInv, QuietWhenNotRunning, AddEvent, Running, TypeOK
<1>3. FreshIds'
  BY DEF IInv, FreshIds, AddEvent, Running, TypeOK, Stored, Ids, Sessions
<1>4. StoredIsOwners'
  BY DEF IInv, StoredIsOwners, FreshIds, AddEvent, Running, TypeOK, Stored
<1>5. ProducersOwn'
  <2>1. ~Busy(curId)
    BY DEF IInv, Busy, Held, WriterOwns, FreshIds, AddEvent, Running, Sentinel, Ids
  <2>2. <<curId, session>> \notin acked
    <3>1. curId \in Ids /\ curId \in Int /\ Running
      BY DEF AddEvent, Running, Ids
    <3>2. owner[curId] # session /\ owner[curId] <= session
      BY <3>1 DEF IInv, FreshIds
    <3>3. owner[curId] \in Int /\ session \in Int
      BY <3>1 DEF IInv, TypeOK, Stored, Sessions, NoEvent
    <3> QED
      BY <3>2, <3>3 DEF IInv, AckedWasOwned
  <2>3. ASSUME NEW q \in Producers PROVE OwnsEvent(q)'
    <3>2. CASE q = p
      <4>1. prod'[p].id = curId /\ prod'[p].pc \in {"mark", "enqueue"} /\ owner'[curId] = session
        BY DEF IInv, TypeOK, AddEvent, Stored
      <4> QED
        BY <2>1, <2>2, <3>2, <4>1 DEF OwnsEvent, AddEvent, Busy, Held
    <3>3. CASE q # p
      <4>1. prod'[q] = prod[q]
        BY <3>3 DEF IInv, TypeOK, AddEvent
      <4>2. owner[prod[q].id] = session => owner'[prod[q].id] = session
        BY DEF IInv, TypeOK, AddEvent, Stored
      <4>3. OwnsEvent(q)
        BY DEF IInv, ProducersOwn
      <4> QED
        <5>1. UNCHANGED <<queue, batch, acked, pend, file, session>>
          BY DEF AddEvent
        <5> QED
          BY <4>1, <4>2, <4>3, <5>1 DEF OwnsEvent, Busy, Held
    <3> QED
      BY <3>2, <3>3
  <2>4. \A q \in Producers : prod[q].pc # "idle" => prod[q].id # curId
    <3>1. owner[curId] # session
      BY DEF IInv, FreshIds, AddEvent, Running, Ids
    <3>2. \A q \in Producers : prod[q].pc # "idle" => owner[prod[q].id] = session
      BY DEF IInv, ProducersOwn, OwnsEvent
    <3> QED
      BY <3>1, <3>2
  <2>5. QED
    BY <2>3, <2>4 DEF IInv, TypeOK, ProducersOwn, AddEvent
<1>6. WriterOwns'
  BY DEF IInv, WriterOwns, AddEvent, TypeOK, Stored, Ids, Sentinel
<1>7. AckedWasOwned'
  BY DEF IInv, AckedWasOwned, FreshIds, AddEvent, TypeOK, Stored, Sessions, Ids, NoEvent
<1>8. AckedDurable'
  BY DEF IInv, AckedDurable, AckedWasOwned, FreshIds, AddEvent, Kept, TypeOK, Stored, Sessions, Ids, NoEvent, Running
<1> QED
  BY <1>1, <1>2, <1>3, <1>4, <1>5, <1>6, <1>7, <1>8 DEF IInv

(***************************************************************************)
(* A producer at work: all conjuncts but TypeOK and WriterOwns follow from *)
(* the shape its steps share.  They only touch the files of its own event, *)
(* and acknowledge it only once it is kept somewhere.                      *)
(***************************************************************************)

\* A step of persist_event that only touches the files of its own event, and
\* acknowledges it only once it is kept, preserves every conjunct but those two.
LEMMA ProducerFrame ==
  ASSUME IInv, Running, TypeOK',
         NEW p \in Producers, NEW i \in Ids, prod[p].pc # "idle", prod[p].id = i,
         UNCHANGED <<lost, session, phase, todo, curId, batch, owner>>,
         \A j \in Ids : j # i => file'[j] = file[j] /\ pend'[j] = pend[j],
         file'[i] \in {file[i], session},
         pend'[i] \in {pend[i], NoEvent, session},
         \A k \in DOMAIN queue' : queue'[k] = i \/ \E m \in DOMAIN queue : queue'[k] = queue[m],
         \A q \in Producers : q # p => prod'[q] = prod[q],
         prod'[p].id = i,
         OwnsEvent(p)',
         \/ acked' = acked
         \/ /\ acked' = acked \cup {<<i, session>>}
            /\ file'[i] = session \/ pend'[i] = session
  PROVE  /\ QuietWhenNotRunning' /\ FreshIds' /\ StoredIsOwners'
         /\ ProducersOwn' /\ AckedWasOwned' /\ AckedDurable'
<1>1. /\ owner[i] = session /\ <<i, session>> \notin acked /\ session \in Sessions
      /\ owner \in Stored /\ acked \subseteq Ids \X Sessions
  BY DEF IInv, TypeOK, ProducersOwn, OwnsEvent
<1>2. QuietWhenNotRunning'
  BY DEF IInv, QuietWhenNotRunning, Running
<1>3. FreshIds'
  BY <1>1 DEF IInv, FreshIds, Running
<1>4. StoredIsOwners'
  BY <1>1 DEF IInv, StoredIsOwners
<1>5. ProducersOwn'
  <2>1. ASSUME NEW q \in Producers PROVE OwnsEvent(q)'
    <3>1. CASE q # p
      <4>1. OwnsEvent(q) /\ prod'[q] = prod[q] /\ prod[q].id \in Ids
        BY <3>1 DEF IInv, TypeOK, ProducersOwn
      <4>2. prod[q].pc # "idle" => prod[q].id # i
        BY <3>1 DEF IInv, ProducersOwn
      <4> QED
        BY <4>1, <4>2 DEF OwnsEvent, Busy, Held
    <3> QED
      BY <3>1
  <2>2. \A q \in Producers : prod'[q].id = prod[q].id /\ (prod'[q].pc # "idle" => prod[q].pc # "idle")
    OBVIOUS
  <2> QED
    BY <2>1, <2>2 DEF IInv, ProducersOwn
<1>6. AckedWasOwned'
  BY <1>1 DEF IInv, AckedWasOwned, Sessions
<1>7. AckedDurable'
  <2>0. acked' # acked => Kept(i, session)'
    BY DEF Kept
  <2>1. ASSUME NEW e \in acked, owner[e[1]] = e[2] PROVE Kept(e[1], e[2])'
    <3>1. e[1] \in Ids /\ e[1] # i /\ Kept(e[1], e[2])
      BY <1>1, <2>1 DEF IInv, AckedDurable
    <3> QED
      BY <3>1 DEF Kept
  <2> QED
    BY <2>0, <2>1, <1>1 DEF AckedDurable
<1> QED
  BY <1>2, <1>3, <1>4, <1>5, <1>6, <1>7

\* enqueue: writing the write-ahead marker.
LEMMA EnqueueMarkIInv ==
  ASSUME IInv, NEW p \in Producers, EnqueueMark(p)
  PROVE  IInv'
<1> DEFINE i == prod[p].id
<1>1. /\ TypeOK /\ Running /\ prod[p].pc = "enqueue" /\ i \in Ids
      /\ owner[i] = session /\ <<i, session>> \notin acked /\ ~Busy(i)
  BY DEF IInv, TypeOK, ProducersOwn, OwnsEvent, EnqueueMark
<1>2. UNCHANGED <<file, lost, session, phase, todo, curId, queue, wpc, batch, tries, owner, acked>>
  BY DEF EnqueueMark, writer, process, history
<1>3. /\ pend' \in Stored /\ faults' \in 0 .. MaxFaults
      /\ \A j \in Ids : j # i => pend'[j] = pend[j]
      /\ pend'[i] \in {pend[i], session}
      /\ prod' \in [Producers -> [pc : ProducerPc, id : Ids]]
      /\ \A q \in Producers : q # p => prod'[q] = prod[q]
      /\ prod'[p].id = i
      /\ prod'[p].pc \in {"mark", "put", "putBare"}
      /\ prod'[p].pc = "put" => pend'[i] = session
  <2>1. CASE wpc = "off"
    <3>1. Goto(p, "mark") /\ UNCHANGED <<pend, faults>>
      BY <2>1 DEF EnqueueMark
    <3> QED
      BY <1>1, <3>1, GotoEffect DEF TypeOK, ProducerPc
  <2>2. CASE wpc # "off"
    <3>1. PICK ok \in BOOLEAN : /\ WriteMarker(i, session, ok)
                                /\ Goto(p, IF ok THEN "put" ELSE "putBare")
      BY <2>2 DEF EnqueueMark
    <3> QED
      BY <1>1, <3>1, GotoEffect, WriteMarkerEffect DEF ProducerPc
  <2> QED
    BY <2>1, <2>2
<1> HIDE DEF i
<1>4. TypeOK'
  BY <1>1, <1>2, <1>3 DEF TypeOK
<1>5. OwnsEvent(p)'
  BY <1>1, <1>2, <1>3 DEF OwnsEvent, Busy, Held
<1>6. WriterOwns'
  BY <1>2 DEF IInv, WriterOwns
<1> QED
  BY <1>1, <1>2, <1>3, <1>4, <1>5, <1>6, ProducerFrame DEF IInv, i

\* enqueue: the put, acknowledged because the marker is on disk by then.
LEMMA EnqueuePutIInv ==
  ASSUME IInv, NEW p \in Producers, EnqueuePut(p)
  PROVE  IInv'
<1> DEFINE i == prod[p].id
<1>1. /\ TypeOK /\ Running /\ prod[p].pc \in {"put", "putBare"} /\ i \in Ids
      /\ session \in Sessions /\ owner[i] = session /\ <<i, session>> \notin acked
      /\ prod[p].pc = "put" => pend[i] = session
  BY DEF IInv, TypeOK, ProducersOwn, OwnsEvent, EnqueuePut
<1>2. UNCHANGED <<file, pend, lost, faults, session, phase, todo, curId, wpc, batch, tries, owner>>
  BY DEF EnqueuePut, disk, writer, process
<1>3. /\ queue' \in Seq(Ids \cup {Sentinel}) /\ Len(queue') <= QueueCap
      /\ \A k \in DOMAIN queue' : queue'[k] = i \/ \E m \in DOMAIN queue : queue'[k] = queue[m]
  BY <1>1, PutEffect DEF EnqueuePut
<1>4. \/ Goto(p, "idle") /\ acked' = acked \cup {<<i, session>>} /\ prod[p].pc = "put"
      \/ Goto(p, "mark") /\ acked' = acked
  BY DEF EnqueuePut, Ack
<1>5. /\ prod' \in [Producers -> [pc : ProducerPc, id : Ids]]
      /\ \A q \in Producers : q # p => prod'[q] = prod[q]
      /\ prod'[p].id = i
      /\ prod'[p].pc \in {"idle", "mark"}
      /\ prod'[p].pc = "mark" => acked' = acked
  BY <1>1, <1>4, GotoEffect DEF ProducerPc
<1> HIDE DEF i
<1>6. TypeOK'
  BY <1>1, <1>2, <1>3, <1>4, <1>5 DEF TypeOK
<1>7. OwnsEvent(p)'
  BY <1>1, <1>2, <1>5 DEF OwnsEvent
<1>8. acked' = acked \/ (acked' = acked \cup {<<i, session>>} /\ pend'[i] = session)
  BY <1>1, <1>2, <1>4
<1>9. WriterOwns'
  BY <1>1, <1>2, <1>3 DEF IInv, WriterOwns
<1> QED
  BY <1>1, <1>2, <1>3, <1>5, <1>6, <1>7, <1>8, <1>9, ProducerFrame DEF IInv, i

\* enqueue: withdrawing the marker of an event that was not queued nor acknowledged.
LEMMA EnqueueFullIInv ==
  ASSUME IInv, NEW p \in Producers, EnqueueFull(p)
  PROVE  IInv'
<1> DEFINE i == prod[p].id
<1>1. /\ TypeOK /\ Running /\ prod[p].pc # "idle" /\ i \in Ids
      /\ owner[i] = session /\ <<i, session>> \notin acked
  BY DEF IInv, TypeOK, ProducersOwn, OwnsEvent, EnqueueFull
<1>2. /\ UNCHANGED <<file, lost, session, phase, todo, curId, queue, wpc, batch, tries, owner, acked>>
      /\ Goto(p, "mark")
      /\ DeleteMarker(i) \/ UNCHANGED <<pend, faults>>
  BY DEF EnqueueFull, writer, process, history
<1>3. /\ pend' \in Stored /\ faults' \in 0 .. MaxFaults
      /\ \A j \in Ids : j # i => pend'[j] = pend[j]
      /\ pend'[i] \in {NoEvent, pend[i]}
  BY <1>1, <1>2, DeleteMarkerEffect DEF TypeOK
<1>4. /\ prod' \in [Producers -> [pc : ProducerPc, id : Ids]]
      /\ \A q \in Producers : q # p => prod'[q] = prod[q]
      /\ prod'[p].id = i /\ prod'[p].pc = "mark"
  BY <1>1, <1>2, GotoEffect DEF ProducerPc
<1> HIDE DEF i
<1>5. TypeOK'
  BY <1>1, <1>2, <1>3, <1>4 DEF TypeOK
<1>6. OwnsEvent(p)'
  BY <1>1, <1>2, <1>4 DEF OwnsEvent
<1>7. WriterOwns'
  BY <1>2 DEF IInv, WriterOwns
<1> QED
  BY <1>1, <1>2, <1>3, <1>4, <1>5, <1>6, <1>7, ProducerFrame DEF IInv, i

\* _write_event_sync: the marker.
LEMMA SyncMarkIInv ==
  ASSUME IInv, NEW p \in Producers, SyncMark(p)
  PROVE  IInv'
<1> DEFINE i == prod[p].id
<1>1. /\ TypeOK /\ Running /\ prod[p].pc # "idle" /\ i \in Ids
      /\ owner[i] = session /\ <<i, session>> \notin acked
  BY DEF IInv, TypeOK, ProducersOwn, OwnsEvent, SyncMark
<1>2. /\ UNCHANGED <<file, lost, session, phase, todo, curId, queue, wpc, batch, tries, owner, acked>>
      /\ Goto(p, "write")
      /\ \E ok \in BOOLEAN : WriteMarker(i, session, ok)
  BY DEF SyncMark, writer, process, history
<1>3. /\ pend' \in Stored /\ faults' \in 0 .. MaxFaults
      /\ \A j \in Ids : j # i => pend'[j] = pend[j]
      /\ pend'[i] \in {session, pend[i]}
  BY <1>1, <1>2, WriteMarkerEffect
<1>4. /\ prod' \in [Producers -> [pc : ProducerPc, id : Ids]]
      /\ \A q \in Producers : q # p => prod'[q] = prod[q]
      /\ prod'[p].id = i /\ prod'[p].pc = "write"
  BY <1>1, <1>2, GotoEffect DEF ProducerPc
<1> HIDE DEF i
<1>5. TypeOK'
  BY <1>1, <1>2, <1>3, <1>4 DEF TypeOK
<1>6. OwnsEvent(p)'
  BY <1>1, <1>2, <1>4 DEF OwnsEvent
<1>7. WriterOwns'
  BY <1>2 DEF IInv, WriterOwns
<1> QED
  BY <1>1, <1>2, <1>3, <1>4, <1>5, <1>6, <1>7, ProducerFrame DEF IInv, i

\* _write_event_sync: the canonical file, which nobody else writes.
LEMMA SyncWriteIInv ==
  ASSUME IInv, NEW p \in Producers, SyncWrite(p)
  PROVE  IInv'
<1> DEFINE i == prod[p].id
<1>1. /\ TypeOK /\ Running /\ prod[p].pc # "idle" /\ i \in Ids /\ session \in Sessions
      /\ owner[i] = session /\ <<i, session>> \notin acked
  BY DEF IInv, TypeOK, ProducersOwn, OwnsEvent, SyncWrite
<1>2. /\ UNCHANGED <<pend, lost, session, phase, todo, curId, queue, wpc, batch, tries, owner, acked>>
      /\ faults' \in 0 .. MaxFaults
      /\ \/ file' = [file EXCEPT ![i] = session] /\ Goto(p, "unmark")
         \/ UNCHANGED file /\ Goto(p, "idle")
  BY <1>1, FaultType DEF SyncWrite, writer, process, history
<1>3. /\ file' \in Stored
      /\ \A j \in Ids : j # i => file'[j] = file[j]
      /\ file'[i] \in {session, file[i]}
      /\ prod' \in [Producers -> [pc : ProducerPc, id : Ids]]
      /\ \A q \in Producers : q # p => prod'[q] = prod[q]
      /\ prod'[p].id = i /\ prod'[p].pc \in {"unmark", "idle"}
      /\ prod'[p].pc = "unmark" => file'[i] = session
  BY <1>1, <1>2, GotoEffect DEF ProducerPc, TypeOK, Stored
<1> HIDE DEF i
<1>4. TypeOK'
  BY <1>1, <1>2, <1>3 DEF TypeOK
<1>5. OwnsEvent(p)'
  BY <1>1, <1>2, <1>3 DEF OwnsEvent
<1>6. WriterOwns'
  <2>1. wpc = "unmark" => Head(batch) \in Ids
    BY <1>1, HeadTailProperties DEF IInv, TypeOK, WriterOwns
  <2> QED
    BY <1>2, <1>3, <2>1 DEF IInv, WriterOwns
<1> QED
  BY <1>1, <1>2, <1>3, <1>4, <1>5, <1>6, ProducerFrame DEF IInv, i

\* _write_event_sync: the marker goes once the canonical file is there.
LEMMA SyncUnmarkIInv ==
  ASSUME IInv, NEW p \in Producers, SyncUnmark(p)
  PROVE  IInv'
<1> DEFINE i == prod[p].id
<1>1. /\ TypeOK /\ Running /\ prod[p].pc # "idle" /\ i \in Ids /\ session \in Sessions
      /\ file[i] = session
  BY DEF IInv, TypeOK, ProducersOwn, OwnsEvent, SyncUnmark
<1>2. /\ UNCHANGED <<file, lost, session, phase, todo, curId, queue, wpc, batch, tries, owner>>
      /\ Goto(p, "idle")
      /\ acked' = acked \cup {<<i, session>>}
      /\ DeleteMarker(i)
  BY DEF SyncUnmark, Ack, writer, process, history
<1>3. /\ pend' \in Stored /\ faults' \in 0 .. MaxFaults
      /\ \A j \in Ids : j # i => pend'[j] = pend[j]
      /\ pend'[i] \in {NoEvent, pend[i]}
  BY <1>1, <1>2, DeleteMarkerEffect
<1>4. /\ prod' \in [Producers -> [pc : ProducerPc, id : Ids]]
      /\ \A q \in Producers : q # p => prod'[q] = prod[q]
      /\ prod'[p].id = i /\ prod'[p].pc = "idle"
  BY <1>1, <1>2, GotoEffect DEF ProducerPc
<1> HIDE DEF i
<1>5. TypeOK'
  BY <1>1, <1>2, <1>3, <1>4 DEF TypeOK
<1>6. OwnsEvent(p)' /\ file'[i] = session
  BY <1>1, <1>2, <1>4 DEF OwnsEvent
<1>7. WriterOwns'
  BY <1>2 DEF IInv, WriterOwns
<1> QED
  BY <1>1, <1>2, <1>3, <1>4, <1>5, <1>6, <1>7, ProducerFrame DEF IInv, i

(***************************************************************************)
(* The writer at work on event h: likewise, given that it takes a marker   *)
(* away only when the event is in the log or in quarantine.                *)
(***************************************************************************)

\* A step of the writer thread that touches the files of one event of this session,
\* without taking away its last copy, preserves every conjunct but TypeOK and WriterOwns.
LEMMA WriterFrame ==
  ASSUME IInv, Running, TypeOK',
         NEW h \in Ids, Busy(h), owner[h] = session,
         UNCHANGED <<session, phase, todo, curId, prod, owner, acked>>,
         \A j \in Ids : j # h => file'[j] = file[j] /\ pend'[j] = pend[j] /\ lost'[j] = lost[j],
         file'[h] \in {file[h], session},
         lost'[h] \in {lost[h], session},
         pend'[h] \in {pend[h], NoEvent},
         pend'[h] = pend[h] \/ file'[h] = session \/ lost'[h] = session,
         \A k \in DOMAIN queue' : \E m \in DOMAIN queue : queue'[k] = queue[m],
         \A k \in DOMAIN batch' :
            \/ \E m \in DOMAIN batch : batch'[k] = batch[m]
            \/ \E m \in DOMAIN queue : batch'[k] = queue[m]
  PROVE  /\ QuietWhenNotRunning' /\ FreshIds' /\ StoredIsOwners'
         /\ ProducersOwn' /\ AckedWasOwned' /\ AckedDurable'
<1>1. /\ session \in Sessions /\ owner \in Stored /\ acked \subseteq Ids \X Sessions
  BY DEF IInv, TypeOK
<1>2. QuietWhenNotRunning'
  BY DEF IInv, QuietWhenNotRunning, Running
<1>3. FreshIds'
  BY <1>1 DEF IInv, FreshIds, Running
<1>4. StoredIsOwners'
  BY <1>1 DEF IInv, StoredIsOwners
<1>5. ProducersOwn'
  <2>1. ASSUME NEW q \in Producers PROVE OwnsEvent(q)'
    <3>1. OwnsEvent(q) /\ prod'[q] = prod[q] /\ prod[q].id \in Ids
      BY DEF IInv, TypeOK, ProducersOwn
    <3>2. prod[q].pc \in {"enqueue", "put", "putBare"} => prod[q].id # h
      BY <3>1 DEF OwnsEvent
    <3>3. ~Busy(prod[q].id) => ~(\/ \E k \in DOMAIN queue' : queue'[k] = prod[q].id
                                 \/ \E k \in DOMAIN batch' : batch'[k] = prod[q].id)
      BY DEF Busy, Held
    <3> QED
      BY <3>1, <3>2, <3>3 DEF OwnsEvent, Busy, Held
  <2> QED
    BY <2>1 DEF IInv, ProducersOwn
<1>6. AckedWasOwned'
  BY <1>1 DEF IInv, AckedWasOwned
<1>7. AckedDurable'
  <2>1. ASSUME NEW e \in acked, owner[e[1]] = e[2] PROVE Kept(e[1], e[2])'
    <3>1. e[1] \in Ids /\ Kept(e[1], e[2])
      BY <1>1, <2>1 DEF IInv, AckedDurable
    <3> QED
      BY <3>1, <2>1 DEF Kept
  <2> QED
    BY <2>1 DEF AckedDurable
<1> QED
  BY <1>2, <1>3, <1>4, <1>5, <1>6, <1>7

\* The item in hand is the head of the batch, an event of this session.
LEMMA ItemInHand ==
  ASSUME IInv, wpc \notin {"off", "loop", "get"}
  PROVE  /\ batch # <<>> /\ Head(batch) \in Ids /\ Busy(Head(batch))
         /\ owner[Head(batch)] = session
<1>1. batch \in Seq(Ids) /\ batch # <<>>
  BY DEF IInv, TypeOK, WriterOwns
<1>2. Head(batch) = batch[1] /\ Head(batch) \in Ids /\ 1 \in DOMAIN batch
  BY <1>1, HeadTailProperties, EmptySeq, LenProperties
<1> QED
  BY <1>1, <1>2 DEF IInv, WriterOwns, Busy

\* _drain_batch: the first item of a batch.
LEMMA WriterGetIInv ==
  ASSUME IInv, WriterGet
  PROVE  IInv'
<1>1. /\ TypeOK /\ Running /\ wpc = "get" /\ batch = <<>> /\ tries = 0
      /\ UNCHANGED <<file, pend, lost, faults, tries, session, phase, todo, curId, prod, owner, acked>>
  BY DEF IInv, WriterOwns, WriterGet, WriterUnchanged, disk, process, history
<1>2. CASE queue = <<>>
  <2>1. wpc' = "loop" /\ UNCHANGED <<queue, batch>>
    BY <1>2 DEF WriterGet
  <2>2. TypeOK'
    BY <1>1, <2>1 DEF TypeOK, WriterPc
  <2> QED
    BY <1>1, <2>1, <2>2 DEF IInv, QuietWhenNotRunning, FreshIds, StoredIsOwners, ProducersOwn,
       OwnsEvent, WriterOwns, AckedWasOwned, AckedDurable, Kept, Busy, Held, Running
<1>3. CASE queue # <<>>
  <2>1. /\ queue' = Tail(queue)
        /\ IF Head(queue) = Sentinel THEN wpc' = "off" /\ UNCHANGED batch
                                     ELSE wpc' = "drain" /\ batch' = <<Head(queue)>>
    BY <1>3 DEF WriterGet
  <2>2. /\ queue' \in Seq(Ids \cup {Sentinel}) /\ Len(queue') <= QueueCap
        /\ \A k \in DOMAIN queue' : \E m \in DOMAIN queue : queue'[k] = queue[m]
        /\ Head(queue) \in Ids \cup {Sentinel}
        /\ \E m \in DOMAIN queue : queue[m] = Head(queue)
    BY <1>1, <1>3, <2>1, TakeEffect
  <2>3. CASE Head(queue) = Sentinel
    <3>1. TypeOK'
      BY <1>1, <2>1, <2>2, <2>3 DEF TypeOK, WriterPc
    <3>2. WriterOwns'
      BY <1>1, <2>1, <2>2, <2>3 DEF IInv, WriterOwns
    <3> QED
      BY <1>1, <2>1, <2>2, <2>3, <3>1, <3>2 DEF IInv, QuietWhenNotRunning, FreshIds, StoredIsOwners,
         ProducersOwn, OwnsEvent, AckedWasOwned, AckedDurable, Kept, Busy, Held, Running
  <2>4. CASE Head(queue) # Sentinel
    <3> DEFINE h == Head(queue)
    <3>1. h \in Ids /\ owner[h] = session /\ Busy(h)
      BY <2>2, <2>4 DEF IInv, WriterOwns, Busy, Held
    <3>2. batch' = <<h>> /\ wpc' = "drain"
      BY <2>1, <2>4
    <3> HIDE DEF h
    <3>3. /\ batch' \in Seq(Ids) /\ Len(batch') = 1 /\ batch' # <<>>
          /\ \A k \in DOMAIN batch' : batch'[k] = h
      BY <3>2, <3>1
    <3>4. TypeOK'
      BY <1>1, <2>2, <3>2, <3>3, LedgerConstants DEF TypeOK, WriterPc
    <3>5. WriterOwns'
      BY <1>1, <2>2, <3>1, <3>2, <3>3, LedgerConstants DEF IInv, WriterOwns
    <3> QED
      BY <1>1, <2>2, <3>1, <3>3, <3>4, <3>5, WriterFrame DEF IInv, h, TypeOK
  <2> QED
    BY <2>3, <2>4
<1> QED
  BY <1>2, <1>3

\* _drain_batch: further items, up to the batch size.
LEMMA WriterDrainMoreIInv ==
  ASSUME IInv, WriterDrainMore
  PROVE  IInv'
<1>1. /\ TypeOK /\ Running /\ wpc = "drain" /\ batch # <<>> /\ tries < MaxFlushRetries
      /\ Len(batch) < BatchSize /\ queue # <<>> /\ queue' = Tail(queue)
      /\ UNCHANGED <<file, pend, lost, faults, tries, session, phase, todo, curId, prod, owner, acked>>
      /\ IF Head(queue) = Sentinel THEN wpc' = "flush" /\ UNCHANGED batch
                                   ELSE batch' = Append(batch, Head(queue)) /\ UNCHANGED wpc
  BY DEF IInv, WriterOwns, WriterDrainMore, WriterUnchanged, disk, process, history
<1>2. /\ queue' \in Seq(Ids \cup {Sentinel}) /\ Len(queue') <= QueueCap
      /\ \A k \in DOMAIN queue' : \E m \in DOMAIN queue : queue'[k] = queue[m]
      /\ Head(queue) \in Ids \cup {Sentinel}
      /\ \E m \in DOMAIN queue : queue[m] = Head(queue)
  BY <1>1, TakeEffect
<1>3. Head(batch) \in Ids /\ Busy(Head(batch)) /\ owner[Head(batch)] = session
  BY <1>1, ItemInHand
<1>4. CASE Head(queue) = Sentinel
  <2>1. wpc' = "flush" /\ UNCHANGED batch
    BY <1>1, <1>4
  <2>2. TypeOK'
    BY <1>1, <1>2, <2>1 DEF TypeOK, WriterPc
  <2>3. WriterOwns'
    BY <1>1, <1>2, <2>1 DEF IInv, WriterOwns
  <2> QED
    BY <1>1, <1>2, <1>3, <2>1, <2>2, <2>3, WriterFrame DEF IInv
<1>5. CASE Head(queue) # Sentinel
  <2> DEFINE x == Head(queue)
  <2>1. x \in Ids /\ owner[x] = session /\ UNCHANGED wpc /\ batch' = Append(batch, x)
    BY <1>1, <1>2, <1>5 DEF IInv, WriterOwns
  <2>2. /\ batch' \in Seq(Ids) /\ Len(batch') = Len(batch) + 1
        /\ \A k \in 1 .. Len(batch) : batch'[k] = batch[k]
        /\ batch'[Len(batch) + 1] = x
        /\ Len(batch) \in Nat /\ DOMAIN batch = 1 .. Len(batch) /\ DOMAIN batch' = 1 .. Len(batch) + 1
    BY <2>1, AppendProperties, LenProperties DEF IInv, TypeOK
  <2>3. \A k \in DOMAIN batch' : batch'[k] = x \/ \E m \in DOMAIN batch : batch'[k] = batch[m]
    BY <2>2
  <2>4. batch' # <<>>
    BY <2>2, EmptySeq
  <2> HIDE DEF x
  <2>5. TypeOK'
    BY <1>1, <1>2, <2>1, <2>2, LedgerConstants DEF TypeOK
  <2>6. WriterOwns'
    BY <1>1, <1>2, <2>1, <2>3, <2>4 DEF IInv, WriterOwns
  <2> QED
    BY <1>1, <1>2, <1>3, <2>3, <2>5, <2>6, WriterFrame DEF IInv, x
<1> QED
  BY <1>4, <1>5

\* _flush_event: the canonical file, or a failed attempt.
LEMMA FlushWriteIInv ==
  ASSUME IInv, FlushWrite
  PROVE  IInv'
<1> DEFINE h == Head(batch)
<1>1. /\ TypeOK /\ Running /\ wpc = "flush" /\ tries < MaxFlushRetries /\ session \in Sessions
      /\ batch # <<>> /\ h \in Ids /\ Busy(h) /\ owner[h] = session
  BY ItemInHand DEF IInv, WriterOwns, FlushWrite, TypeOK
<1>2. /\ UNCHANGED <<pend, lost, queue, batch, session, phase, todo, curId, prod, owner, acked>>
      /\ faults' \in 0 .. MaxFaults
      /\ \/ file' = [file EXCEPT ![h] = session] /\ wpc' = "unmark" /\ tries' = tries
         \/ UNCHANGED file /\ wpc' = "wait" /\ tries' = tries + 1
  BY <1>1, FaultType DEF FlushWrite, WriterUnchanged, process, history
<1>3. /\ file' \in Stored
      /\ \A j \in Ids : j # h => file'[j] = file[j]
      /\ file'[h] \in {file[h], session}
      /\ wpc' = "unmark" => file'[h] = session
      /\ wpc' \in {"unmark", "wait"}
  BY <1>1, <1>2 DEF TypeOK, Stored
<1>4. tries' \in 0 .. MaxFlushRetries
  BY <1>1, <1>2, LedgerConstants DEF TypeOK
<1>5. TypeOK'
  BY <1>1, <1>2, <1>3, <1>4 DEF TypeOK, WriterPc
<1>6. WriterOwns'
  BY <1>1, <1>2, <1>3 DEF IInv, WriterOwns
<1> HIDE DEF h
<1> QED
  BY <1>1, <1>2, <1>3, <1>5, <1>6, WriterFrame DEF IInv

\* _flush_event: the marker goes after the canonical file was written.
LEMMA FlushUnmarkIInv ==
  ASSUME IInv, FlushUnmark
  PROVE  IInv'
<1> DEFINE h == Head(batch)
<1>1. /\ TypeOK /\ Running /\ wpc = "unmark" /\ file[h] = session
      /\ batch # <<>> /\ h \in Ids /\ Busy(h) /\ owner[h] = session
  BY ItemInHand DEF IInv, WriterOwns, FlushUnmark
<1>2. /\ UNCHANGED <<file, lost, queue, session, phase, todo, curId, prod, owner, acked>>
      /\ DeleteMarker(h) /\ NextItem
  BY DEF FlushUnmark, WriterUnchanged, process, history
<1>3. /\ pend' \in Stored /\ faults' \in 0 .. MaxFaults
      /\ \A j \in Ids : j # h => pend'[j] = pend[j]
      /\ pend'[h] \in {NoEvent, pend[h]}
  BY <1>1, <1>2, DeleteMarkerEffect
<1>4. /\ batch' \in Seq(Ids) /\ Len(batch') <= BatchSize
      /\ tries' = 0 /\ wpc' \in {"loop", "flush"} /\ (wpc' = "loop" <=> batch' = <<>>)
      /\ \A k \in DOMAIN batch' : \E m \in DOMAIN batch : batch'[k] = batch[m]
  BY <1>1, <1>2, NextItemEffect
<1>5. TypeOK'
  BY <1>1, <1>2, <1>3, <1>4, LedgerConstants DEF TypeOK, WriterPc
<1>6. WriterOwns'
  BY <1>1, <1>2, <1>4, LedgerConstants DEF IInv, WriterOwns
<1> HIDE DEF h
<1> QED
  BY <1>1, <1>2, <1>3, <1>4, <1>5, <1>6, WriterFrame DEF IInv

\* _quarantine_pending_file: the copy to lost_events/.
LEMMA QuarantineIInv ==
  ASSUME IInv, Quarantine
  PROVE  IInv'
<1> DEFINE h == Head(batch)
<1>1. /\ TypeOK /\ Running /\ wpc = "quarantine" /\ session \in Sessions
      /\ batch # <<>> /\ h \in Ids /\ Busy(h) /\ owner[h] = session
  BY ItemInHand DEF IInv, WriterOwns, Quarantine, TypeOK
<1>2. /\ UNCHANGED <<file, pend, queue, session, phase, todo, curId, prod, owner, acked>>
      /\ faults' \in 0 .. MaxFaults
      /\ \/ lost' = [lost EXCEPT ![h] = session] /\ wpc' = "unmarkLost" /\ UNCHANGED <<batch, tries>>
         \/ UNCHANGED lost /\ NextItem
  BY <1>1, FaultType DEF Quarantine, WriterUnchanged, process, history
<1>3. /\ lost' \in Stored
      /\ \A j \in Ids : j # h => lost'[j] = lost[j]
      /\ lost'[h] \in {lost[h], session}
  BY <1>1, <1>2 DEF TypeOK, Stored
<1>4. CASE NextItem /\ UNCHANGED lost
  <2>1. /\ batch' \in Seq(Ids) /\ Len(batch') <= BatchSize
        /\ tries' = 0 /\ wpc' \in {"loop", "flush"} /\ (wpc' = "loop" <=> batch' = <<>>)
        /\ \A k \in DOMAIN batch' : \E m \in DOMAIN batch : batch'[k] = batch[m]
    BY <1>1, <1>4, NextItemEffect
  <2>2. TypeOK'
    BY <1>1, <1>2, <1>4, <2>1, LedgerConstants DEF TypeOK, WriterPc
  <2>3. WriterOwns'
    BY <1>1, <1>2, <2>1, LedgerConstants DEF IInv, WriterOwns
  <2> HIDE DEF h
  <2> QED
    BY <1>1, <1>2, <1>3, <2>1, <2>2, <2>3, WriterFrame DEF IInv
<1>5. CASE lost' = [lost EXCEPT ![h] = session] /\ wpc' = "unmarkLost" /\ UNCHANGED <<batch, tries>>
  <2>1. lost'[h] = session
    BY <1>1, <1>5 DEF TypeOK, Stored
  <2>2. TypeOK'
    BY <1>1, <1>2, <1>3, <1>5 DEF TypeOK, WriterPc
  <2>3. WriterOwns'
    BY <1>1, <1>2, <1>5, <2>1 DEF IInv, WriterOwns
  <2> HIDE DEF h
  <2> QED
    BY <1>1, <1>2, <1>3, <1>5, <2>2, <2>3, WriterFrame DEF IInv
<1> QED
  BY <1>2, <1>4, <1>5

\* _quarantine_pending_file: the marker goes after the copy was written.
LEMMA QuarantineUnmarkIInv ==
  ASSUME IInv, QuarantineUnmark
  PROVE  IInv'
<1> DEFINE h == Head(batch)
<1>1. /\ TypeOK /\ Running /\ wpc = "unmarkLost" /\ lost[h] = session
      /\ batch # <<>> /\ h \in Ids /\ Busy(h) /\ owner[h] = session
  BY ItemInHand DEF IInv, WriterOwns, QuarantineUnmark
<1>2. /\ UNCHANGED <<file, lost, queue, session, phase, todo, curId, prod, owner, acked>>
      /\ DeleteMarker(h) /\ NextItem
  BY DEF QuarantineUnmark, WriterUnchanged, process, history
<1>3. /\ pend' \in Stored /\ faults' \in 0 .. MaxFaults
      /\ \A j \in Ids : j # h => pend'[j] = pend[j]
      /\ pend'[h] \in {NoEvent, pend[h]}
  BY <1>1, <1>2, DeleteMarkerEffect
<1>4. /\ batch' \in Seq(Ids) /\ Len(batch') <= BatchSize
      /\ tries' = 0 /\ wpc' \in {"loop", "flush"} /\ (wpc' = "loop" <=> batch' = <<>>)
      /\ \A k \in DOMAIN batch' : \E m \in DOMAIN batch : batch'[k] = batch[m]
  BY <1>1, <1>2, NextItemEffect
<1>5. TypeOK'
  BY <1>1, <1>2, <1>3, <1>4, LedgerConstants DEF TypeOK, WriterPc
<1>6. WriterOwns'
  BY <1>1, <1>2, <1>4, LedgerConstants DEF IInv, WriterOwns
<1> HIDE DEF h
<1> QED
  BY <1>1, <1>2, <1>3, <1>4, <1>5, <1>6, WriterFrame DEF IInv

(***************************************************************************)
(* Writer steps that only move its program counter.                        *)
(***************************************************************************)

\* A writer step that only moves its program counter.
LEMMA WriterPcFrame ==
  ASSUME IInv, Running, wpc' \in WriterPc, WriterOwns',
         UNCHANGED <<file, pend, lost, faults, session, phase, todo, curId, prod, queue,
                     batch, tries, owner, acked>>
  PROVE  IInv'
<1>1. TypeOK'
  BY DEF IInv, TypeOK
<1>2. QuietWhenNotRunning' /\ FreshIds' /\ StoredIsOwners' /\ AckedWasOwned'
  BY DEF IInv, QuietWhenNotRunning, FreshIds, StoredIsOwners, AckedWasOwned, Running
<1>3. ProducersOwn' /\ AckedDurable'
  BY DEF IInv, ProducersOwn, OwnsEvent, Busy, Held, AckedDurable, Kept
<1> QED
  BY <1>1, <1>2, <1>3 DEF IInv

\* The loop head, the end of the batch window and the wait between two attempts.
LEMMA WriterMovesIInv ==
  ASSUME IInv, WriterLoop \/ WriterDrainEnd \/ FlushWait
  PROVE  IInv'
<1>1. /\ Running
      /\ UNCHANGED <<file, pend, lost, faults, session, phase, todo, curId, prod, queue,
                     batch, tries, owner, acked>>
  BY DEF WriterLoop, WriterDrainEnd, FlushWait, WriterUnchanged, disk, process, history
<1>2. wpc' \in WriterPc
  BY DEF WriterLoop, WriterDrainEnd, FlushWait, WriterPc
<1>3. WriterOwns'
  <2>1. tries \in 0 .. MaxFlushRetries
    BY DEF IInv, TypeOK
  <2> QED
    BY <1>1, <2>1, LedgerConstants DEF IInv, WriterOwns, WriterLoop, WriterDrainEnd, FlushWait
<1> QED
  BY <1>1, <1>2, <1>3, WriterPcFrame

(***************************************************************************)
(* Shutdown, crash, restart.                                               *)
(***************************************************************************)

\* stop() raising the stop flag.
LEMMA CloseBeginIInv ==
  ASSUME IInv, CloseBegin
  PROVE  IInv'
<1>1. /\ phase = "open" /\ phase' = "closing"
      /\ UNCHANGED <<file, pend, lost, faults, session, todo, curId, prod, queue, wpc, batch, tries, owner, acked>>
  BY DEF CloseBegin, disk, writer, history
<1>2. TypeOK'
  BY <1>1 DEF IInv, TypeOK, Phases
<1>3. QuietWhenNotRunning' /\ FreshIds' /\ StoredIsOwners' /\ AckedWasOwned'
  BY <1>1 DEF IInv, QuietWhenNotRunning, FreshIds, StoredIsOwners, AckedWasOwned, Running
<1>4. ProducersOwn' /\ WriterOwns' /\ AckedDurable'
  BY <1>1 DEF IInv, ProducersOwn, OwnsEvent, Busy, Held, WriterOwns, AckedDurable, Kept
<1> QED
  BY <1>2, <1>3, <1>4 DEF IInv

\* stop() putting the sentinel, which is no event.
LEMMA CloseSentinelIInv ==
  ASSUME IInv, CloseSentinel
  PROVE  IInv'
<1>1. /\ TypeOK /\ phase = "closing" /\ phase' = "joining"
      /\ UNCHANGED <<file, pend, lost, faults, session, todo, curId, prod, wpc, batch, tries, owner, acked>>
      /\ queue' = IF Len(queue) < QueueCap THEN Append(queue, Sentinel) ELSE queue
  BY DEF IInv, CloseSentinel, disk, writer, history
<1>2. /\ queue' \in Seq(Ids \cup {Sentinel}) /\ Len(queue') <= QueueCap
      /\ \A k \in DOMAIN queue' : queue'[k] = Sentinel \/ \E m \in DOMAIN queue : queue'[k] = queue[m]
  BY <1>1, PutEffect DEF TypeOK
<1>3. TypeOK'
  BY <1>1, <1>2 DEF TypeOK, Phases
<1>4. QuietWhenNotRunning' /\ FreshIds' /\ StoredIsOwners' /\ AckedWasOwned'
  BY <1>1 DEF IInv, QuietWhenNotRunning, FreshIds, StoredIsOwners, AckedWasOwned, Running
<1>5. ProducersOwn'
  <2>1. ASSUME NEW q \in Producers PROVE OwnsEvent(q)'
    <3>1. OwnsEvent(q) /\ prod[q].id # Sentinel
      BY <1>1 DEF IInv, TypeOK, ProducersOwn, Ids, Sentinel
    <3> QED
      BY <1>1, <1>2, <3>1 DEF OwnsEvent, Busy, Held
  <2> QED
    BY <1>1, <2>1 DEF IInv, ProducersOwn
<1>6. WriterOwns' /\ AckedDurable'
  BY <1>1, <1>2 DEF IInv, WriterOwns, AckedDurable, Kept
<1> QED
  BY <1>3, <1>4, <1>5, <1>6 DEF IInv

\* A crash or the end of a close: what was only in memory was not acknowledged, or has
\* its marker.
LEMMA ProcessEndsIInv ==
  ASSUME IInv, ProcessEnds
  PROVE  IInv'
<1>1. /\ phase' = "down" /\ prod' = [p \in Producers |-> Idle] /\ queue' = <<>> /\ wpc' = "off"
      /\ batch' = <<>> /\ tries' = 0 /\ todo' = {}
      /\ UNCHANGED <<file, pend, lost, faults, session, curId, owner, acked>>
  BY DEF ProcessEnds, disk, history
<1>2. TypeOK'
  BY <1>1, LedgerConstants DEF IInv, TypeOK, Phases, WriterPc, Idle, ProducerPc, Ids
<1>3. QuietWhenNotRunning' /\ FreshIds' /\ StoredIsOwners' /\ AckedWasOwned'
  BY <1>1 DEF IInv, QuietWhenNotRunning, FreshIds, StoredIsOwners, AckedWasOwned, Running, Idle
<1>4. ProducersOwn' /\ WriterOwns' /\ AckedDurable'
  BY <1>1 DEF IInv, ProducersOwn, OwnsEvent, WriterOwns, AckedDurable, Kept, Idle
<1> QED
  BY <1>2, <1>3, <1>4 DEF IInv

\* The next session starts from the markers on disk.
LEMMA RestartIInv ==
  ASSUME IInv, Restart
  PROVE  IInv'
<1>1. /\ TypeOK /\ phase = "down" /\ session \in Sessions /\ session' = session + 1
      /\ session < MaxSessions /\ phase' = "replay"
      /\ todo' = {i \in Ids : pend[i] # NoEvent} /\ wpc' \in {"loop", "off"}
      /\ UNCHANGED <<file, pend, lost, faults, curId, prod, queue, batch, tries, owner, acked>>
  BY DEF IInv, TypeOK, Restart, disk, history
<1>2. queue = <<>> /\ batch = <<>> /\ tries = 0 /\ \A p \in Producers : prod[p].pc = "idle"
  BY <1>1 DEF IInv, QuietWhenNotRunning, WriterOwns, Running
<1>3. TypeOK'
  BY <1>1, LedgerConstants DEF TypeOK, Phases, WriterPc, Sessions
<1>4. \A i \in Ids : owner[i] <= session' /\ owner[i] # session'
  <2>1. \A i \in Ids : owner[i] <= session /\ owner[i] \in Int
    BY <1>1 DEF IInv, FreshIds, TypeOK, Stored, Sessions, NoEvent
  <2> QED
    BY <1>1, <2>1 DEF Sessions
<1>5. FreshIds' /\ QuietWhenNotRunning'
  BY <1>1, <1>2, <1>4 DEF FreshIds, QuietWhenNotRunning, Running
<1>6. StoredIsOwners' /\ AckedWasOwned' /\ AckedDurable'
  BY <1>1 DEF IInv, StoredIsOwners, AckedWasOwned, AckedDurable, Kept
<1>7. ProducersOwn' /\ WriterOwns'
  BY <1>1, <1>2 DEF IInv, ProducersOwn, OwnsEvent, WriterOwns
<1> QED
  BY <1>3, <1>5, <1>6, <1>7 DEF IInv

(***************************************************************************)
(* Replay: no thread is at work; the step touches the files of id i only.  *)
(***************************************************************************)

\* A replay step that touches the files of one marked id, without taking away the last
\* copy of its event.
LEMMA ReplayFrame ==
  ASSUME IInv, TypeOK', phase = "replay",
         NEW i \in Ids, i \in todo,
         UNCHANGED <<session, phase, curId, prod, queue, wpc, batch, tries, owner, acked>>,
         \A j \in Ids : j # i => file'[j] = file[j] /\ pend'[j] = pend[j] /\ lost'[j] = lost[j],
         (todo' = todo /\ pend'[i] = pend[i]) \/ todo' = todo \ {i},
         file'[i] = file[i] \/ (file[i] = NoEvent /\ file'[i] = pend[i]),
         lost'[i] = lost[i] \/ lost'[i] = pend[i],
         \/ pend'[i] = pend[i]
         \/ pend'[i] = NoEvent /\ (file'[i] = pend[i] \/ file'[i] = owner[i] \/ lost'[i] = pend[i])
  PROVE  IInv'
<1>1. /\ session \in Sessions /\ owner \in Stored /\ acked \subseteq Ids \X Sessions
      /\ pend[i] = owner[i] /\ pend[i] # NoEvent /\ todo \subseteq Ids
  BY DEF IInv, TypeOK, QuietWhenNotRunning, StoredIsOwners
<1>2. QuietWhenNotRunning'
  BY <1>1 DEF IInv, QuietWhenNotRunning, Running
<1>3. FreshIds' /\ AckedWasOwned'
  BY DEF IInv, FreshIds, AckedWasOwned, Running
<1>4. StoredIsOwners'
  BY <1>1 DEF IInv, StoredIsOwners
<1>5. ProducersOwn' /\ WriterOwns'
  <2>1. wpc \in {"off", "loop"} /\ \A q \in Producers : prod[q].pc = "idle"
    BY DEF IInv, QuietWhenNotRunning, Running
  <2> QED
    BY <2>1 DEF IInv, ProducersOwn, OwnsEvent, WriterOwns
<1>6. AckedDurable'
  <2>1. ASSUME NEW e \in acked, owner[e[1]] = e[2] PROVE Kept(e[1], e[2])'
    <3>1. e[1] \in Ids /\ Kept(e[1], e[2])
      BY <1>1, <2>1 DEF IInv, AckedDurable
    <3>2. CASE e[1] # i
      BY <3>1, <3>2 DEF Kept
    <3>3. CASE e[1] = i
      BY <1>1, <2>1, <3>1, <3>3 DEF Kept
    <3> QED
      BY <3>2, <3>3
  <2> QED
    BY <2>1 DEF AckedDurable
<1> QED
  BY <1>2, <1>3, <1>4, <1>5, <1>6 DEF IInv

\* _process_pending_file: recover, clean up, quarantine or skip.
LEMMA ReplayStepIInv ==
  ASSUME IInv, NEW i \in Ids, ReplayStep(i)
  PROVE  IInv'
<1>1. /\ TypeOK /\ phase = "replay" /\ i \in todo
      /\ UNCHANGED <<session, phase, curId, prod, queue, wpc, batch, tries, owner, acked>>
  BY DEF IInv, ReplayStep, ReplayRecover, ReplayClean, ReplayQuarantine, ReplaySkip,
     ReplayUnchanged, writer, history
<1>2. file[i] \in {NoEvent, owner[i]}
  BY DEF IInv, StoredIsOwners
<1>3. CASE ReplayRecover(i)
  <2>1. /\ file[i] = NoEvent /\ file' = [file EXCEPT ![i] = pend[i]]
        /\ UNCHANGED <<pend, lost, faults, todo>>
    BY <1>3 DEF ReplayRecover
  <2>2. file' \in Stored /\ file'[i] = pend[i] /\ \A j \in Ids : j # i => file'[j] = file[j]
    BY <1>1, <2>1 DEF TypeOK, Stored
  <2>3. TypeOK'
    BY <1>1, <2>1, <2>2 DEF TypeOK
  <2> QED
    BY <1>1, <2>1, <2>2, <2>3, ReplayFrame
<1>4. CASE ReplayClean(i)
  <2>1. /\ file[i] # NoEvent /\ DeleteMarker(i) /\ todo' = todo \ {i}
        /\ UNCHANGED <<file, lost>>
    BY <1>4 DEF ReplayClean
  <2>2. /\ pend' \in Stored /\ faults' \in 0 .. MaxFaults
        /\ \A j \in Ids : j # i => pend'[j] = pend[j]
        /\ pend'[i] \in {NoEvent, pend[i]}
    BY <1>1, <2>1, DeleteMarkerEffect
  <2>3. TypeOK'
    BY <1>1, <2>1, <2>2 DEF TypeOK
  <2> QED
    BY <1>1, <1>2, <2>1, <2>2, <2>3, ReplayFrame
<1>5. CASE ReplayQuarantine(i)
  <2>1. /\ lost' = [lost EXCEPT ![i] = pend[i]] /\ pend' \in {pend, [pend EXCEPT ![i] = NoEvent]}
        /\ todo' = todo \ {i} /\ UNCHANGED file /\ faults' \in 0 .. MaxFaults
    BY <1>1, <1>5, FaultType DEF ReplayQuarantine
  <2>2. /\ lost' \in Stored /\ lost'[i] = pend[i] /\ \A j \in Ids : j # i => lost'[j] = lost[j]
        /\ pend' \in Stored /\ pend'[i] \in {NoEvent, pend[i]}
        /\ \A j \in Ids : j # i => pend'[j] = pend[j]
    BY <1>1, <2>1 DEF TypeOK, Stored
  <2>3. TypeOK'
    BY <1>1, <2>1, <2>2 DEF TypeOK
  <2> QED
    BY <1>1, <2>1, <2>2, <2>3, ReplayFrame
<1>6. CASE ReplaySkip(i)
  <2>1. todo' = todo \ {i} /\ UNCHANGED <<file, pend, lost>> /\ faults' \in 0 .. MaxFaults
    BY <1>1, <1>6, FaultType DEF ReplaySkip, disk
  <2>2. TypeOK'
    BY <1>1, <2>1 DEF TypeOK
  <2> QED
    BY <1>1, <2>1, <2>2, ReplayFrame
<1> QED
  BY <1>3, <1>4, <1>5, <1>6 DEF ReplayStep

\* _calculate_cur_id: the first new id is above every file and marker.
LEMMA ReplayEndIInv ==
  ASSUME IInv, ReplayEnd
  PROVE  IInv'
<1>1. /\ TypeOK /\ phase = "replay" /\ phase' = "open" /\ todo = {}
      /\ UNCHANGED <<file, pend, lost, faults, session, todo, prod, queue, wpc, batch, tries, owner, acked>>
  BY DEF IInv, ReplayEnd, disk, writer, history
<1>2. curId' \in 1 .. MaxId + 1 /\ \A i \in Ids : file[i] # NoEvent \/ pend[i] # NoEvent => i < curId'
  BY DEF ReplayEnd, IsNextId, ListedIds
<1>3. TypeOK'
  BY <1>1, <1>2 DEF TypeOK, Phases
<1>4. FreshIds'
  <2>1. \A i \in Ids : owner[i] <= session /\ owner[i] # session
    BY <1>1 DEF IInv, FreshIds
  <2>2. \A i \in Ids : i >= curId' => ~(i < curId')
    BY <1>2, LedgerConstants DEF Ids
  <2> QED
    BY <1>1, <1>2, <2>1, <2>2 DEF FreshIds
<1>5. QuietWhenNotRunning' /\ StoredIsOwners' /\ AckedWasOwned'
  BY <1>1 DEF IInv, QuietWhenNotRunning, StoredIsOwners, AckedWasOwned, Running
<1>6. ProducersOwn' /\ WriterOwns' /\ AckedDurable'
  BY <1>1 DEF IInv, ProducersOwn, OwnsEvent, Busy, Held, WriterOwns, AckedDurable, Kept
<1> QED
  BY <1>3, <1>4, <1>5, <1>6 DEF IInv

\* Nothing changes.
LEMMA StutterIInv ==
  ASSUME IInv, UNCHANGED vars
  PROVE  IInv'
<1>1. TypeOK' /\ QuietWhenNotRunning' /\ FreshIds' /\ StoredIsOwners'
  BY DEF IInv, vars, TypeOK, QuietWhenNotRunning, FreshIds, StoredIsOwners, Running
<1>2. ProducersOwn' /\ WriterOwns' /\ AckedWasOwned' /\ AckedDurable'
  BY DEF IInv, vars, ProducersOwn, OwnsEvent, Busy, Held, WriterOwns, AckedWasOwned, AckedDurable, Kept
<1> QED
  BY <1>1, <1>2 DEF IInv

(***************************************************************************)
(* The theorems.                                                           *)
(***************************************************************************)

\* The invariant is inductive.
LEMMA NextIInv == IInv /\ [Next]_vars => IInv'
<1> SUFFICES ASSUME IInv, [Next]_vars PROVE IInv'
  OBVIOUS
<1>1. ASSUME NEW p \in Producers, NEW critical \in BOOLEAN, AddEvent(p, critical) PROVE IInv'
  BY <1>1, AddEventIInv
<1>2. ASSUME NEW p \in Producers, ProducerStep(p) PROVE IInv'
  BY <1>2, EnqueueMarkIInv, EnqueuePutIInv, EnqueueFullIInv, SyncMarkIInv, SyncWriteIInv,
     SyncUnmarkIInv DEF ProducerStep
<1>3. CASE WriterStep
  BY <1>3, WriterMovesIInv, WriterGetIInv, WriterDrainMoreIInv, FlushWriteIInv, FlushUnmarkIInv,
     QuarantineIInv, QuarantineUnmarkIInv DEF WriterStep
<1>4. CASE CloseBegin \/ CloseStep \/ Crash \/ Restart
  BY <1>4, CloseBeginIInv, CloseSentinelIInv, ProcessEndsIInv, RestartIInv
     DEF CloseStep, CloseJoin, Crash
<1>5. CASE (\E i \in Ids : ReplayStep(i)) \/ ReplayEnd
  BY <1>5, ReplayStepIInv, ReplayEndIInv
<1>6. CASE UNCHANGED vars
  BY <1>6, StutterIInv
<1> QED
  BY <1>1, <1>2, <1>3, <1>4, <1>5, <1>6 DEF Next

\* The inductive invariant holds for any number of producers, ids, sessions and
\* faults, any queue capacity, batch size and number of retries.
THEOREM LedgerInvariant == Spec => []IInv
<1> QED
  BY InitIInv, NextIInv, PTL DEF Spec

\* persist_event, the writer thread and replay keep the variables in their types.
THEOREM LedgerTypeOK == Spec => []TypeOK
<1>1. IInv => TypeOK
  BY DEF IInv
<1> QED
  BY <1>1, LedgerInvariant, PTL

\* What persist_event acknowledged is never lost while its id is not reused: whatever
\* the interleaving of producers and writer, the failing file operations, crashes and
\* replays.
THEOREM LedgerAckedDurable == Spec => []AckedDurable
<1>1. IInv => AckedDurable
  BY DEF IInv
<1> QED
  BY <1>1, LedgerInvariant, PTL

\* No step of any thread or of recovery replaces or removes the event a canonical
\* file holds.
THEOREM LedgerIsAppendOnly == Spec => LedgerAppendOnly
<1> DEFINE Kind == \A i \in Ids : file[i] # NoEvent => file'[i] = file[i]
<1>1. IInv /\ [Next]_vars => [Kind]_vars
  <2> SUFFICES ASSUME IInv, Next, NEW i \in Ids, file[i] # NoEvent PROVE file'[i] = file[i]
    BY DEF Kind
  <2>1. file[i] = owner[i] /\ file \in Stored
    BY DEF IInv, StoredIsOwners, TypeOK
  <2>2. ASSUME NEW p \in Producers, SyncWrite(p) PROVE file'[i] = file[i]
    BY <2>1, <2>2 DEF SyncWrite, IInv, ProducersOwn, OwnsEvent, Stored
  <2>3. CASE FlushWrite
    <3>1. Head(batch) \in Ids /\ owner[Head(batch)] = session
      BY <2>3, ItemInHand DEF FlushWrite
    <3> QED
      BY <2>1, <2>3, <3>1 DEF FlushWrite, Stored
  <2>4. ASSUME NEW j \in Ids, ReplayRecover(j) PROVE file'[i] = file[i]
    BY <2>1, <2>4 DEF ReplayRecover, Stored
  <2>5. CASE UNCHANGED file
    BY <2>5
  <2>6. \/ \E p \in Producers : SyncWrite(p)
        \/ FlushWrite
        \/ \E j \in Ids : ReplayRecover(j)
        \/ UNCHANGED file
    BY DEF Next, disk, AddEvent, ProducerStep, EnqueueMark, EnqueuePut, EnqueueFull, SyncMark,
       SyncUnmark, WriterStep, WriterLoop, WriterGet, WriterDrainMore, WriterDrainEnd, FlushWait,
       FlushUnmark, Quarantine, QuarantineUnmark, CloseBegin, CloseStep, CloseSentinel, CloseJoin,
       Crash, ProcessEnds, Restart, ReplayStep, ReplayClean, ReplayQuarantine, ReplaySkip, ReplayEnd
  <2> QED
    BY <2>2, <2>3, <2>4, <2>5, <2>6
<1> QED
  BY <1>1, LedgerInvariant, PTL DEF Spec, LedgerAppendOnly
=============================================================================
