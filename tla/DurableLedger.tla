--------------------------- MODULE DurableLedger ---------------------------
(***************************************************************************)
(* The file-backed event ledger of one conversation:                       *)
(*   - the callers of EventStream.add_event, each persisting its event     *)
(*     with EventPersistence.persist_event;                                *)
(*   - the DurableEventWriter thread behind them, with its bounded queue;  *)
(*   - the three places on disk an event can be: its canonical file        *)
(*     <id>.json, its write-ahead marker <id>.json.pending, and the        *)
(*     quarantine lost_events/<id>.json.pending;                           *)
(*   - a crash of the process at any point, and what the next session      *)
(*     does with the markers it finds (replay_pending_events) before it    *)
(*     chooses the first new id (_calculate_cur_id).                       *)
(*                                                                         *)
(* The payload of an event is abstracted to the session that created it:   *)
(* <<i, s>> is the event that session s numbered i, and a file is a map    *)
(* from ids to the session whose event it holds, NoEvent when absent.      *)
(* Two sessions that number different events i are told apart, which is    *)
(* all the properties need.  Ids start at 1 here and at 0 in the code.     *)
(*                                                                         *)
(* LocalFileStore.write replaces a file atomically and fsyncs it, so what  *)
(* was written survives a crash.  Every write or delete may fail; MaxFaults*)
(* bounds how many of them do.                                             *)
(***************************************************************************)
EXTENDS Integers, Sequences

CONSTANTS
    Producers,        \* threads that call add_event
    MaxId,            \* bound: ids handed out
    MaxSessions,      \* bound: process starts over the same directory
    MaxFaults,        \* bound: failing file operations
    QueueCap,         \* max_queue_size of the writer's queue
    BatchSize,        \* _DEFAULT_BATCH_SIZE
    MaxFlushRetries   \* _MAX_FLUSH_RETRIES

ASSUME LedgerConstants ==
    /\ MaxId \in Nat \ {0}
    /\ MaxSessions \in Nat \ {0}
    /\ MaxFaults \in Nat
    /\ QueueCap \in Nat \ {0}
    /\ BatchSize \in Nat \ {0}
    /\ MaxFlushRetries \in Nat \ {0}

Ids      == 1 .. MaxId
Sessions == 1 .. MaxSessions
NoEvent  == 0                       \* no such file
Sentinel == 0                       \* the None that wakes the writer at stop

VARIABLES
    file, pend, lost,  \* [Ids -> {NoEvent} \cup Sessions], the three directories
    faults,            \* failed file operations so far
    session,           \* the process now (or last) running
    phase,             \* its life: replay, open, closing, joining, down
    todo,              \* ids whose marker the running replay still has to visit
    curId,             \* _cur_id, the next id to hand out
    prod,              \* per producer: where it is in persist_event, and its event
    queue,             \* the writer's queue.Queue
    wpc, batch, tries, \* the writer thread: program counter, batch, flush attempts
    owner,             \* history: the last session that handed out each id
    acked              \* history: events persist_event reported as safe

disk    == <<file, pend, lost>>
writer  == <<wpc, batch, tries>>
process == <<session, phase, todo>>
history == <<owner, acked>>
vars    == <<file, pend, lost, faults, session, phase, todo, curId, prod,
             queue, wpc, batch, tries, owner, acked>>

ProducerPc == {"idle", "enqueue", "put", "putBare", "mark", "write", "unmark"}
WriterPc   == {"off", "loop", "get", "drain", "flush", "wait", "unmark",
               "quarantine", "unmarkLost"}
Phases     == {"replay", "open", "closing", "joining", "down"}
Stored     == [Ids -> {NoEvent} \cup Sessions]
Idle       == [pc |-> "idle", id |-> 1]

TypeOK ==
    /\ file \in Stored /\ pend \in Stored /\ lost \in Stored /\ owner \in Stored
    /\ faults \in 0 .. MaxFaults
    /\ session \in Sessions
    /\ phase \in Phases
    /\ todo \in SUBSET Ids
    /\ curId \in 1 .. MaxId + 1
    /\ prod \in [Producers -> [pc : ProducerPc, id : Ids]]
    /\ queue \in Seq(Ids \cup {Sentinel}) /\ Len(queue) <= QueueCap
    /\ wpc \in WriterPc
    /\ batch \in Seq(Ids) /\ Len(batch) <= BatchSize
    /\ tries \in 0 .. MaxFlushRetries
    /\ acked \in SUBSET (Ids \X Sessions)

Init ==
    /\ file  = [i \in Ids |-> NoEvent]
    /\ pend  = [i \in Ids |-> NoEvent]
    /\ lost  = [i \in Ids |-> NoEvent]
    /\ owner = [i \in Ids |-> NoEvent]
    /\ faults = 0
    /\ session = 1
    /\ phase = "replay"
    /\ todo = {}
    /\ curId = 1
    /\ prod = [p \in Producers |-> Idle]
    /\ queue = <<>>
    /\ wpc \in {"loop", "off"}      \* async_write on, or off / failed to start
    /\ batch = <<>>
    /\ tries = 0
    /\ acked = {}

-----------------------------------------------------------------------------
(* File operations *)

Fault   == faults < MaxFaults /\ faults' = faults + 1
NoFault == UNCHANGED faults

\* file_store.write(<id>.json.pending); `ok` tells whether it succeeded.
WriteMarker(i, s, ok) ==
    IF ok THEN pend' = [pend EXCEPT ![i] = s] /\ NoFault
          ELSE UNCHANGED pend /\ Fault

\* file_store.delete(<id>.json.pending): a failure is swallowed and the marker
\* stays, wherever it happens.  (_quarantine_orphan_pending, reached when delete
\* raises, copies the marker to a name of its own and tries the delete again.)
DeleteMarker(i) ==
    \/ pend' = [pend EXCEPT ![i] = NoEvent] /\ NoFault
    \/ UNCHANGED pend /\ Fault

-----------------------------------------------------------------------------
(* EventStream.add_event and EventPersistence.persist_event, per producer *)

Goto(p, pc) == prod' = [prod EXCEPT ![p].pc = pc]
Running     == phase \in {"open", "closing", "joining"}
Stopping    == phase \in {"closing", "joining"}      \* the writer's _stop_flag

\* persist_event has reported producer p's event as stored.
Ack(p) ==
    /\ acked' = acked \cup {<<prod[p].id, session>>}
    /\ Goto(p, "idle")

\* Mutant: the id counter is read and advanced without the lock, so that an
\* increment may be lost.
AddEvent_NoLock(p, critical) ==
    /\ phase = "open"
    /\ prod[p].pc = "idle"
    /\ curId \in Ids
    /\ curId' \in {curId, curId + 1}
    /\ owner' = [owner EXCEPT ![curId] = session]
    /\ prod' = [prod EXCEPT ![p] = [pc |-> IF critical THEN "mark" ELSE "enqueue",
                                    id |-> curId]]
    /\ UNCHANGED <<disk, faults, process, queue, writer, acked>>

\* The id is taken under the lock; critical payloads go straight to the
\* synchronous path.  Nothing is accepted once close() has begun.
AddEvent(p, critical) ==
    /\ phase = "open"
    /\ prod[p].pc = "idle"
    /\ curId \in Ids
    /\ curId' = curId + 1
    /\ owner' = [owner EXCEPT ![curId] = session]
    /\ prod' = [prod EXCEPT ![p] = [pc |-> IF critical THEN "mark" ELSE "enqueue",
                                    id |-> curId]]
    /\ UNCHANGED <<disk, faults, process, queue, writer, acked>>

\* DurableEventWriter.enqueue, first half: the write-ahead marker.  A dead (or
\* absent) writer refuses, and the caller falls back to the synchronous write.
EnqueueMark(p) ==
    /\ Running
    /\ prod[p].pc = "enqueue"
    /\ IF wpc = "off"
       THEN Goto(p, "mark") /\ UNCHANGED <<pend, faults>>
       ELSE \E ok \in BOOLEAN :
              /\ WriteMarker(prod[p].id, session, ok)
              /\ Goto(p, IF ok THEN "put" ELSE "putBare")
    /\ UNCHANGED <<file, lost, process, curId, queue, writer, history>>

\* Mutant: enqueue answers True whether or not its marker was written.
EnqueuePut_AcksUnmarked(p) ==
    /\ Running
    /\ prod[p].pc \in {"put", "putBare"}
    /\ Len(queue) < QueueCap
    /\ queue' = Append(queue, prod[p].id)
    /\ Ack(p)
    /\ UNCHANGED <<disk, faults, process, curId, writer, owner>>

\* Second half: the put.  Without a marker the event is queued all the same,
\* but enqueue answers False and the event is also written synchronously.
EnqueuePut(p) ==
    /\ Running
    /\ prod[p].pc \in {"put", "putBare"}
    /\ Len(queue) < QueueCap
    /\ queue' = Append(queue, prod[p].id)
    /\ IF prod[p].pc = "put" THEN Ack(p) ELSE Goto(p, "mark") /\ UNCHANGED acked
    /\ UNCHANGED <<disk, faults, process, curId, writer, owner>>

\* The put timed out on a full queue: the marker is withdrawn again.
EnqueueFull(p) ==
    /\ Running
    /\ prod[p].pc \in {"put", "putBare"}
    /\ Len(queue) = QueueCap
    /\ IF prod[p].pc = "put" THEN DeleteMarker(prod[p].id) ELSE UNCHANGED <<pend, faults>>
    /\ Goto(p, "mark")
    /\ UNCHANGED <<file, lost, process, curId, queue, writer, history>>

\* _write_event_sync: marker, canonical file, marker removed.  A failed marker is
\* tolerated; a failed canonical write is counted and swallowed (no exception).
SyncMark(p) ==
    /\ Running
    /\ prod[p].pc = "mark"
    /\ \E ok \in BOOLEAN : WriteMarker(prod[p].id, session, ok)
    /\ Goto(p, "write")
    /\ UNCHANGED <<file, lost, process, curId, queue, writer, history>>

SyncWrite(p) ==
    /\ Running
    /\ prod[p].pc = "write"
    /\ \/ /\ file' = [file EXCEPT ![prod[p].id] = session]
          /\ NoFault
          /\ Goto(p, "unmark")
       \/ /\ Fault
          /\ Goto(p, "idle")
          /\ UNCHANGED file
    /\ UNCHANGED <<pend, lost, process, curId, queue, writer, history>>

SyncUnmark(p) ==
    /\ Running
    /\ prod[p].pc = "unmark"
    /\ DeleteMarker(prod[p].id)
    /\ Ack(p)
    /\ UNCHANGED <<file, lost, process, curId, queue, writer, owner>>

-----------------------------------------------------------------------------
(* The writer thread: _run, _drain_batch, _flush_batch, _flush_with_retry *)

WriterUnchanged == UNCHANGED <<process, curId, prod, history>>

\* The head of the while loop: the only place the stop flag ends the thread.
WriterLoop ==
    /\ Running
    /\ wpc = "loop"
    /\ wpc' = IF Stopping THEN "off" ELSE "get"
    /\ UNCHANGED <<disk, faults, queue, batch, tries>> /\ WriterUnchanged

\* Mutant: queue.Empty ends the thread instead of starting the next iteration.
WriterGet_EmptyEnds ==
    /\ Running
    /\ wpc = "get"
    /\ IF queue = <<>>
       THEN wpc' = "off" /\ UNCHANGED <<queue, batch>>
       ELSE /\ queue' = Tail(queue)
            /\ IF Head(queue) = Sentinel
               THEN wpc' = "off" /\ UNCHANGED batch
               ELSE wpc' = "drain" /\ batch' = <<Head(queue)>>
    /\ UNCHANGED <<disk, faults, tries>> /\ WriterUnchanged

\* queue.get(timeout=0.1) for the first item of a batch.
WriterGet ==
    /\ Running
    /\ wpc = "get"
    /\ IF queue = <<>>
       THEN wpc' = "loop" /\ UNCHANGED <<queue, batch>>
       ELSE /\ queue' = Tail(queue)
            /\ IF Head(queue) = Sentinel
               THEN wpc' = "off" /\ UNCHANGED batch
               ELSE wpc' = "drain" /\ batch' = <<Head(queue)>>
    /\ UNCHANGED <<disk, faults, tries>> /\ WriterUnchanged

\* More items while the batch window lasts.  A sentinel ends the window; the batch
\* is flushed and, the stop flag being set by then, the loop ends after it.
WriterDrainMore ==
    /\ Running
    /\ wpc = "drain"
    /\ Len(batch) < BatchSize
    /\ queue # <<>>
    /\ queue' = Tail(queue)
    /\ IF Head(queue) = Sentinel
       THEN wpc' = "flush" /\ UNCHANGED batch
       ELSE batch' = Append(batch, Head(queue)) /\ UNCHANGED wpc
    /\ UNCHANGED <<disk, faults, tries>> /\ WriterUnchanged

WriterDrainEnd ==
    /\ Running
    /\ wpc = "drain"
    /\ wpc' = "flush"
    /\ UNCHANGED <<disk, faults, queue, batch, tries>> /\ WriterUnchanged

\* The item is done, flushed or not: on to the next one of the batch.
NextItem ==
    /\ batch' = Tail(batch)
    /\ tries' = 0
    /\ wpc' = IF Len(batch) = 1 THEN "loop" ELSE "flush"

FlushWrite ==
    /\ Running
    /\ wpc = "flush"
    /\ \/ /\ file' = [file EXCEPT ![Head(batch)] = session]
          /\ NoFault
          /\ wpc' = "unmark"
          /\ UNCHANGED tries
       \/ /\ Fault
          /\ tries' = tries + 1
          /\ wpc' = "wait"
          /\ UNCHANGED file
    /\ UNCHANGED <<pend, lost, queue, batch>> /\ WriterUnchanged

\* Mutant: an event whose retries are used up is taken for written.
FlushWait_GivesUp ==
    /\ Running
    /\ wpc = "wait"
    /\ wpc' = IF Stopping \/ tries = MaxFlushRetries THEN "unmark" ELSE "flush"
    /\ UNCHANGED <<disk, faults, queue, batch, tries>> /\ WriterUnchanged

\* _stop_flag.wait(delay): a stop cuts the retries short.
FlushWait ==
    /\ Running
    /\ wpc = "wait"
    /\ wpc' = IF Stopping \/ tries = MaxFlushRetries THEN "quarantine" ELSE "flush"
    /\ UNCHANGED <<disk, faults, queue, batch, tries>> /\ WriterUnchanged

FlushUnmark ==
    /\ Running
    /\ wpc = "unmark"
    /\ DeleteMarker(Head(batch))
    /\ NextItem
    /\ UNCHANGED <<file, lost, queue>> /\ WriterUnchanged

\* Copy the marker (or, failing that, the payload) to lost_events/<id>.json.pending,
\* then delete it.  If the copy fails the marker is left where it is.
Quarantine ==
    /\ Running
    /\ wpc = "quarantine"
    /\ \/ /\ lost' = [lost EXCEPT ![Head(batch)] = session]
          /\ NoFault
          /\ wpc' = "unmarkLost"
          /\ UNCHANGED <<batch, tries>>
       \/ /\ Fault
          /\ NextItem
          /\ UNCHANGED lost
    /\ UNCHANGED <<file, pend, queue>> /\ WriterUnchanged

QuarantineUnmark ==
    /\ Running
    /\ wpc = "unmarkLost"
    /\ DeleteMarker(Head(batch))
    /\ NextItem
    /\ UNCHANGED <<file, lost, queue>> /\ WriterUnchanged

-----------------------------------------------------------------------------
(* Shutdown, crash, restart *)

\* EventStream.close and DurableEventWriter.stop: the flag goes up first ...
CloseBegin ==
    /\ phase = "open"
    /\ phase' = "closing"
    /\ UNCHANGED <<disk, faults, session, todo, curId, prod, queue, writer, history>>

\* ... the drain loop ends (nothing unfinished, stalled, or past its deadline) and
\* the sentinel is put if there is room ...
CloseSentinel ==
    /\ phase = "closing"
    /\ phase' = "joining"
    /\ queue' = IF Len(queue) < QueueCap THEN Append(queue, Sentinel) ELSE queue
    /\ UNCHANGED <<disk, faults, session, todo, curId, prod, writer, history>>

\* The process is gone: only the disk survives.
ProcessEnds ==
    /\ phase' = "down"
    /\ prod' = [p \in Producers |-> Idle]
    /\ queue' = <<>>
    /\ wpc' = "off"
    /\ batch' = <<>>
    /\ tries' = 0
    /\ todo' = {}
    /\ UNCHANGED <<disk, faults, session, curId, history>>

\* ... and the thread is joined, after which the process exits.
CloseJoin == phase = "joining" /\ wpc = "off" /\ ProcessEnds

\* A kill at any point.  A join that times out is one as well: the daemon thread
\* dies with the process.
Crash == phase # "down" /\ ProcessEnds

\* EventStream.__init__ over the same directory.
Restart ==
    /\ phase = "down"
    /\ session < MaxSessions
    /\ session' = session + 1
    /\ phase' = "replay"
    /\ todo' = {i \in Ids : pend[i] # NoEvent}
    /\ wpc' \in {"loop", "off"}
    /\ UNCHANGED <<disk, faults, curId, prod, queue, batch, tries, history>>

-----------------------------------------------------------------------------
(* replay_pending_events *)

ReplayUnchanged == UNCHANGED <<session, phase, curId, prod, queue, writer, history>>

\* The canonical file is missing: write it from the marker.  The marker is deleted
\* in a second step (ReplayClean), with a crash possible in between.
ReplayRecover(i) ==
    /\ phase = "replay"
    /\ i \in todo
    /\ file[i] = NoEvent
    /\ file' = [file EXCEPT ![i] = pend[i]]
    /\ UNCHANGED <<pend, lost, faults, todo>> /\ ReplayUnchanged

\* Mutant: every marker is taken for stale.
ReplayClean_Unchecked(i) ==
    /\ phase = "replay"
    /\ i \in todo
    /\ DeleteMarker(i)
    /\ todo' = todo \ {i}
    /\ UNCHANGED <<file, lost>> /\ ReplayUnchanged

\* The canonical file exists: the marker is stale.
ReplayClean(i) ==
    /\ phase = "replay"
    /\ i \in todo
    /\ file[i] # NoEvent
    /\ DeleteMarker(i)
    /\ todo' = todo \ {i}
    /\ UNCHANGED <<file, lost>> /\ ReplayUnchanged

\* The canonical file cannot be written: quarantine the marker, which may itself
\* go wrong at the delete.
ReplayQuarantine(i) ==
    /\ phase = "replay"
    /\ i \in todo
    /\ file[i] = NoEvent
    /\ Fault
    /\ lost' = [lost EXCEPT ![i] = pend[i]]
    /\ pend' \in {pend, [pend EXCEPT ![i] = NoEvent]}
    /\ todo' = todo \ {i}
    /\ UNCHANGED file /\ ReplayUnchanged

\* The marker or the file cannot be read, or not even the quarantine copy can be
\* written: the marker stays for the next start.
ReplaySkip(i) ==
    /\ phase = "replay"
    /\ i \in todo
    /\ Fault
    /\ todo' = todo \ {i}
    /\ UNCHANGED disk /\ ReplayUnchanged

\* _calculate_cur_id: one more than the largest id with a file or a marker;
\* lost_events/ is not looked at.
ListedIds == {i \in Ids : file[i] # NoEvent \/ pend[i] # NoEvent}

\* Mutant: the first unused id instead of the one after the largest.
IsNextId_FirstGap(n) == n \notin ListedIds /\ \A i \in Ids : i < n => i \in ListedIds

IsNextId(n) == /\ n \in 1 .. MaxId + 1
               /\ \A i \in ListedIds : i < n
               /\ n # 1 => n - 1 \in ListedIds

ReplayEnd ==
    /\ phase = "replay"
    /\ todo = {}
    /\ phase' = "open"
    /\ \E n \in 1 .. MaxId + 1 : IsNextId(n) /\ curId' = n
    /\ UNCHANGED <<disk, faults, session, todo, prod, queue, writer, history>>

-----------------------------------------------------------------------------

ProducerStep(p) ==
    \/ EnqueueMark(p) \/ EnqueuePut(p) \/ EnqueueFull(p)
    \/ SyncMark(p) \/ SyncWrite(p) \/ SyncUnmark(p)

WriterStep ==
    \/ WriterLoop \/ WriterGet \/ WriterDrainMore \/ WriterDrainEnd
    \/ FlushWrite \/ FlushWait \/ FlushUnmark
    \/ Quarantine \/ QuarantineUnmark

ReplayStep(i) ==
    ReplayRecover(i) \/ ReplayClean(i) \/ ReplayQuarantine(i) \/ ReplaySkip(i)

CloseStep == CloseSentinel \/ CloseJoin

Next ==
    \/ \E p \in Producers : \E critical \in BOOLEAN : AddEvent(p, critical)
    \/ \E p \in Producers : ProducerStep(p)
    \/ WriterStep
    \/ CloseBegin \/ CloseStep \/ Crash \/ Restart
    \/ \E i \in Ids : ReplayStep(i)
    \/ ReplayEnd

Spec == Init /\ [][Next]_vars

\* The operating system schedules the threads, and start-up and shutdown run to
\* their end; adding events, closing and crashing are never obliged to happen.
Fairness ==
    /\ \A p \in Producers : WF_vars(ProducerStep(p))
    /\ WF_vars(WriterStep)
    /\ WF_vars(CloseStep)
    /\ \A i \in Ids : WF_vars(ReplayStep(i))
    /\ WF_vars(ReplayEnd)

FairSpec == Spec /\ Fairness

-----------------------------------------------------------------------------
(* Properties *)

\* Event <<i, s>> can still be read back from one of the three directories.
Kept(i, s) == file[i] = s \/ pend[i] = s \/ lost[i] = s

\* An event persist_event reported as safe -- queued behind its marker, or written
\* -- is in the ledger, in a marker or in quarantine at every instant afterwards:
\* across the writer's retries, the queue being full, close, a crash between any
\* two file operations, and the replay.  (As long as its id was not handed out
\* again: the id of an event in quarantine is.)
AckedDurable == \A e \in acked : owner[e[1]] = e[2] => Kept(e[1], e[2])

\* The canonical log is append-only: no thread, and no later session, ever
\* replaces or removes the event a canonical file holds.
LedgerAppendOnly ==
    [][\A i \in Ids : file[i] # NoEvent => file'[i] = file[i]]_vars

\* Crashes alone lose nothing: if no file operation ever failed, then once a
\* restart has replayed the markers, the log holds every acknowledged event.
CrashRecoveryComplete ==
    [][phase = "replay" /\ phase' = "open" /\ faults = 0
         => \A e \in acked : file[e[1]] = e[2]]_vars

\* The events of which a copy exists.
Copies == {e \in Ids \X Sessions : Kept(e[1], e[2])}

\* The three directories, the writer, its retries, the crashes and the replay
\* together are one append-only log that acknowledges an event only when it holds a
\* copy of it, and never again lets go of that copy: every step of the code is a
\* step of EventLog or changes nothing a user of the ledger can see.
Log == INSTANCE EventLog WITH log <- file, held <- Copies
ImplementsEventLog == Log!Spec

Held(i) == \E k \in DOMAIN queue : queue[k] = i
Busy(i) == Held(i) \/ \E k \in DOMAIN batch : batch[k] = i

\* The writer never sits on an event: whatever is queued leaves the queue and the
\* batch, and unless the process ended it left them for the log or for quarantine
\* (or for its marker, if the quarantine copy failed).
QueuedEventsSettle == \A i \in Ids : Busy(i) ~> ~Busy(i)
-----------------------------------------------------------------------------
(* The inductive invariant behind AckedDurable and LedgerAppendOnly *)

\* Nothing is at work on events outside a running process.
QuietWhenNotRunning ==
    /\ ~Running => /\ \A p \in Producers : prod[p].pc = "idle"
                   /\ queue = <<>> /\ wpc \in {"off", "loop"}
    /\ phase # "replay" => todo = {}
    /\ \A i \in todo : pend[i] # NoEvent

\* Ids from curId on are unused on disk and not handed out in this session.
FreshIds ==
    /\ \A i \in Ids : owner[i] <= session
    /\ phase = "replay" => \A i \in Ids : owner[i] # session
    /\ Running => \A i \in Ids :
         i >= curId => file[i] = NoEvent /\ pend[i] = NoEvent /\ owner[i] # session

\* The log and the markers only hold the event of the last owner of an id.
StoredIsOwners ==
    \A i \in Ids : file[i] \in {NoEvent, owner[i]} /\ pend[i] \in {NoEvent, owner[i]}

\* A producer at work has an id of this session to itself, not acknowledged yet;
\* before its put the writer has not seen it; in "put" its marker is on disk (in
\* "putBare" writing it failed).
OwnsEvent(p) ==
    prod[p].pc # "idle" =>
      /\ owner[prod[p].id] = session
      /\ <<prod[p].id, session>> \notin acked
      /\ prod[p].pc \in {"enqueue", "put", "putBare"} => ~Busy(prod[p].id)
      /\ prod[p].pc = "put" => pend[prod[p].id] = session
      /\ prod[p].pc = "unmark" => file[prod[p].id] = session

ProducersOwn ==
    /\ \A p \in Producers : OwnsEvent(p)
    /\ \A p, q \in Producers :
         p # q /\ prod[p].pc # "idle" /\ prod[q].pc # "idle" => prod[p].id # prod[q].id

\* The writer works on events of this session only, and deletes a marker only when
\* the event has reached the log or quarantine.
WriterOwns ==
    /\ \A k \in DOMAIN queue : queue[k] # Sentinel => owner[queue[k]] = session
    /\ \A k \in DOMAIN batch : owner[batch[k]] = session
    /\ wpc \in {"off", "loop", "get"} <=> batch = <<>>
    /\ wpc = "unmark" => file[Head(batch)] = session
    /\ wpc = "unmarkLost" => lost[Head(batch)] = session
    /\ wpc \in {"flush", "drain"} => tries < MaxFlushRetries
    /\ wpc \in {"off", "loop", "get"} => tries = 0

\* Acknowledgements speak of events that were handed out.
AckedWasOwned == \A e \in acked : e[2] <= owner[e[1]]

\* Inductive: no producer, no writer step and no crash can leave an acknowledged
\* event without a copy, nor two events under one id.
IInv ==
    /\ TypeOK
    /\ QuietWhenNotRunning
    /\ FreshIds
    /\ StoredIsOwners
    /\ ProducersOwn
    /\ WriterOwns
    /\ AckedWasOwned
    /\ AckedDurable
=============================================================================
