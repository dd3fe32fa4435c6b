---------------------------- MODULE SqliteLedger ----------------------------
(***************************************************************************)
(* The event ledger in its default mode: one SQLite database per           *)
(* conversation (SQLiteEventStore), which takes over what sessions of the  *)
(* older file mode left in the directory:                                  *)
(*   - EventPersistence.__init__ imports the event files that have no row  *)
(*     yet, in order of their ids, and keeps the files;                    *)
(*   - replay_pending_events then imports the write-ahead markers;         *)
(*   - only after that is the first id chosen, one above the largest row;  *)
(*   - an insert is one transaction on a table that is never updated;      *)
(*   - a call of persist_event that is still under way when its stream is  *)
(*     closed finds no database and falls through to the code of the file  *)
(*     mode, perhaps while the next session is already running.            *)
(*                                                                         *)
(* As in DurableLedger, <<i, s>> is the event that session s numbered i.   *)
(* Session 1 is a session of the file mode that has ended; 2, 3, ... are   *)
(* streams over the database, one open at a time.  close() ends the store  *)
(* and gives up the session lock in one step.  Of the calls still under    *)
(* way then, one in a whole history is followed: the bound OneLateCall.    *)
(***************************************************************************)
EXTENDS Integers, FiniteSets

CONSTANTS
    Producers,        \* threads that call add_event
    MaxId,            \* bound: ids handed out
    MaxSessions,      \* bound: the file session and the streams after it
    MaxFaults         \* bound: failing file and database operations

ASSUME SqliteConstants ==
    /\ MaxId \in Nat \ {0}
    /\ MaxSessions \in Nat \ {0}
    /\ MaxFaults \in Nat

Ids      == 1 .. MaxId
Sessions == 1 .. MaxSessions
NoEvent  == 0

VARIABLES
    rows,        \* [Ids -> {NoEvent} \cup Sessions], the table events
    file, pend,  \* the same for <id>.json and <id>.json.pending
    faults,      \* failed operations so far
    late,        \* events whose call was under way when its stream closed
    session,     \* the stream now (or last) open
    phase,       \* its life: migrate, replay, open, down
    todo,        \* ids the running import has still to visit
    listed,      \* history: no directory listing has failed
    due,         \* history: events that were safe when this opening began
    curId,       \* _cur_id, the next id to hand out
    prod,        \* per producer: where it is in persist_event, its event and stream
    owner,       \* history: the last session that handed out each id
    acked        \* history: events persist_event reported as safe

disk    == <<rows, file, pend>>
opening == <<todo, listed, due>>
history == <<owner, acked>>
vars    == <<rows, file, pend, faults, late, session, phase, todo, listed, due,
             curId, prod, owner, acked>>

Stored     == [Ids -> {NoEvent} \cup Sessions]
ProducerPc == {"idle", "insert", "mark", "write", "unmark", "stored"}
Idle       == [pc |-> "idle", id |-> 1, by |-> 1]

TypeOK ==
    /\ rows \in Stored /\ file \in Stored /\ pend \in Stored /\ owner \in Stored
    /\ faults \in 0 .. MaxFaults
    /\ session \in Sessions
    /\ phase \in {"down", "migrate", "replay", "open"}
    /\ todo \in SUBSET Ids
    /\ listed \in BOOLEAN
    /\ curId \in 1 .. MaxId + 1
    /\ prod \in [Producers -> [pc : ProducerPc, id : Ids, by : Sessions]]
    /\ late \in SUBSET (Ids \X Sessions)
    /\ due \in SUBSET (Ids \X Sessions)
    /\ acked \in SUBSET (Ids \X Sessions)

\* What the file session may have left: for each id it handed out a file, a marker,
\* both or neither.  Every event with a copy counts as acknowledged, the strongest
\* case for what follows.
Init ==
    /\ rows = [i \in Ids |-> NoEvent]
    /\ \E n \in 0 .. MaxId : \E f, m \in SUBSET (1 .. n) :
         /\ owner = [i \in Ids |-> IF i <= n THEN 1 ELSE NoEvent]
         /\ file  = [i \in Ids |-> IF i \in f THEN 1 ELSE NoEvent]
         /\ pend  = [i \in Ids |-> IF i \in m THEN 1 ELSE NoEvent]
         /\ acked = (f \cup m) \X {1}
    /\ faults = 0
    /\ late = {}
    /\ session = 1
    /\ phase = "down"
    /\ todo = {} /\ listed = TRUE /\ due = {}
    /\ curId = 1
    /\ prod = [p \in Producers |-> Idle]

Fault   == faults < MaxFaults /\ faults' = faults + 1
NoFault == UNCHANGED faults

\* file_store.delete of a marker: a failure is swallowed.
DeleteMarker(i) ==
    \/ pend' = [pend EXCEPT ![i] = NoEvent] /\ NoFault
    \/ UNCHANGED pend /\ Fault

-----------------------------------------------------------------------------
(* Opening: EventPersistence.__init__, replay_pending_events, _calculate_cur_id *)

\* file_store.list on the events directory.  A failure is taken for an empty
\* directory: logged at debug level, and the opening goes on.
List(found) ==
    \/ todo' = found /\ NoFault /\ UNCHANGED listed
    \/ todo' = {} /\ Fault /\ listed' = FALSE

OpenBegin ==
    /\ phase = "down"
    /\ session < MaxSessions
    /\ phase' = "migrate"
    /\ List({i \in Ids : file[i] # NoEvent})
    /\ due' = {e \in acked : owner[e[1]] = e[2]}
    /\ UNCHANGED <<disk, late, session, curId, prod, history>>

\* Mutant: a legacy file that cannot be read is skipped.
MigrateRow_SkipsUnreadable(i) ==
    /\ phase = "migrate"
    /\ i \in todo /\ \A j \in todo : i <= j
    /\ \/ rows[i] # NoEvent /\ NoFault /\ UNCHANGED rows
       \/ rows[i] = NoEvent /\ NoFault /\ rows' = [rows EXCEPT ![i] = file[i]]
       \/ rows[i] = NoEvent /\ Fault /\ UNCHANGED rows
    /\ todo' = todo \ {i}
    /\ UNCHANGED <<file, pend, late, session, phase, listed, due, curId, prod, history>>

\* One legacy file, in order of the ids; a row that exists already is kept.
MigrateRow(i) ==
    /\ phase = "migrate"
    /\ i \in todo /\ \A j \in todo : i <= j
    /\ \/ rows[i] # NoEvent /\ UNCHANGED rows
       \/ rows[i] = NoEvent /\ rows' = [rows EXCEPT ![i] = file[i]]
    /\ todo' = todo \ {i}
    /\ UNCHANGED <<file, pend, faults, late, session, phase, listed, due, curId,
                   prod, history>>

MigrateEnd ==
    /\ phase = "migrate"
    /\ todo = {}
    /\ phase' = "replay"
    /\ List({i \in Ids : pend[i] # NoEvent})
    /\ UNCHANGED <<disk, late, session, due, curId, prod, history>>

\* A marker without a row: it is inserted, and removed by the next step.
ReplayRecover(i) ==
    /\ phase = "replay"
    /\ i \in todo
    /\ rows[i] = NoEvent /\ pend[i] # NoEvent
    /\ rows' = [rows EXCEPT ![i] = pend[i]]
    /\ UNCHANGED <<file, pend, faults, late, session, phase, opening, curId, prod, history>>

ReplayClean(i) ==
    /\ phase = "replay"
    /\ i \in todo
    /\ rows[i] # NoEvent
    /\ DeleteMarker(i)
    /\ todo' = todo \ {i}
    /\ UNCHANGED <<rows, file, late, session, phase, listed, due, curId, prod, history>>

\* A read or an insert raises, or a late call has removed the marker that was to be
\* read: the exception leaves EventStream.__init__, and no stream is opened.
OpenFails ==
    /\ phase \in {"migrate", "replay"}
    /\ \/ Fault
       \/ /\ \E i \in todo : phase = "replay" /\ rows[i] = NoEvent /\ pend[i] = NoEvent
          /\ NoFault
    /\ phase' = "down"
    /\ todo' = {} /\ due' = {}
    /\ UNCHANGED <<disk, late, session, listed, curId, prod, history>>

\* Mutant: the next id is the number of rows, not one above the largest.
IsNextId_Count(n) == n = 1 + Cardinality({i \in Ids : rows[i] # NoEvent})

\* max_id() + 1.
IsNextId(n) == /\ n \in 1 .. MaxId + 1
               /\ \A i \in Ids : rows[i] # NoEvent => i < n
               /\ n # 1 => rows[n - 1] # NoEvent

OpenEnd ==
    /\ phase = "replay"
    /\ todo = {}
    /\ phase' = "open"
    /\ session' = session + 1
    /\ \E n \in 1 .. MaxId + 1 : IsNextId(n) /\ curId' = n
    /\ due' = {}
    /\ UNCHANGED <<disk, faults, late, todo, listed, prod, history>>

-----------------------------------------------------------------------------
(* EventStream.add_event and EventPersistence.persist_event, per producer *)

Goto(p, pc) == prod' = [prod EXCEPT ![p].pc = pc]
Event(p)    == <<prod[p].id, prod[p].by>>

\* Mutant: the id counter is read and advanced without the lock.
AddEvent_NoLock(p) ==
    /\ phase = "open"
    /\ prod[p].pc = "idle"
    /\ curId \in Ids
    /\ curId' \in {curId, curId + 1}
    /\ owner' = [owner EXCEPT ![curId] = session]
    /\ prod' = [prod EXCEPT ![p] = [pc |-> "insert", id |-> curId, by |-> session]]
    /\ UNCHANGED <<disk, faults, late, session, phase, opening, acked>>

AddEvent(p) ==
    /\ phase = "open"
    /\ prod[p].pc = "idle"
    /\ curId \in Ids
    /\ curId' = curId + 1
    /\ owner' = [owner EXCEPT ![curId] = session]
    /\ prod' = [prod EXCEPT ![p] = [pc |-> "insert", id |-> curId, by |-> session]]
    /\ UNCHANGED <<disk, faults, late, session, phase, opening, acked>>

\* The stream of producer p's call has its database open.
Connected(p) == phase = "open" /\ prod[p].by = session

\* SQLiteEventStore.write_event.  A failure reaches add_event, which delivers the
\* event all the same.
Insert(p) ==
    /\ prod[p].pc = "insert"
    /\ Connected(p)
    /\ LET i == prod[p].id IN
       \/ /\ rows[i] = NoEvent
          /\ rows' = [rows EXCEPT ![i] = session]
          /\ NoFault
          /\ Goto(p, "stored")
       \/ Fault /\ Goto(p, "idle") /\ UNCHANGED rows
    /\ UNCHANGED <<file, pend, late, session, phase, opening, curId, history>>

\* _record_persist_success, and persist_event returns.
Acknowledge(p) ==
    /\ prod[p].pc = "stored"
    /\ acked' = acked \cup {Event(p)}
    /\ Goto(p, "idle")
    /\ UNCHANGED <<disk, faults, late, session, phase, opening, curId, owner>>

\* close() came first: persist_event finds no store and goes on with the file mode,
\* or had found one that is closed now, and fails.
InsertClosed(p) ==
    /\ prod[p].pc = "insert"
    /\ ~Connected(p)
    /\ Goto(p, "mark") \/ Goto(p, "idle")
    /\ UNCHANGED <<disk, faults, late, session, phase, opening, curId, history>>

\* _write_event_sync: marker, file, marker removed.
FileMark(p) ==
    /\ prod[p].pc = "mark"
    /\ \/ pend' = [pend EXCEPT ![prod[p].id] = prod[p].by] /\ NoFault
       \/ UNCHANGED pend /\ Fault
    /\ Goto(p, "write")
    /\ UNCHANGED <<rows, file, late, session, phase, opening, curId, history>>

FileWrite(p) ==
    /\ prod[p].pc = "write"
    /\ \/ /\ file' = [file EXCEPT ![prod[p].id] = prod[p].by]
          /\ NoFault
          /\ Goto(p, "unmark")
       \/ UNCHANGED file /\ Fault /\ Goto(p, "idle")
    /\ UNCHANGED <<rows, pend, late, session, phase, opening, curId, history>>

FileUnmark(p) ==
    /\ prod[p].pc = "unmark"
    /\ DeleteMarker(prod[p].id)
    /\ Goto(p, "stored")
    /\ UNCHANGED <<rows, file, late, session, phase, opening, curId, history>>

-----------------------------------------------------------------------------

\* Bound: one call in a history outlives its stream.
OneLateCall(calls) == \A e, f \in calls : e = f

\* EventStream.close.  It waits for no call of add_event.
Close ==
    /\ phase = "open"
    /\ late' = late \cup {Event(p) : p \in {q \in Producers : prod[q].pc # "idle"}}
    /\ OneLateCall(late')
    /\ phase' = "down"
    /\ UNCHANGED <<disk, faults, session, opening, curId, prod, history>>

\* The process is killed, at any point.
Crash ==
    /\ phase' = "down"
    /\ prod' = [p \in Producers |-> Idle]
    /\ todo' = {} /\ due' = {}
    /\ UNCHANGED <<disk, faults, late, session, listed, curId, history>>

ProducerStep(p) ==
    \/ AddEvent(p) \/ Insert(p) \/ InsertClosed(p) \/ Acknowledge(p)
    \/ FileMark(p) \/ FileWrite(p) \/ FileUnmark(p)

Next ==
    \/ OpenBegin \/ MigrateEnd \/ OpenFails \/ OpenEnd
    \/ \E i \in Ids : MigrateRow(i) \/ ReplayRecover(i) \/ ReplayClean(i)
    \/ \E p \in Producers : ProducerStep(p)
    \/ Close \/ Crash

Spec == Init /\ [][Next]_vars

-----------------------------------------------------------------------------
(* Properties *)

\* Whatever file sessions, failed openings, crashes, failing operations and a late
\* call do, the database is the log of EventLog: ids are given out above all its
\* rows, a row is never replaced, only an event with a copy is acknowledged, and
\* the copy of an acknowledged event stays while the id is its own.
Copies == {e \in Ids \X Sessions :
             rows[e[1]] = e[2] \/ file[e[1]] = e[2] \/ pend[e[1]] = e[2]}

Log == INSTANCE EventLog WITH log <- rows, held <- Copies

ImplementsEventLog == Log!Spec

\* A stream is opened only when every event that was safe when the opening began is
\* a row: an import that fails midway must not be taken for a finished one, because
\* what is not a row is invisible and its id is given out again.  (Unless a listing
\* ever failed, which the code takes for an empty directory.)
OpensComplete ==
    [][phase = "replay" /\ phase' = "open" /\ listed
         => \A e \in due : rows[e[1]] = e[2]]_vars

\* What the two rest on: nothing is stored for a session that was not given the id;
\* what SQLite sessions left in the files is the late call's; a running stream has
\* its fresh ids above all rows and a producer that still owns its id; a call that
\* is about to acknowledge has stored its event.
WithinOwner == \A i \in Ids : /\ owner[i] <= session
                             /\ \A v \in {rows[i], file[i], pend[i]} : v <= owner[i]

LateWrites == \A i \in Ids : \A v \in {file[i], pend[i]} :
                v \in {NoEvent, 1} \/ <<i, v>> \in late

LateCalls == /\ OneLateCall(late)
             /\ \A e \in late : 1 < e[2] /\ e[2] <= owner[e[1]]

FreshIds == phase = "open" =>
    \A i \in Ids : i >= curId => rows[i] = NoEvent /\ owner[i] # session

InHand(p) ==
    /\ Connected(p) => prod[p].pc \in {"insert", "stored"} /\ owner[prod[p].id] = session
    /\ ~Connected(p) => Event(p) \in late
    /\ prod[p].pc = "unmark" => file[prod[p].id] = prod[p].by
    /\ prod[p].pc = "stored" =>
         \/ rows[prod[p].id] = prod[p].by
         \/ Event(p) \in late /\ file[prod[p].id] = prod[p].by

ProducersInHand == \A p \in Producers : prod[p].pc # "idle" => InHand(p)

ImportTodo == /\ phase \in {"migrate", "replay"} => session < MaxSessions
              /\ phase = "open" => session > 1
              /\ phase = "migrate" => \A i \in todo : file[i] # NoEvent

AckedStored == \A e \in acked : e[2] = 1 \/ e[2] \in {rows[e[1]], file[e[1]]}

IInv ==
    /\ TypeOK
    /\ WithinOwner /\ LateWrites /\ LateCalls /\ FreshIds
    /\ ProducersInHand
    /\ ImportTodo
    /\ AckedStored
=============================================================================
