------------------------- MODULE SqliteLedgerProofs -------------------------
(* Proofs about SqliteLedger, for every number of producers, events, sessions *)
(* and faults: the inductive invariant, and that the database implements the  *)
(* append-only log of EventLog.                                               *)
EXTENDS SqliteLedger, TLAPS

USE DEF NoEvent

\* What an id and the three places of its event can hold.
LEMMA Numbers ==
  ASSUME IInv
  PROVE  /\ session \in Nat /\ session >= 1
         /\ \A i \in Ids : /\ rows[i] \in Nat /\ file[i] \in Nat /\ pend[i] \in Nat
                           /\ owner[i] \in Nat /\ owner[i] <= session
                           /\ rows[i] <= owner[i] /\ file[i] <= owner[i]
                           /\ pend[i] <= owner[i]
  BY SqliteConstants DEF IInv, TypeOK, Stored, Sessions, WithinOwner

-----------------------------------------------------------------------------

\* What a file session left behind, whatever it was, satisfies the invariant.
LEMMA InitInv == Init => IInv
<1> SUFFICES ASSUME Init PROVE IInv
  OBVIOUS
<1> PICK n \in 0 .. MaxId : \E f, m \in SUBSET (1 .. n) :
         /\ owner = [i \in Ids |-> IF i <= n THEN 1 ELSE NoEvent]
         /\ file  = [i \in Ids |-> IF i \in f THEN 1 ELSE NoEvent]
         /\ pend  = [i \in Ids |-> IF i \in m THEN 1 ELSE NoEvent]
         /\ acked = (f \cup m) \X {1}
  BY DEF Init
<1> PICK f \in SUBSET (1 .. n), m \in SUBSET (1 .. n) :
         /\ owner = [i \in Ids |-> IF i <= n THEN 1 ELSE NoEvent]
         /\ file  = [i \in Ids |-> IF i \in f THEN 1 ELSE NoEvent]
         /\ pend  = [i \in Ids |-> IF i \in m THEN 1 ELSE NoEvent]
         /\ acked = (f \cup m) \X {1}
  OBVIOUS
<1>0. f \subseteq Ids /\ m \subseteq Ids /\ 1 \in Sessions /\ 1 \in Ids
  BY SqliteConstants DEF Ids, Sessions
<1>1. TypeOK
  <2>1. rows \in Stored /\ file \in Stored /\ pend \in Stored /\ owner \in Stored
    BY <1>0 DEF Init, Stored
  <2>2. prod \in [Producers -> [pc : ProducerPc, id : Ids, by : Sessions]]
    BY <1>0 DEF Init, Idle, ProducerPc
  <2>3. acked \in SUBSET (Ids \X Sessions)
    BY <1>0
  <2>4. curId \in 1 .. MaxId + 1 /\ faults \in 0 .. MaxFaults
    BY SqliteConstants DEF Init
  <2> QED
    BY <1>0, <2>1, <2>2, <2>3, <2>4 DEF Init, TypeOK
<1>2. WithinOwner
  <2> SUFFICES ASSUME NEW i \in Ids
               PROVE  owner[i] <= session /\ \A v \in {rows[i], file[i], pend[i]} : v <= owner[i]
    BY DEF WithinOwner
  <2>1. session = 1 /\ rows[i] = 0 /\ owner[i] = (IF i <= n THEN 1 ELSE 0)
    BY DEF Init
  <2>2. i \in f \cup m => i <= n
    OBVIOUS
  <2>3. file[i] = (IF i \in f THEN 1 ELSE 0) /\ pend[i] = (IF i \in m THEN 1 ELSE 0)
    OBVIOUS
  <2> QED
    BY <2>1, <2>2, <2>3
<1>3. LateWrites
  BY DEF LateWrites
<1>4. LateCalls
  BY DEF Init, LateCalls, OneLateCall
<1>5. FreshIds
  BY DEF Init, FreshIds
<1>6. ProducersInHand
  BY DEF Init, ProducersInHand, Idle
<1>7. ImportTodo
  BY DEF Init, ImportTodo
<1>8. AckedStored
  BY DEF AckedStored
<1> QED
  BY <1>1, <1>2, <1>3, <1>4, <1>5, <1>6, <1>7, <1>8
      DEF IInv
-----------------------------------------------------------------------------

\* Steps of an opening that touch neither disk nor producers.
LEMMA PhaseFrame ==
  ASSUME IInv, phase # "open", phase' # "open", TypeOK', ImportTodo',
         UNCHANGED <<rows, file, pend, owner, acked, late, session, curId, prod>>
  PROVE  IInv'
<1>1. (WithinOwner /\ LateWrites /\ LateCalls /\ AckedStored)'
  BY DEF IInv, WithinOwner, LateWrites, LateCalls, AckedStored
<1>2. FreshIds'
  BY DEF FreshIds
<1>3. ProducersInHand'
  BY DEF IInv, ProducersInHand, InHand, Connected, Event
<1> QED
  BY <1>1, <1>2, <1>3 DEF IInv

LEMMA OpeningInv ==
  ASSUME IInv, OpenBegin \/ MigrateEnd \/ OpenFails
  PROVE  IInv'
<1>1. faults' \in 0 .. MaxFaults
  BY SqliteConstants DEF OpenBegin, MigrateEnd, OpenFails, List, Fault, NoFault, IInv, TypeOK
<1>2. /\ phase # "open" /\ phase' \in {"down", "migrate", "replay"}
      /\ UNCHANGED <<rows, file, pend, owner, acked, late, session, curId, prod>>
  BY DEF OpenBegin, MigrateEnd, OpenFails, disk, history
<1>3. todo' \in SUBSET Ids /\ listed' \in BOOLEAN /\ due' \in SUBSET (Ids \X Sessions)
  <2>1. CASE OpenBegin
    BY <2>1 DEF OpenBegin, List, IInv, TypeOK
  <2>2. CASE MigrateEnd
    BY <2>2 DEF MigrateEnd, List, IInv, TypeOK
  <2>3. CASE OpenFails
    BY <2>3 DEF OpenFails, IInv, TypeOK
  <2> QED
    BY <2>1, <2>2, <2>3
<1>4. TypeOK'
  BY <1>1, <1>2, <1>3 DEF IInv, TypeOK, Stored
<1>5. ImportTodo'
  <2>1. CASE OpenBegin
    BY <2>1 DEF OpenBegin, List, ImportTodo, disk
  <2>2. CASE MigrateEnd
    BY <2>2 DEF MigrateEnd, ImportTodo, IInv
  <2>3. CASE OpenFails
    BY <2>3 DEF OpenFails, ImportTodo
  <2> QED
    BY <2>1, <2>2, <2>3
<1> QED
  BY <1>2, <1>4, <1>5, PhaseFrame

LEMMA OpenEndInv ==
  ASSUME IInv, OpenEnd
  PROVE  IInv'
<1>1. /\ UNCHANGED <<rows, file, pend, owner, acked, late, prod, faults, todo, listed>>
      /\ phase = "replay" /\ phase' = "open" /\ todo = {} /\ due' = {}
      /\ session' = session + 1
  BY DEF OpenEnd, disk, history
<1>2. curId' \in 1 .. MaxId + 1 /\ \A i \in Ids : rows[i] # NoEvent => i < curId'
  BY DEF OpenEnd, IsNextId
<1>3. session' \in Sessions /\ session' \in Nat /\ session' > session
  BY <1>1, SqliteConstants DEF IInv, TypeOK, Sessions, ImportTodo
<1>4. TypeOK'
  BY <1>1, <1>2, <1>3 DEF IInv, TypeOK, Stored
<1>5. WithinOwner'
  BY <1>1, <1>3, Numbers DEF WithinOwner, Ids
<1>6. (LateWrites /\ LateCalls /\ AckedStored)'
  BY <1>1 DEF OpenEnd, history, IInv, LateWrites, LateCalls, AckedStored
<1>7. FreshIds'
  BY <1>1, <1>2, <1>3, Numbers DEF FreshIds, IInv, TypeOK, Ids
<1>8. ProducersInHand'
  <2> SUFFICES ASSUME NEW p \in Producers, prod[p].pc # "idle" PROVE InHand(p)'
    BY <1>1 DEF ProducersInHand
  <2>1. ~Connected(p) /\ prod[p].by \in Sessions
    BY <1>1 DEF Connected, IInv, TypeOK
  <2>2. Event(p) \in late /\ prod[p].id \in Ids
    BY <2>1 DEF IInv, ProducersInHand, InHand, TypeOK
  <2>3. prod[p].by <= session
    <3>1. prod[p].by <= owner[prod[p].id]
      BY <2>2 DEF IInv, LateCalls, Event
    <3> QED
      BY <2>1, <2>2, <3>1, Numbers DEF Sessions
  <2>4. ~Connected(p)'
    BY <1>1, <1>3, <2>1, <2>3, Numbers DEF Connected, Sessions
  <2> QED
    BY <1>1, <2>1, <2>2, <2>4 DEF IInv, ProducersInHand, InHand, Event
<1>9. ImportTodo'
  BY <1>1, Numbers DEF ImportTodo
<1> QED
  BY <1>4, <1>5, <1>6, <1>7, <1>8, <1>9 DEF IInv

\* A row enters during an import: it is what the file or the marker holds.
LEMMA ImportInv ==
  ASSUME IInv, NEW i \in Ids, MigrateRow(i) \/ ReplayRecover(i)
  PROVE  IInv'
<1>1. /\ UNCHANGED <<file, pend, owner, acked, late, session, curId, prod, phase, listed, due>>
      /\ UNCHANGED faults /\ phase # "open" /\ todo' \in SUBSET todo
  BY DEF MigrateRow, ReplayRecover, history, opening
<1>2. \/ rows' = rows
      \/ /\ rows[i] = NoEvent
         /\ \E v \in {file[i], pend[i]} : rows' = [rows EXCEPT ![i] = v]
  BY DEF MigrateRow, ReplayRecover
<1>3. /\ rows' \in Stored
      /\ \A j \in Ids : \/ rows'[j] = rows[j]
                        \/ rows[j] = NoEvent /\ rows'[j] \in {file[j], pend[j]}
  <2>1. rows \in Stored /\ file \in Stored /\ pend \in Stored
    BY DEF IInv, TypeOK
  <2>2. CASE rows' = rows
    BY <2>1, <2>2
  <2>3. ASSUME rows[i] = NoEvent, NEW v \in {file[i], pend[i]}, rows' = [rows EXCEPT ![i] = v]
        PROVE  /\ rows' \in Stored
               /\ \A j \in Ids : \/ rows'[j] = rows[j]
                                 \/ rows[j] = NoEvent /\ rows'[j] \in {file[j], pend[j]}
    <3>1. v \in {NoEvent} \cup Sessions
      BY <2>1 DEF Stored
    <3> QED
      BY <2>1, <2>3, <3>1 DEF Stored
  <2> QED
    BY <1>2, <2>2, <2>3
<1>4. TypeOK'
  BY <1>1, <1>3 DEF IInv, TypeOK
<1>5. WithinOwner'
  BY <1>1, <1>3 DEF IInv, WithinOwner
<1>6. (LateWrites /\ LateCalls /\ FreshIds /\ ImportTodo)'
  BY <1>1 DEF IInv, LateWrites, LateCalls, FreshIds, ImportTodo
<1>7. ProducersInHand'
  <2> SUFFICES ASSUME NEW p \in Producers, prod[p].pc # "idle" PROVE InHand(p)'
    BY <1>1 DEF ProducersInHand
  <2>1. InHand(p) /\ prod[p].id \in Ids /\ prod[p].by \in Sessions /\ ~Connected(p) /\ ~Connected(p)'
    BY <1>1 DEF IInv, ProducersInHand, TypeOK, Connected
  <2>2. prod[p].by # NoEvent
    BY <2>1 DEF Sessions
  <2>3. prod[p].pc = "stored" => prod[p].by \in {rows'[prod[p].id], file[prod[p].id]}
    BY <1>3, <2>1, <2>2 DEF InHand
  <2> QED
    BY <1>1, <2>1, <2>3 DEF InHand, Event
<1>8. AckedStored'
  <2> SUFFICES ASSUME NEW e \in acked, e[2] # 1
               PROVE  e[2] \in {rows'[e[1]], file[e[1]]}
    BY <1>1 DEF AckedStored
  <2>1. e[1] \in Ids /\ e[2] \in Sessions /\ e[2] \in {rows[e[1]], file[e[1]]}
    BY DEF IInv, TypeOK, AckedStored
  <2> QED
    BY <1>3, <2>1 DEF Sessions
<1> QED
  BY <1>4, <1>5, <1>6, <1>7, <1>8 DEF IInv

\* A marker is removed, or its removal fails.
LEMMA DeleteMarkerEffect ==
  ASSUME IInv, NEW i \in Ids, DeleteMarker(i)
  PROVE  /\ pend' \in Stored /\ faults' \in 0 .. MaxFaults
         /\ pend'[i] \in {NoEvent, pend[i]}
         /\ \A j \in Ids : j # i => pend'[j] = pend[j]
  BY SqliteConstants DEF DeleteMarker, Fault, NoFault, IInv, TypeOK, Stored

LEMMA ReplayCleanInv ==
  ASSUME IInv, NEW i \in Ids, ReplayClean(i)
  PROVE  IInv'
<1>1. /\ UNCHANGED <<rows, file, owner, acked, late, session, curId, prod, phase, listed, due>>
      /\ phase = "replay" /\ todo' \in SUBSET Ids /\ DeleteMarker(i)
  BY DEF ReplayClean, history, IInv, TypeOK
<1>2. /\ pend' \in Stored /\ faults' \in 0 .. MaxFaults
      /\ \A j \in Ids : pend'[j] \in {NoEvent, pend[j]}
  BY <1>1, DeleteMarkerEffect
<1>3. TypeOK'
  BY <1>1, <1>2 DEF IInv, TypeOK
<1>4. WithinOwner' /\ LateWrites'
  <2>1. WithinOwner /\ LateWrites
    BY DEF IInv
  <2> SUFFICES ASSUME NEW j \in Ids
               PROVE  /\ owner[j] <= session /\ rows[j] <= owner[j]
                      /\ file[j] <= owner[j] /\ pend'[j] <= owner[j]
                      /\ file[j] \in {NoEvent, 1} \/ <<j, file[j]>> \in late
                      /\ pend'[j] \in {NoEvent, 1} \/ <<j, pend'[j]>> \in late
    BY <1>1 DEF WithinOwner, LateWrites
  <2>2. owner[j] <= session /\ rows[j] <= owner[j] /\ file[j] <= owner[j]
    BY Numbers
  <2>3. pend'[j] = NoEvent \/ pend'[j] = pend[j]
    BY <1>2
  <2>4. pend'[j] <= owner[j]
    BY <2>3, Numbers
  <2>5. /\ file[j] \in {NoEvent, 1} \/ <<j, file[j]>> \in late
        /\ pend[j] \in {NoEvent, 1} \/ <<j, pend[j]>> \in late
    BY <2>1 DEF LateWrites
  <2> QED
    BY <2>2, <2>3, <2>4, <2>5
<1>5. (LateCalls /\ FreshIds /\ ImportTodo /\ AckedStored)'
  BY <1>1 DEF IInv, LateCalls, FreshIds, ImportTodo, AckedStored
<1>6. ProducersInHand'
  BY <1>1 DEF IInv, ProducersInHand, InHand, Connected, Event
<1> QED
  BY <1>3, <1>4, <1>5, <1>6 DEF IInv
LEMMA AddEventInv ==
  ASSUME IInv, NEW p \in Producers, AddEvent(p)
  PROVE  IInv'
<1>1. /\ UNCHANGED <<rows, file, pend, faults, late, session, phase, todo, listed, due, acked>>
      /\ phase = "open" /\ prod[p].pc = "idle" /\ curId \in Ids /\ curId' = curId + 1
      /\ owner' = [owner EXCEPT ![curId] = session]
      /\ prod' = [prod EXCEPT ![p] = [pc |-> "insert", id |-> curId, by |-> session]]
  BY DEF AddEvent, disk, opening
<1>2. /\ owner' \in Stored /\ owner'[curId] = session
      /\ \A i \in Ids : i # curId => owner'[i] = owner[i]
  BY <1>1 DEF IInv, TypeOK, Stored
<1>3. prod' \in [Producers -> [pc : ProducerPc, id : Ids, by : Sessions]]
  BY <1>1 DEF IInv, TypeOK, ProducerPc
<1>4. curId' \in 1 .. MaxId + 1
  BY <1>1, SqliteConstants DEF Ids
<1>5. TypeOK'
  BY <1>1, <1>2, <1>3, <1>4 DEF IInv, TypeOK
<1>6. \A i \in Ids : owner'[i] \in Nat /\ owner[i] <= owner'[i] /\ owner'[i] <= session
  BY <1>2, Numbers
<1>7. WithinOwner'
  <2> SUFFICES ASSUME NEW i \in Ids
               PROVE  /\ owner'[i] <= session /\ rows[i] <= owner'[i]
                      /\ file[i] <= owner'[i] /\ pend[i] <= owner'[i]
    BY <1>1 DEF WithinOwner
  <2> QED
    BY <1>6, Numbers
<1>8. LateCalls'
  <2>1. \A e \in late : e[1] \in Ids /\ e[2] \in Nat
    BY DEF IInv, TypeOK, Sessions
  <2> QED
    BY <1>1, <1>6, <2>1, Numbers DEF IInv, LateCalls
<1>9. FreshIds'
  BY <1>1, <1>2 DEF IInv, FreshIds, Ids
<1>10. ProducersInHand'
  <2> SUFFICES ASSUME NEW q \in Producers, prod'[q].pc # "idle" PROVE InHand(q)'
    BY DEF ProducersInHand
  <2>1. CASE q = p
    <3>1. prod'[q] = [pc |-> "insert", id |-> curId, by |-> session]
      BY <1>1, <2>1 DEF IInv, TypeOK
    <3> QED
      BY <1>1, <1>2, <3>1 DEF InHand, Connected
  <2>2. CASE q # p
    <3>1. prod'[q] = prod[q] /\ prod[q].id \in Ids
      BY <1>1, <2>2 DEF IInv, TypeOK
    <3>2. InHand(q)
      BY <3>1 DEF IInv, ProducersInHand
    <3>3. owner[prod[q].id] = session => prod[q].id # curId
      BY <1>1, <3>1 DEF IInv, FreshIds, Ids
    <3> QED
      BY <1>1, <1>2, <3>1, <3>2, <3>3 DEF InHand, Connected, Event
  <2> QED
    BY <2>1, <2>2
<1>11. (LateWrites /\ ImportTodo /\ AckedStored)'
  BY <1>1 DEF IInv, LateWrites, ImportTodo, AckedStored
<1> QED
  BY <1>5, <1>7, <1>8, <1>9, <1>10, <1>11 DEF IInv

\* A step of producer p in the middle of its call: p itself stays in hand, and what
\* another producer has stored stays where it is.
LEMMA ProducerFrame ==
  ASSUME IInv, TypeOK', WithinOwner', LateWrites', FreshIds',
         NEW p \in Producers, prod[p].pc # "idle",
         NEW pc \in ProducerPc, prod' = [prod EXCEPT ![p].pc = pc],
         pc # "idle" => InHand(p)',
         AckedStored',
         \A i \in Ids : rows[i] # NoEvent => rows'[i] = rows[i],
         \A i \in Ids : file'[i] # file[i] => <<i, file'[i]>> \in late,
         UNCHANGED <<owner, late, session, phase, todo>>
  PROVE  IInv'
<1>1. LateCalls'
  BY DEF IInv, LateCalls
<1>2. ImportTodo'
  <2>1. \A i \in Ids : file[i] # NoEvent => file'[i] # NoEvent
    <3> SUFFICES ASSUME NEW i \in Ids, <<i, file'[i]>> \in late PROVE file'[i] # NoEvent
      OBVIOUS
    <3> QED
      BY DEF IInv, LateCalls
  <2>2. todo \in SUBSET Ids
    BY DEF IInv, TypeOK
  <2> QED
    BY <2>1, <2>2 DEF IInv, ImportTodo
<1>3. ProducersInHand'
  <2> SUFFICES ASSUME NEW q \in Producers, prod'[q].pc # "idle" PROVE InHand(q)'
    BY DEF ProducersInHand
  <2>1. CASE q = p
    BY <2>1 DEF IInv, TypeOK
  <2>2. CASE q # p
    <3>1. prod'[q] = prod[q] /\ prod[q].id \in Ids /\ prod[q].by \in Sessions
      BY <2>2 DEF IInv, TypeOK
    <3>2. InHand(q)
      BY <3>1 DEF IInv, ProducersInHand
    <3>3. (Connected(q)' <=> Connected(q)) /\ Event(q)' = Event(q)
      BY <3>1 DEF Connected, Event
    <3>4. Event(q) \in late /\ file[prod[q].id] = prod[q].by => file'[prod[q].id] = prod[q].by
      <4> SUFFICES ASSUME Event(q) \in late, file[prod[q].id] = prod[q].by,
                          file'[prod[q].id] # file[prod[q].id]
                   PROVE  file'[prod[q].id] = prod[q].by
        OBVIOUS
      <4>1. /\ <<prod[q].id, file'[prod[q].id]>> \in late
            /\ Event(q) = <<prod[q].id, prod[q].by>>
        BY <3>1 DEF Event
      <4> QED
        BY <4>1 DEF IInv, LateCalls, OneLateCall
    <3>5. rows[prod[q].id] = prod[q].by => rows'[prod[q].id] = prod[q].by
      BY <3>1 DEF Sessions
    <3>6. prod[q].pc = "unmark" => Event(q) \in late
      BY <3>2 DEF InHand
    <3> QED
      BY <3>1, <3>2, <3>3, <3>4, <3>5, <3>6 DEF InHand
  <2> QED
    BY <2>1, <2>2
<1> QED
  BY <1>1, <1>2, <1>3 DEF IInv
\* What InHand says of producer p, and what moving its program counter does.
LEMMA InMidCall ==
  ASSUME IInv, NEW p \in Producers, prod[p].pc # "idle",
         NEW pc \in ProducerPc, Goto(p, pc)
  PROVE  /\ InHand(p) /\ prod[p].id \in Ids /\ prod[p].by \in Sessions
         /\ prod' = [prod EXCEPT ![p].pc = pc]
         /\ prod' \in [Producers -> [pc : ProducerPc, id : Ids, by : Sessions]]
         /\ prod'[p].pc = pc /\ prod'[p].id = prod[p].id /\ prod'[p].by = prod[p].by
  BY DEF IInv, TypeOK, ProducersInHand, Goto

LEMMA FaultsBound ==
  ASSUME IInv, Fault \/ NoFault
  PROVE  faults' \in 0 .. MaxFaults
  BY SqliteConstants DEF IInv, TypeOK, Fault, NoFault

LEMMA InsertInv ==
  ASSUME IInv, NEW p \in Producers, Insert(p)
  PROVE  IInv'
<1> DEFINE i == prod[p].id
<1>1. /\ prod[p].pc = "insert" /\ Connected(p)
      /\ UNCHANGED <<file, pend, owner, acked, late, session, phase, todo, listed, due, curId>>
  BY DEF Insert, history, opening
<1>2. \/ rows[i] = NoEvent /\ rows' = [rows EXCEPT ![i] = session] /\ NoFault /\ Goto(p, "stored")
      \/ rows' = rows /\ Fault /\ Goto(p, "idle")
  BY DEF Insert
<1>3. PICK pc \in {"idle", "stored"} :
        /\ Goto(p, pc) /\ (Fault \/ NoFault)
        /\ pc = "stored" => rows[i] = NoEvent /\ rows' = [rows EXCEPT ![i] = session]
        /\ pc = "idle" => rows' = rows
  BY <1>2
<1>4. pc \in ProducerPc /\ faults' \in 0 .. MaxFaults
  BY <1>3, FaultsBound DEF ProducerPc
<1>5. /\ InHand(p) /\ i \in Ids /\ prod[p].by = session /\ owner[i] = session
      /\ prod' = [prod EXCEPT ![p].pc = pc]
      /\ prod' \in [Producers -> [pc : ProducerPc, id : Ids, by : Sessions]]
      /\ prod'[p].pc = pc /\ prod'[p].id = i /\ prod'[p].by = session
  BY <1>1, <1>3, <1>4, InMidCall DEF Connected, InHand
<1>6. /\ rows' \in Stored
      /\ \A j \in Ids : rows'[j] = rows[j] \/ j = i
      /\ pc = "stored" => rows[i] = NoEvent /\ rows'[i] = session
      /\ pc = "idle" => rows' = rows
  BY <1>3, <1>5 DEF IInv, TypeOK, Stored
<1> HIDE DEF i
<1>7. TypeOK'
  BY <1>1, <1>4, <1>5, <1>6 DEF IInv, TypeOK
<1>8. WithinOwner'
  <2> SUFFICES ASSUME NEW j \in Ids
               PROVE  /\ owner[j] <= session /\ rows'[j] <= owner[j]
                      /\ file[j] <= owner[j] /\ pend[j] <= owner[j]
    BY <1>1 DEF WithinOwner
  <2>1. rows'[j] = rows[j] \/ rows'[j] = owner[j]
    BY <1>3, <1>5, <1>6
  <2> QED
    BY <2>1, Numbers
<1>9. LateWrites'
  BY <1>1 DEF IInv, LateWrites
<1>10. FreshIds'
  <2>1. phase = "open" => i < curId
    BY <1>5 DEF IInv, FreshIds, TypeOK, Ids
  <2> QED
    BY <1>1, <1>6, <2>1 DEF IInv, FreshIds, Ids, TypeOK
<1>11. pc # "idle" => InHand(p)'
  BY <1>1, <1>3, <1>5, <1>6 DEF InHand, Connected, Event
<1>12. \A j \in Ids : rows[j] # NoEvent => rows'[j] = rows[j]
  BY <1>3, <1>6
<1>13. AckedStored'
  <2> SUFFICES ASSUME NEW e \in acked, e[2] # 1 PROVE e[2] \in {rows'[e[1]], file[e[1]]}
    BY <1>1 DEF AckedStored
  <2>1. e[1] \in Ids /\ e[2] \in Sessions /\ e[2] \in {rows[e[1]], file[e[1]]}
    BY DEF IInv, TypeOK, AckedStored
  <2> QED
    BY <1>12, <2>1 DEF Sessions
<1> QED
  BY <1>1, <1>4, <1>5, <1>7, <1>8, <1>9, <1>10, <1>11, <1>12, <1>13, ProducerFrame

\* The other steps of a call leave the rows alone.
LEMMA FileStepsInv ==
  ASSUME IInv, NEW p \in Producers,
         InsertClosed(p) \/ Acknowledge(p) \/ FileMark(p) \/ FileWrite(p) \/ FileUnmark(p)
  PROVE  IInv'
<1> DEFINE i == prod[p].id
           s == prod[p].by
<1>1. /\ prod[p].pc # "idle"
      /\ UNCHANGED <<rows, owner, late, session, phase, todo, listed, due, curId>>
  BY DEF InsertClosed, Acknowledge, FileMark, FileWrite, FileUnmark, disk, history, opening
<1>2. PICK pc \in ProducerPc : Goto(p, pc)
  BY DEF InsertClosed, Acknowledge, FileMark, FileWrite, FileUnmark, ProducerPc
<1>3. /\ InHand(p) /\ i \in Ids /\ s \in Sessions
      /\ prod' = [prod EXCEPT ![p].pc = pc]
      /\ prod' \in [Producers -> [pc : ProducerPc, id : Ids, by : Sessions]]
      /\ prod'[p].pc = pc /\ prod'[p].id = i /\ prod'[p].by = s
  BY <1>1, <1>2, InMidCall
<1>4. ~Acknowledge(p) => Event(p) \in late /\ ~Connected(p)
  BY <1>3 DEF InsertClosed, FileMark, FileWrite, FileUnmark, InHand
<1>5. faults' \in 0 .. MaxFaults
  BY FaultsBound DEF InsertClosed, Acknowledge, FileMark, FileWrite, FileUnmark,
     DeleteMarker, NoFault
<1>6. file' = file \/ (file' = [file EXCEPT ![i] = s] /\ FileWrite(p))
  BY DEF InsertClosed, Acknowledge, FileMark, FileWrite, FileUnmark, disk
<1>7. \/ pend' = pend
      \/ pend' = [pend EXCEPT ![i] = s] /\ FileMark(p)
      \/ pend' = [pend EXCEPT ![i] = NoEvent]
  BY DEF InsertClosed, Acknowledge, FileMark, FileWrite, FileUnmark, DeleteMarker, disk
<1>8. acked' = acked \/ (acked' = acked \cup {Event(p)} /\ Acknowledge(p))
  BY DEF InsertClosed, Acknowledge, FileMark, FileWrite, FileUnmark, history
<1>9. /\ file' \in Stored /\ pend' \in Stored
      /\ \A j \in Ids : file'[j] = file[j] \/ (j = i /\ file'[j] = s /\ FileWrite(p))
      /\ \A j \in Ids : \/ pend'[j] = pend[j] \/ pend'[j] = NoEvent
                        \/ (j = i /\ pend'[j] = s /\ FileMark(p))
  <2>1. file \in Stored /\ pend \in Stored
    BY DEF IInv, TypeOK
  <2>2. file' \in Stored /\ \A j \in Ids : file'[j] = file[j] \/ (j = i /\ file'[j] = s /\ FileWrite(p))
    BY <1>3, <1>6, <2>1 DEF Stored
  <2>3. pend' \in Stored /\ \A j \in Ids : \/ pend'[j] = pend[j] \/ pend'[j] = NoEvent
                                           \/ (j = i /\ pend'[j] = s /\ FileMark(p))
    BY <1>3, <1>7, <2>1 DEF Stored
  <2> QED
    BY <2>2, <2>3
<1>10. Event(p) = <<i, s>>
  BY DEF Event
<1>11. FileWrite(p) \/ FileMark(p) => <<i, s>> \in late /\ 1 < s /\ s <= owner[i]
  <2>1. FileWrite(p) \/ FileMark(p) => ~Acknowledge(p)
    BY DEF FileWrite, FileMark, Acknowledge
  <2> QED
    BY <1>4, <1>10, <2>1 DEF IInv, LateCalls
<1>12. TypeOK'
  <2>1. acked' \in SUBSET (Ids \X Sessions)
    BY <1>3, <1>8, <1>10 DEF IInv, TypeOK
  <2> QED
    BY <1>1, <1>3, <1>5, <1>9, <2>1 DEF IInv, TypeOK
<1>13. WithinOwner' /\ LateWrites'
  <2> SUFFICES ASSUME NEW j \in Ids
               PROVE  /\ owner[j] <= session /\ rows[j] <= owner[j]
                      /\ file'[j] <= owner[j] /\ pend'[j] <= owner[j]
                      /\ file'[j] \in {NoEvent, 1} \/ <<j, file'[j]>> \in late
                      /\ pend'[j] \in {NoEvent, 1} \/ <<j, pend'[j]>> \in late
    BY <1>1 DEF WithinOwner, LateWrites
  <2> HIDE DEF i, s
  <2>1. /\ owner[j] <= session /\ rows[j] <= owner[j] /\ 0 <= owner[j]
        /\ file[j] <= owner[j] /\ pend[j] <= owner[j]
    BY Numbers
  <2>2. /\ file[j] \in {NoEvent, 1} \/ <<j, file[j]>> \in late
        /\ pend[j] \in {NoEvent, 1} \/ <<j, pend[j]>> \in late
    BY DEF IInv, LateWrites
  <2>3. file'[j] = file[j] \/ (<<j, file'[j]>> \in late /\ file'[j] <= owner[j])
    BY <1>9, <1>11
  <2>4. \/ pend'[j] = pend[j] \/ pend'[j] = NoEvent
        \/ (<<j, pend'[j]>> \in late /\ pend'[j] <= owner[j])
    BY <1>9, <1>11
  <2> QED
    BY <2>1, <2>2, <2>3, <2>4
<1>14. FreshIds'
  BY <1>1 DEF IInv, FreshIds
<1>15. pc # "idle" => InHand(p)'
  <2>1. Connected(p)' <=> Connected(p)
    BY <1>1, <1>3 DEF Connected
  <2>2. Event(p)' = Event(p)
    BY <1>3 DEF Event
  <2>3. CASE InsertClosed(p)
    <3>1. prod'[p].pc \in {"mark", "idle"} /\ ~Acknowledge(p)
      BY <1>3, <2>3 DEF InsertClosed, Acknowledge, Goto, IInv, TypeOK
    <3> QED
      BY <1>1, <1>3, <1>4, <2>1, <2>2, <3>1 DEF InHand
  <2>4. CASE FileMark(p)
    <3>1. prod'[p].pc = "write" /\ ~Acknowledge(p)
      BY <1>3, <2>4 DEF FileMark, Acknowledge, Goto, IInv, TypeOK
    <3> QED
      BY <1>1, <1>3, <1>4, <2>1, <2>2, <3>1 DEF InHand
  <2>5. CASE FileWrite(p)
    <3>1. /\ prod'[p].pc = "idle" \/ (prod'[p].pc = "unmark" /\ file' = [file EXCEPT ![i] = s])
          /\ ~Acknowledge(p)
      BY <1>3, <2>5 DEF FileWrite, Acknowledge, Goto, IInv, TypeOK
    <3>2. prod'[p].pc = "unmark" => file'[i] = s
      BY <1>3, <3>1 DEF IInv, TypeOK, Stored
    <3> QED
      BY <1>1, <1>3, <1>4, <2>1, <2>2, <3>1, <3>2 DEF InHand
  <2>6. CASE FileUnmark(p)
    <3>1. prod'[p].pc = "stored" /\ ~Acknowledge(p) /\ file' = file /\ prod[p].pc = "unmark"
      BY <1>3, <2>6 DEF FileUnmark, Acknowledge, Goto, IInv, TypeOK
    <3> QED
      BY <1>1, <1>3, <1>4, <2>1, <2>2, <3>1 DEF InHand
  <2>7. CASE Acknowledge(p)
    BY <1>3, <2>7 DEF Acknowledge, Goto, IInv, TypeOK
  <2> QED
    BY <2>3, <2>4, <2>5, <2>6, <2>7
<1>16. AckedStored'
  <2> SUFFICES ASSUME NEW e \in acked', e[2] # 1 PROVE e[2] \in {rows[e[1]], file'[e[1]]}
    BY <1>1 DEF AckedStored
  <2>1. CASE e \in acked
    <3>1. e[1] \in Ids /\ e[2] \in Sessions /\ e = <<e[1], e[2]>>
      BY <2>1 DEF IInv, TypeOK
    <3>2. e[2] \in {rows[e[1]], file[e[1]]}
      BY <2>1 DEF IInv, AckedStored
    <3>3. CASE file'[e[1]] = file[e[1]] \/ e[2] = rows[e[1]]
      BY <3>2, <3>3
    <3>4. CASE file'[e[1]] # file[e[1]] /\ e[2] = file[e[1]]
      <4> HIDE DEF i, s
      <4>1. e \in late
        <5>1. e[2] \notin {NoEvent, 1}
          BY <3>1, SqliteConstants DEF Sessions
        <5>2. <<e[1], file[e[1]]>> \in late
          BY <3>1, <3>4, <5>1 DEF IInv, LateWrites
        <5> QED
          BY <3>1, <3>4, <5>2
      <4>2. e[1] = i /\ file'[e[1]] = s /\ <<i, s>> \in late
        BY <1>9, <1>11, <3>1, <3>4
      <4> QED
        BY <3>1, <4>1, <4>2 DEF IInv, LateCalls, OneLateCall
    <3> QED
      BY <3>2, <3>3, <3>4
  <2>2. CASE e \notin acked
    <3>1. e = <<i, s>> /\ Acknowledge(p) /\ file' = file /\ prod[p].pc = "stored"
      BY <1>8, <1>10, <2>2 DEF Acknowledge, disk
    <3>2. s \in {rows[i], file[i]}
      BY <1>3, <3>1 DEF InHand
    <3> QED
      BY <3>1, <3>2
  <2> QED
    BY <2>1, <2>2
<1>17. \A j \in Ids : file'[j] # file[j] => <<j, file'[j]>> \in late
  BY <1>9, <1>11
<1> QED
  BY <1>1, <1>3, <1>12, <1>13, <1>14, <1>15, <1>16, <1>17, ProducerFrame

\* The stream is closed under the calls of its producers: they are late from here on.
LEMMA CloseInv ==
  ASSUME IInv, Close
  PROVE  IInv'
<1>1. /\ UNCHANGED <<rows, file, pend, owner, acked, session, faults, prod, todo, listed, due, curId>>
      /\ phase = "open" /\ phase' = "down" /\ OneLateCall(late')
      /\ late' = late \cup {Event(p) : p \in {q \in Producers : prod[q].pc # "idle"}}
  BY DEF Close, disk, history, opening
<1>2. \A p \in Producers : prod[p].pc # "idle" =>
        /\ InHand(p) /\ prod[p].id \in Ids /\ prod[p].by \in Sessions
  BY DEF IInv, ProducersInHand, TypeOK
<1>3. TypeOK'
  <2>1. late' \in SUBSET (Ids \X Sessions)
    BY <1>1, <1>2 DEF IInv, TypeOK, Event
  <2> QED
    BY <1>1, <2>1 DEF IInv, TypeOK
<1>4. LateCalls'
  <2> SUFFICES ASSUME NEW e \in late' PROVE 1 < e[2] /\ e[2] <= owner[e[1]]
    BY <1>1 DEF LateCalls, OneLateCall
  <2>1. CASE e \in late
    BY <2>1 DEF IInv, LateCalls
  <2>2. CASE e \notin late
    <3> PICK p \in Producers : prod[p].pc # "idle" /\ e = Event(p)
      BY <1>1, <2>2
    <3>1. Connected(p)
      BY <1>2, <2>2 DEF InHand
    <3>2. e = <<prod[p].id, session>> /\ owner[prod[p].id] = session
      BY <1>2, <3>1 DEF Connected, Event, InHand
    <3> QED
      BY <1>1, <3>2, Numbers DEF IInv, ImportTodo
  <2> QED
    BY <2>1, <2>2
<1>5. ProducersInHand'
  <2> SUFFICES ASSUME NEW p \in Producers, prod[p].pc # "idle" PROVE InHand(p)'
    BY <1>1 DEF ProducersInHand
  <2>1. ~Connected(p)' /\ Event(p)' = Event(p) /\ Event(p) \in late'
    BY <1>1 DEF Connected, Event
  <2> QED
    BY <1>1, <1>2, <2>1 DEF InHand
<1>6. (WithinOwner /\ LateWrites /\ FreshIds /\ ImportTodo /\ AckedStored)'
  BY <1>1 DEF IInv, WithinOwner, LateWrites, FreshIds, ImportTodo, AckedStored
<1> QED
  BY <1>3, <1>4, <1>5, <1>6 DEF IInv

LEMMA CrashInv ==
  ASSUME IInv, Crash
  PROVE  IInv'
<1>1. /\ UNCHANGED <<rows, file, pend, owner, acked, late, session, faults, listed, curId>>
      /\ phase' = "down" /\ todo' = {} /\ due' = {}
      /\ prod' = [p \in Producers |-> Idle]
  BY DEF Crash, disk, history
<1>2. TypeOK'
  <2>1. 1 \in Ids /\ 1 \in Sessions
    BY SqliteConstants DEF Ids, Sessions
  <2>2. prod' \in [Producers -> [pc : ProducerPc, id : Ids, by : Sessions]]
    BY <1>1, <2>1 DEF Idle, ProducerPc
  <2> QED
    BY <1>1, <2>2 DEF IInv, TypeOK
<1>3. ProducersInHand'
  BY <1>1 DEF ProducersInHand, Idle
<1>4. (WithinOwner /\ LateWrites /\ LateCalls /\ FreshIds /\ ImportTodo /\ AckedStored)'
  BY <1>1 DEF IInv, WithinOwner, LateWrites, LateCalls, FreshIds, ImportTodo, AckedStored
<1> QED
  BY <1>2, <1>3, <1>4 DEF IInv

\* Every step of an opening, a producer, close() or a crash preserves it.
LEMMA StepInv == IInv /\ [Next]_vars => IInv'
<1> SUFFICES ASSUME IInv, [Next]_vars PROVE IInv'
  OBVIOUS
<1>1. CASE OpenBegin \/ MigrateEnd \/ OpenFails
  BY <1>1, OpeningInv
<1>2. CASE OpenEnd
  BY <1>2, OpenEndInv
<1>3. ASSUME NEW i \in Ids, MigrateRow(i) \/ ReplayRecover(i) \/ ReplayClean(i) PROVE IInv'
  BY <1>3, ImportInv, ReplayCleanInv
<1>4. ASSUME NEW p \in Producers, ProducerStep(p) PROVE IInv'
  BY <1>4, AddEventInv, InsertInv, FileStepsInv DEF ProducerStep
<1>5. CASE Close \/ Crash
  BY <1>5, CloseInv, CrashInv
<1>6. CASE UNCHANGED vars
  BY <1>6 DEF vars, IInv, TypeOK, WithinOwner, LateWrites, LateCalls, FreshIds,
     ProducersInHand, InHand, Connected, Event, ImportTodo, AckedStored
<1> QED
  BY <1>1, <1>2, <1>3, <1>4, <1>5, <1>6 DEF Next

\* The inductive invariant of the SQLite ledger, for every instance.
THEOREM SqliteInvariant == Spec => []IInv
  BY InitInv, StepInv, PTL DEF Spec
-----------------------------------------------------------------------------
(* SqliteLedger implements EventLog: the table is the log, and the rows, files *)
(* and markers together are the copies.                                       *)

\* Event <<j, s>> has a copy.
Kept(j, s) == rows[j] = s \/ file[j] = s \/ pend[j] = s

LEMMA SessionsAreNumbers == \A s \in Sessions : s \in Nat /\ s >= 1 /\ s # NoEvent
  BY SqliteConstants DEF Sessions

LEMMA InCopies ==
  ASSUME NEW j \in Ids, NEW s \in Sessions
  PROVE  /\ <<j, s>> \in Copies <=> Kept(j, s)
         /\ <<j, s>> \in Copies' <=> Kept(j, s)'
  BY DEF Copies, Kept

LEMMA Quiet ==
  ASSUME UNCHANGED <<rows, file, pend, owner, acked>>
  PROVE  UNCHANGED Log!vars
  BY DEF Log!vars, Copies

\* A row is inserted where there was none, from a copy or by the owner of the id.
LEMMA PublishStep ==
  ASSUME IInv, NEW i \in Ids, NEW s \in Sessions, rows[i] = NoEvent,
         rows' = [rows EXCEPT ![i] = s], s = owner[i] \/ Kept(i, s),
         UNCHANGED <<file, pend, owner, acked>>
  PROVE  Log!Next
<1>1. rows' \in Stored /\ rows'[i] = s /\ \A j \in Ids : j # i => rows'[j] = rows[j]
  BY DEF IInv, TypeOK, Stored
<1>2. \A j \in Ids, t \in Sessions : Kept(j, t)' <=> Kept(j, t) \/ <<j, t>> = <<i, s>>
  BY <1>1, SessionsAreNumbers DEF Kept
<1>3. Copies' = Copies \cup {<<i, s>>}
  <2>1. \A j \in Ids, t \in Sessions :
          <<j, t>> \in Copies' <=> <<j, t>> \in Copies \/ <<j, t>> = <<i, s>>
    BY <1>2, InCopies
  <2> QED
    BY <2>1 DEF Copies
<1>4. s = owner[i] \/ <<i, s>> \in Copies
  BY InCopies
<1>5. Log!Publish(i, s)
  BY <1>3, <1>4 DEF Log!Publish
<1> QED
  BY <1>5 DEF Log!Next

\* What may go: a copy that is not a row, of an event that nobody counts on.
LEMMA Gone ==
  ASSUME IInv, NEW j \in Ids, NEW s \in Sessions, Kept(j, s), rows[j] # s,
         <<j, s>> \notin acked \/ owner[j] # s
  PROVE  <<j, s>> \in Log!Expendable
  BY InCopies DEF Log!Expendable, Log!Current

\* A marker goes: what it held is a row, or is expendable.
LEMMA DropMarker ==
  ASSUME IInv, NEW i \in Ids, DeleteMarker(i),
         UNCHANGED <<rows, file, owner, acked>>,
         pend[i] \in {rows[i], file[i]} \/ <<i, pend[i]>> \notin acked \/ owner[i] # pend[i]
  PROVE  Log!Next \/ UNCHANGED Log!vars
<1>1. /\ pend'[i] \in {NoEvent, pend[i]}
      /\ \A j \in Ids : j # i => pend'[j] = pend[j]
  BY DeleteMarkerEffect
<1>2. \A j \in Ids, t \in Sessions : Kept(j, t)' => Kept(j, t)
  BY <1>1, SessionsAreNumbers DEF Kept
<1>3. \A j \in Ids, t \in Sessions : Kept(j, t) /\ ~Kept(j, t)' =>
        j = i /\ t = pend[i] /\ t \notin {rows[i], file[i]}
  BY <1>1 DEF Kept
<1>4. Copies \ Copies' \in SUBSET Log!Expendable
  <2> SUFFICES ASSUME NEW e \in Copies, e \notin Copies' PROVE e \in Log!Expendable
    OBVIOUS
  <2> PICK j \in Ids, t \in Sessions : e = <<j, t>>
    BY DEF Copies
  <2>1. Kept(j, t) /\ ~Kept(j, t)'
    BY InCopies
  <2>2. j = i /\ t = pend[i] /\ t \notin {rows[i], file[i]}
    BY <1>3, <2>1
  <2> QED
    BY <2>1, <2>2, Gone
<1>5. Copies' = Copies \ (Copies \ Copies')
  <2>1. \A j \in Ids, t \in Sessions : <<j, t>> \in Copies' => <<j, t>> \in Copies
    BY <1>2, InCopies
  <2> QED
    BY <2>1 DEF Copies
<1>6. Log!Discard
  BY <1>4, <1>5 DEF Log!Discard
<1> QED
  BY <1>6 DEF Log!Next

\* The late call writes its event over what the file or the marker held.
LEMMA OverwriteStep ==
  ASSUME IInv, NEW i \in Ids, NEW s \in Sessions, <<i, s>> \in late,
         Kept(i, s)', UNCHANGED <<rows, owner, acked>>,
         \A j \in Ids : j # i => file'[j] = file[j] /\ pend'[j] = pend[j],
         file'[i] \in {s, file[i]}, pend'[i] \in {s, pend[i]}
  PROVE  Log!Next
<1>1. 1 < s /\ s <= owner[i] /\ owner[i] # 1
  BY Numbers, SessionsAreNumbers DEF IInv, LateCalls
<1>2. \A j \in Ids, t \in Sessions : Kept(j, t)' => Kept(j, t) \/ <<j, t>> = <<i, s>>
  BY DEF Kept
<1>3. \A j \in Ids, t \in Sessions : Kept(j, t) /\ ~Kept(j, t)' =>
        j = i /\ t # s /\ t \in {file[i], pend[i]} /\ rows[i] # t
  BY DEF Kept
<1>4. \A t \in Sessions : t # s /\ t \in {file[i], pend[i]} => t = 1
  <2> SUFFICES ASSUME NEW t \in Sessions, t # s, t \in {file[i], pend[i]} PROVE t = 1
    OBVIOUS
  <2>1. t # NoEvent
    BY SessionsAreNumbers
  <2>2. t = 1 \/ <<i, t>> \in late
    BY <2>1 DEF IInv, LateWrites
  <2> QED
    BY <2>2 DEF IInv, LateCalls, OneLateCall
<1>5. Copies \ Copies' \in SUBSET Log!Expendable
  <2> SUFFICES ASSUME NEW e \in Copies, e \notin Copies' PROVE e \in Log!Expendable
    OBVIOUS
  <2> PICK j \in Ids, t \in Sessions : e = <<j, t>>
    BY DEF Copies
  <2>1. Kept(j, t) /\ ~Kept(j, t)'
    BY InCopies
  <2>2. j = i /\ t = 1 /\ rows[i] # t
    BY <1>3, <1>4, <2>1
  <2> QED
    BY <1>1, <2>1, <2>2, Gone
<1>6. Copies' = (Copies \ (Copies \ Copies')) \cup {<<i, s>>}
  <2>1. \A j \in Ids, t \in Sessions :
          <<j, t>> \in Copies' => <<j, t>> \in Copies \/ <<j, t>> = <<i, s>>
    BY <1>2, InCopies
  <2>2. <<i, s>> \in Copies'
    BY InCopies
  <2> QED
    BY <2>1, <2>2 DEF Copies
<1>7. owner[i] # NoEvent
  BY <1>1, Numbers, SessionsAreNumbers DEF IInv, TypeOK, Stored
<1>8. Log!Store(i, s)
  BY <1>5, <1>6, <1>7 DEF Log!Store
<1> QED
  BY <1>8 DEF Log!Next

LEMMA MarkOver ==
  ASSUME IInv, NEW i \in Ids, NEW s \in Sessions, <<i, s>> \in late,
         UNCHANGED <<rows, file, owner, acked>>, pend' = [pend EXCEPT ![i] = s]
  PROVE  Log!Next
<1>1. pend'[i] = s /\ \A j \in Ids : j # i => pend'[j] = pend[j]
  BY DEF IInv, TypeOK, Stored
<1>2. Kept(i, s)'
  BY <1>1 DEF Kept
<1> QED
  BY <1>1, <1>2, OverwriteStep

LEMMA FileOver ==
  ASSUME IInv, NEW i \in Ids, NEW s \in Sessions, <<i, s>> \in late,
         UNCHANGED <<rows, pend, owner, acked>>, file' = [file EXCEPT ![i] = s]
  PROVE  Log!Next
<1>1. file'[i] = s /\ \A j \in Ids : j # i => file'[j] = file[j]
  BY DEF IInv, TypeOK, Stored
<1>2. Kept(i, s)'
  BY <1>1 DEF Kept
<1> QED
  BY <1>1, <1>2, OverwriteStep

-----------------------------------------------------------------------------

LEMMA ImportRefines ==
  ASSUME IInv, NEW i \in Ids, MigrateRow(i) \/ ReplayRecover(i) \/ ReplayClean(i)
  PROVE  Log!Next \/ UNCHANGED Log!vars
<1>1. CASE MigrateRow(i)
  <2>1. UNCHANGED <<file, pend, owner, acked>>
    BY <1>1 DEF MigrateRow, history
  <2>2. CASE rows' = rows
    BY <2>1, <2>2, Quiet
  <2>3. CASE rows[i] = NoEvent /\ rows' = [rows EXCEPT ![i] = file[i]]
    <3>1. file[i] # NoEvent
      BY <1>1 DEF MigrateRow, IInv, ImportTodo
    <3>2. file[i] \in Sessions
      BY <3>1 DEF IInv, TypeOK, Stored
    <3> QED
      BY <2>1, <2>3, <3>2, PublishStep DEF Kept
  <2> QED
    BY <1>1, <2>2, <2>3 DEF MigrateRow
<1>2. CASE ReplayRecover(i)
  <2>1. /\ UNCHANGED <<file, pend, owner, acked>>
        /\ rows[i] = NoEvent /\ pend[i] # NoEvent /\ rows' = [rows EXCEPT ![i] = pend[i]]
    BY <1>2 DEF ReplayRecover, history
  <2>2. pend[i] \in Sessions
    BY <2>1 DEF IInv, TypeOK, Stored
  <2> QED
    BY <2>1, <2>2, PublishStep DEF Kept
<1>3. CASE ReplayClean(i)
  <2>1. UNCHANGED <<rows, file, owner, acked>> /\ DeleteMarker(i) /\ rows[i] # NoEvent
    BY <1>3 DEF ReplayClean, history
  <2>2. pend[i] \in {rows[i], file[i]} \/ <<i, pend[i]>> \notin acked \/ owner[i] # pend[i]
    <3>1. CASE pend[i] = 1
      BY <2>1, <3>1, Numbers
    <3>2. CASE pend[i] # 1
      BY <3>2 DEF IInv, AckedStored
    <3> QED
      BY <3>1, <3>2
  <2> QED
    BY <2>1, <2>2, DropMarker
<1> QED
  BY <1>1, <1>2, <1>3
LEMMA ProducerRefines ==
  ASSUME IInv, NEW p \in Producers, ProducerStep(p)
  PROVE  Log!Next \/ UNCHANGED Log!vars
<1> DEFINE i == prod[p].id
           s == prod[p].by
<1>0. i \in Ids /\ s \in Sessions /\ Event(p) = <<i, s>>
  BY DEF IInv, TypeOK, Event
<1>1. prod[p].pc # "idle" => InHand(p)
  BY DEF IInv, ProducersInHand
<1>2. CASE AddEvent(p)
  <2>1. /\ UNCHANGED <<rows, file, pend, acked>> /\ curId \in Ids
        /\ owner' = [owner EXCEPT ![curId] = session] /\ phase = "open"
    BY <1>2 DEF AddEvent, disk
  <2>2. session \in Sessions /\ owner[curId] # session
        /\ \A j \in Ids : j >= curId => rows[j] = NoEvent
    BY <2>1 DEF IInv, TypeOK, FreshIds, Ids
  <2>3. Copies' = Copies
    BY <2>1 DEF Copies
  <2>4. Log!Take(curId, session)
    BY <2>1, <2>2, <2>3 DEF Log!Take
  <2> QED
    BY <2>1, <2>2, <2>4 DEF Log!Next
<1>3. CASE Insert(p)
  <2>1. /\ UNCHANGED <<file, pend, owner, acked>> /\ prod[p].pc = "insert" /\ Connected(p)
        /\ rows' = rows \/ (rows[i] = NoEvent /\ rows' = [rows EXCEPT ![i] = session])
    BY <1>3 DEF Insert, history
  <2>2. s = session /\ owner[i] = session
    BY <1>1, <2>1 DEF InHand, Connected
  <2>3. CASE rows' = rows
    BY <2>1, <2>3, Quiet
  <2>4. CASE rows[i] = NoEvent /\ rows' = [rows EXCEPT ![i] = session]
    <3> HIDE DEF i, s
    <3> QED
      BY <1>0, <2>1, <2>2, <2>4, PublishStep
  <2> QED
    BY <2>1, <2>3, <2>4
<1>4. CASE InsertClosed(p)
  BY <1>4, Quiet DEF InsertClosed, disk, history
<1>5. CASE Acknowledge(p)
  <2>1. UNCHANGED <<rows, file, pend, owner>> /\ acked' = acked \cup {<<i, s>>}
    BY <1>0, <1>5 DEF Acknowledge, disk
  <2>2. <<i, s>> \in Copies /\ Copies' = Copies
    <3>1. Kept(i, s)
      BY <1>1, <1>5 DEF Acknowledge, InHand, Kept
    <3> QED
      BY <1>0, <2>1, <3>1, InCopies DEF Copies
  <2> HIDE DEF i, s
  <2>3. Log!Acknowledge(i, s)
    BY <2>1, <2>2 DEF Log!Acknowledge
  <2> QED
    BY <1>0, <2>3 DEF Log!Next
<1>6. ASSUME prod[p].pc \in {"mark", "write", "unmark"}
      PROVE  <<i, s>> \in late /\ owner[i] # 1
  <2>1. <<i, s>> \in late
    BY <1>0, <1>1, <1>6 DEF InHand
  <2>2. 1 < s /\ s <= owner[i]
    BY <2>1 DEF IInv, LateCalls
  <2> QED
    BY <1>0, <2>1, <2>2, Numbers, SessionsAreNumbers
<1>7. CASE FileMark(p)
  <2>1. UNCHANGED <<rows, file, owner, acked>> /\ <<i, s>> \in late
        /\ (pend' = pend \/ pend' = [pend EXCEPT ![i] = s])
    BY <1>6, <1>7 DEF FileMark, history
  <2>2. CASE pend' = pend
    BY <2>1, <2>2, Quiet
  <2>3. CASE pend' = [pend EXCEPT ![i] = s]
    <3> HIDE DEF i, s
    <3> QED
      BY <1>0, <2>1, <2>3, MarkOver
  <2> QED
    BY <2>1, <2>2, <2>3
<1>8. CASE FileWrite(p)
  <2>1. UNCHANGED <<rows, pend, owner, acked>> /\ <<i, s>> \in late
        /\ (file' = file \/ file' = [file EXCEPT ![i] = s])
    BY <1>6, <1>8 DEF FileWrite, history
  <2>2. CASE file' = file
    BY <2>1, <2>2, Quiet
  <2>3. CASE file' = [file EXCEPT ![i] = s]
    <3> HIDE DEF i, s
    <3> QED
      BY <1>0, <2>1, <2>3, FileOver
  <2> QED
    BY <2>1, <2>2, <2>3
<1>9. CASE FileUnmark(p)
  <2>1. /\ UNCHANGED <<rows, file, owner, acked>> /\ DeleteMarker(i)
        /\ prod[p].pc = "unmark"
    BY <1>9 DEF FileUnmark, history
  <2>2. <<i, s>> \in late /\ owner[i] # 1 /\ file[i] = s
    BY <1>1, <1>6, <2>1 DEF InHand
  <2>3. pend[i] \in {NoEvent, 1, s}
    <3>1. pend[i] \in {NoEvent, 1} \/ <<i, pend[i]>> \in late
      BY <1>0 DEF IInv, LateWrites
    <3> QED
      BY <2>2, <3>1 DEF IInv, LateCalls, OneLateCall
  <2>4. pend[i] = NoEvent => <<i, pend[i]>> \notin acked
    BY SessionsAreNumbers DEF IInv, TypeOK
  <2> HIDE DEF i, s
  <2> QED
    BY <1>0, <2>1, <2>2, <2>3, <2>4, DropMarker
<1> QED
  BY <1>2, <1>3, <1>4, <1>5, <1>7, <1>8, <1>9 DEF ProducerStep
LEMMA InitRefines ==
  ASSUME Init
  PROVE  Log!Init
<1>1. IInv
  BY InitInv
<1>2. rows \in [Ids -> {NoEvent} \cup Sessions] /\ owner \in [Ids -> {NoEvent} \cup Sessions]
  BY <1>1 DEF IInv, TypeOK, Stored
<1>3. \A i \in Ids : rows[i] # NoEvent => <<i, rows[i]>> \in Copies
  BY DEF Init
<1>4. acked \subseteq Copies
  <2> PICK n \in 0 .. MaxId : \E f, m \in SUBSET (1 .. n) :
        /\ file = [i \in Ids |-> IF i \in f THEN 1 ELSE NoEvent]
        /\ pend = [i \in Ids |-> IF i \in m THEN 1 ELSE NoEvent]
        /\ acked = (f \cup m) \X {1}
    BY DEF Init
  <2> PICK f \in SUBSET (1 .. n), m \in SUBSET (1 .. n) :
        /\ file = [i \in Ids |-> IF i \in f THEN 1 ELSE NoEvent]
        /\ pend = [i \in Ids |-> IF i \in m THEN 1 ELSE NoEvent]
        /\ acked = (f \cup m) \X {1}
    OBVIOUS
  <2>1. 1 \in Sessions
    BY SqliteConstants DEF Sessions
  <2>2. f \in SUBSET Ids /\ m \in SUBSET Ids
    BY SqliteConstants DEF Ids
  <2>3. \A i \in f : file[i] = 1
    BY <2>2
  <2>4. \A i \in m : pend[i] = 1
    BY <2>2
  <2> QED
    BY <2>1, <2>2, <2>3, <2>4 DEF Copies
<1> QED
  BY <1>2, <1>3, <1>4 DEF Log!Init, Copies

LEMMA StepRefines == IInv /\ [Next]_vars => [Log!Next]_(Log!vars)
<1> SUFFICES ASSUME IInv, [Next]_vars PROVE Log!Next \/ UNCHANGED Log!vars
  OBVIOUS
<1>1. CASE OpenBegin \/ MigrateEnd \/ OpenFails \/ OpenEnd \/ Close \/ Crash
  BY <1>1, Quiet DEF OpenBegin, MigrateEnd, OpenFails, OpenEnd, Close, Crash, disk, history
<1>2. ASSUME NEW i \in Ids, MigrateRow(i) \/ ReplayRecover(i) \/ ReplayClean(i)
      PROVE  Log!Next \/ UNCHANGED Log!vars
  BY <1>2, ImportRefines
<1>3. ASSUME NEW p \in Producers, ProducerStep(p) PROVE Log!Next \/ UNCHANGED Log!vars
  BY <1>3, ProducerRefines
<1>4. CASE UNCHANGED vars
  BY <1>4, Quiet DEF vars
<1> QED
  BY <1>1, <1>2, <1>3, <1>4 DEF Next

\* The database, with all that opening, migration, replay, failures, crashes and a
\* call that outlives its stream do to it, implements EventLog.
THEOREM SqliteImplementsEventLog == Spec => ImplementsEventLog
<1>1. Init => Log!Init
  BY InitRefines
<1>2. IInv /\ [Next]_vars => [Log!Next]_(Log!vars)
  BY StepRefines
<1> QED
  BY <1>1, <1>2, SqliteInvariant, PTL DEF Spec, ImplementsEventLog, Log!Spec
=============================================================================
