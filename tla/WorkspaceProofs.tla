-------------------------- MODULE WorkspaceProofs --------------------------
(***************************************************************************)
(* Proofs about Workspace, for any number of files, edits, checkpoints and *)
(* troubles: its types, that edits of a transaction that was rolled back   *)
(* stay out of the files, and that the checkpoint reported for an edit     *)
(* exists and undoes it while the edit is on its way.                      *)
(***************************************************************************)
EXTENDS Workspace, FiniteSetTheorems, SequenceTheorems, TLAPS

-----------------------------------------------------------------------------
(* The inductive invariant *)

\* What the queue, the middleware and the checkpoint threads hold: a call is once in the
\* queue, and a thread works for a call that has left it.
Distinct(q) == \A i, j \in DOMAIN q : q[i] = q[j] => i = j
Queue == /\ queue \in Seq(Calls) /\ Distinct(queue)
         /\ DOMAIN saving \cap Values(queue) = {}

\* A call is answered once, when the runtime is done with it.
Answered == /\ \A o \in inbox : o[1] \notin runtime
            /\ \A o, p \in inbox : o[1] = p[1] => o = p

\* While calls are queued, no two are on their way.
OneByOne == Values(queue) # {} => \A c, d \in hooked \cup ready \cup flight : c = d

\* Calls that were not published yet.
Coming == left \cup Values(queue) \cup hooked \cup ready

In(e, S) == \E f \in DOMAIN S : e \in S[f]

\* Contents of files that hold no edit of E, and every edit in the file it is made to.
Proper(S, E) == /\ \A e \in Edits \cap E : ~In(e, S)
                /\ \A f \in DOMAIN S : \A e \in S[f] : Target[e] = f

\* A list of checkpoints with ids below n: ids are given once, snapshots are proper.
RowBefore(r, n) ==
    /\ r.id \in Nat \ {0} /\ r.id < n
    /\ r.kind \in {"before_risky", "manual", "phase_boundary"}
    /\ IF r.kind = "phase_boundary" THEN r.snap = NoSnap ELSE r.snap \in Contents
Good(list, n, E) == /\ IsFiniteSet(list)
                    /\ \A r \in list : RowBefore(r, n) /\ Proper(r.snap, E)
                    /\ \A r, q \in list : r.id = q.id => r = q

Phases(list) == list \ Lossy(list)
Fits(list)   == Cardinality(Lossy(list)) <= Room(list)

\* The lists in memory, on disk, and in the threads.
Lists ==
    /\ nextId \in Nat \ {0}
    /\ Good(mem, nextId, Coming) /\ Good(manifest, nextId, Coming)
    /\ IsFiniteSet(DOMAIN saving)
    /\ \A d \in DOMAIN saving :
         /\ Good(saving[d], nextId, Coming)
         /\ Fits(saving[d]) /\ Phases(saving[d]) = Phases(mem)

TxRecords == [members : SUBSET Edits, done : SUBSET Edits, missed : SUBSET Files,
              snaps : UNION {[D -> SUBSET Edits] : D \in SUBSET Files}]

\* A member whose own file was snapshotted without it, or could not be read.
Covered(t, m) == \/ Target[m] \in t.missed
                 \/ Target[m] \in DOMAIN t.snaps /\ m \notin t.snaps[Target[m]]

\* The transaction: every edit on its way joined it, and its snapshots hold no member in
\* the member's own file.
Transaction ==
    /\ tx \in TxRecords
    /\ tx.done \subseteq tx.members
    /\ tx.members \cap left = {} /\ tx.done \cap Values(queue) = {}
    /\ tx # NoTx => flight \cap Edits \subseteq tx.members
    /\ \A m \in tx.members : Covered(tx, m)
    /\ Proper(tx.snaps, Coming)

\* What was rolled back does not come again, and is in no file and no snapshot that
\* the coordinator would write back.
Banned == undone \ excused
Gone == /\ Proper(fs, Coming)
        /\ \A e \in Banned : /\ e \notin Coming \cup runtime
                             /\ ~In(e, fs) /\ ~In(e, tx.snaps)

IInv == TypeOK /\ Queue /\ Answered /\ OneByOne /\ Lists /\ Transaction /\ Gone

\* Edits that have a checkpoint ahead of them.
Ahead == (hooked \cap Edits) \ DOMAIN saving
Newer(list, id) == {q \in Lossy(list) : q.id > id}

\* A list that can undo e by its row id, and still can when the edits in E have their rows.
Undoes(list, e, id, E) ==
    /\ \E r \in Lossy(list) : r.id = id /\ ~In(e, r.snap)
    /\ Cardinality(Newer(list, id)) + Cardinality(E) < Cardinality(Files)

\* There is room for a batch beside the rows of the phases.
Wide(list) == Cardinality(Phases(list)) + Cardinality(Files) <= MaxCheckpoints

\* The checkpoints of the edits under way.
Anchors ==
    /\ \A d, e \in hooked \cap Edits : Target[d] = Target[e] => d = e
    /\ \A e \in Edits : e \in left \cup Values(queue) \cup Ahead => got[e] = 0
    /\ Wide(mem) => \A e \in (hooked \cup ready \cup flight) \cap Edits : got[e] # 0 =>
         /\ e \in DOMAIN saving => DOMAIN saving = {e}
         /\ Undoes(mem, e, got[e], Ahead)
         /\ \A d \in DOMAIN saving : Undoes(saving[d], e, got[e], Ahead)

-----------------------------------------------------------------------------
(* Queues *)

\* A queue and the set of its calls.
LEMMA QueueCalls ==
  ASSUME NEW q \in Seq(Calls)
  PROVE  /\ Len(q) \in Nat /\ DOMAIN q = 1 .. Len(q)
         /\ Values(q) \subseteq Calls
         /\ Values(q) = {q[i] : i \in DOMAIN q}
<1>1. Len(q) \in Nat /\ DOMAIN q = 1 .. Len(q)
  BY LenProperties
<1>2. \A i \in DOMAIN q : q[i] \in Calls
  BY <1>1, ElementOfSeq
<1> QED
  BY <1>1, <1>2 DEF Values

LEMMA NoCalls == <<>> \in Seq(Calls) /\ Distinct(<<>>) /\ Values(<<>>) = {}
<1>1. <<>> \in Seq(Calls) /\ DOMAIN <<>> = {}
  BY EmptySeq
<1>2. Values(<<>>) = {}
  BY <1>1, QueueCalls
<1> QED
  BY <1>1, <1>2 DEF Distinct

LEMMA HeadOfQueue ==
  ASSUME NEW q \in Seq(Calls), Distinct(q), q # <<>>
  PROVE  /\ Head(q) \in Values(q) /\ Tail(q) \in Seq(Calls) /\ Distinct(Tail(q))
         /\ Values(Tail(q)) = Values(q) \ {Head(q)}
<1>1. /\ Len(q) \in Nat \ {0} /\ DOMAIN q = 1 .. Len(q) /\ Head(q) = q[1]
      /\ Tail(q) \in Seq(Calls) /\ Len(Tail(q)) = Len(q) - 1
      /\ \A i \in 1 .. Len(Tail(q)) : Tail(q)[i] = q[i + 1]
  BY HeadTailProperties, EmptySeq, LenProperties
<1>2. DOMAIN Tail(q) = 1 .. Len(q) - 1
  BY <1>1, LenProperties
<1>3. \A i \in DOMAIN Tail(q) : i + 1 \in DOMAIN q /\ i + 1 # 1 /\ Tail(q)[i] = q[i + 1]
  BY <1>1, <1>2
<1>4. \A i \in DOMAIN q : i = 1 \/ (i - 1 \in DOMAIN Tail(q) /\ Tail(q)[i - 1] = q[i])
  <2> SUFFICES ASSUME NEW i \in DOMAIN q, i # 1
               PROVE  i - 1 \in DOMAIN Tail(q) /\ Tail(q)[i - 1] = q[i]
    OBVIOUS
  <2>1. i - 1 \in DOMAIN Tail(q) /\ (i - 1) + 1 = i
    BY <1>1, <1>2
  <2>2. Tail(q)[i - 1] = q[(i - 1) + 1]
    BY <1>3, <2>1
  <2> QED
    BY <2>1, <2>2
<1>5. 1 \in DOMAIN q
  BY <1>1
<1>6. Values(q) = {q[i] : i \in DOMAIN q} /\ Values(Tail(q)) = {Tail(q)[i] : i \in DOMAIN Tail(q)}
  BY <1>1, QueueCalls
<1>7. Head(q) \in Values(q) /\ Head(q) \notin Values(Tail(q))
  BY <1>1, <1>3, <1>5, <1>6 DEF Distinct
<1>8. Distinct(Tail(q))
  <2> SUFFICES ASSUME NEW i \in DOMAIN Tail(q), NEW j \in DOMAIN Tail(q),
                      Tail(q)[i] = Tail(q)[j]
               PROVE  i = j
    BY DEF Distinct
  <2>1. i + 1 = j + 1
    BY <1>3 DEF Distinct
  <2> QED
    BY <1>1, <1>2, <2>1
<1>9. ASSUME NEW c \in Values(q), c # Head(q)
      PROVE  c \in Values(Tail(q))
  <2>1. PICK i \in DOMAIN q : c = q[i]
    BY <1>6
  <2> QED
    BY <1>1, <1>4, <1>6, <1>9, <2>1
<1>10. ASSUME NEW c \in Values(Tail(q))
       PROVE  c \in Values(q)
  BY <1>3, <1>6
<1> QED
  BY <1>1, <1>7, <1>8, <1>9, <1>10

LEMMA CallsAreFinite == IsFiniteSet(Calls)
<1>1. IsFiniteSet({Save}) /\ IsFiniteSet({Revert})
  BY FS_Singleton
<1>2. IsFiniteSet({Save} \cup {Revert})
  BY <1>1, FS_Union
<1>3. Calls = Edits \cup ({Save} \cup {Revert})
  BY DEF Calls
<1> QED
  BY <1>2, <1>3, WorkspaceConstants, FS_Union

\* An ordering of S is a queue of its calls, each once.
LEMMA OrderedQueue ==
  ASSUME NEW S \in SUBSET Calls, NEW q \in Orders(S)
  PROVE  q \in Seq(Calls) /\ Values(q) = S /\ Distinct(q)
<1>1. IsFiniteSet(S)
  BY CallsAreFinite, FS_Subset
<1>2. Cardinality(S) \in Nat
  BY <1>1, FS_CardinalityType
<1>3. q \in [1 .. Cardinality(S) -> S] /\ Values(q) = S /\ DOMAIN q = 1 .. Cardinality(S)
  BY DEF Orders
<1>4. q \in [1 .. Cardinality(S) -> Calls]
  BY <1>3
<1>5. q \in Seq(Calls)
  BY <1>2, <1>4, SeqDef
<1>6. Values(q) = {q[i] : i \in DOMAIN q}
  BY <1>5, QueueCalls
<1>7. q \in Surjection(1 .. Cardinality(S), S)
  BY <1>3, <1>6 DEF Surjection
<1>8. IsFiniteSet(1 .. Cardinality(S)) /\ Cardinality(1 .. Cardinality(S)) = Cardinality(S)
  BY <1>2, FS_Interval
<1>9. q \in Injection(1 .. Cardinality(S), S)
  BY <1>1, <1>7, <1>8, FS_SurjSameCardinalityImpliesInj
<1> QED
  BY <1>3, <1>5, <1>9 DEF Injection, IsInjective, Distinct

\* _drop_remaining_queued_edits
LEMMA QueueWithout ==
  ASSUME NEW q \in Seq(Calls), NEW gone, NEW s \in Without(q, gone)
  PROVE  s \in Seq(Calls) /\ Values(s) = Values(q) \ gone /\ Distinct(s)
<1>1. Values(q) \ gone \in SUBSET Calls
  BY QueueCalls
<1>2. s \in Orders(Values(q) \ gone)
  BY DEF Without
<1> QED
  BY <1>1, <1>2, OrderedQueue

-----------------------------------------------------------------------------
(* Lists of checkpoints *)

\* A finite set of rows has one with the lowest id.
LEMMA Lowest ==
  ASSUME NEW D, IsFiniteSet(D), D # {}, \A r \in D : r.id \in Int
  PROVE  \E r \in D : \A q \in D : r.id <= q.id
<1> DEFINE Below(r) == {q \in D : q.id < r.id}
           T == {Below(r) : r \in D}
<1>1. T \subseteq FiniteSubsetsOf(D) /\ T # {}
  <2>1. SUBSET D = FiniteSubsetsOf(D)
    BY FS_FiniteSubsetsOfFinite
  <2>2. T \subseteq SUBSET D /\ T # {}
    OBVIOUS
  <2> QED
    BY <2>1, <2>2
<1>2. PICK x \in T : \A y \in T : <<y, x>> \notin StrictSubsetOrdering(D)
  <2>1. IsWellFoundedOn(StrictSubsetOrdering(D), FiniteSubsetsOf(D))
    BY FS_StrictSubsetOrderingWellFounded
  <2> HIDE DEF T
  <2> QED
    BY <1>1, <2>1, WFMin
<1>3. PICK r \in D : x = Below(r)
  BY <1>2
<1>4. ASSUME NEW q \in D, ~(r.id <= q.id)
      PROVE  FALSE
  <2>1. q.id \in Int /\ r.id \in Int /\ q.id < r.id
    BY <1>4
  <2>2. /\ q \in Below(r) /\ q \notin Below(q)
        /\ \A p \in Below(q) : p \in D /\ p \in Below(r)
    BY <2>1
  <2>3. <<Below(q), Below(r)>> \in StrictSubsetOrdering(D)
    <3>1. Below(q) \in SUBSET D /\ Below(r) \in SUBSET D
      OBVIOUS
    <3> HIDE DEF Below
    <3> QED
      BY <2>2, <3>1 DEF StrictSubsetOrdering
  <2>4. Below(q) \in T
    BY <1>4
  <2> HIDE DEF Below, T
  <2> QED
    BY <1>2, <1>3, <2>3, <2>4
<1> QED
  BY <1>3, <1>4

LEMMA RoomIsNatural ==
  ASSUME NEW list, IsFiniteSet(list)
  PROVE  Room(list) \in Nat
<1>1. Cardinality(list \ Lossy(list)) \in Nat
  BY FS_Difference, FS_CardinalityType
<1> QED
  BY <1>1, WorkspaceConstants DEF Room

\* Lists with the same rows of phases have the same room.
LEMMA SameRoom ==
  ASSUME NEW a, NEW b, Phases(a) = Phases(b)
  PROVE  Room(a) = Room(b)
BY DEF Room, Phases

\* _cleanup_old_checkpoints: the rows of the phases stay, the others fit into what is left.
LEMMA CleanedList ==
  ASSUME NEW list, IsFiniteSet(list), \A r \in list : r.id \in Int,
         \A r, q \in list : r.id = q.id => r = q
  PROVE  /\ Cleaned(list) \subseteq list /\ IsFiniteSet(Cleaned(list))
         /\ Phases(Cleaned(list)) = Phases(list)
         /\ Fits(Cleaned(list))
<1> DEFINE L == Lossy(list)
           After(r) == {q \in L : q.id > r.id}
           K == Lossy(Cleaned(list))
<1>1. Cleaned(list) \subseteq list /\ IsFiniteSet(Cleaned(list))
  BY FS_Subset DEF Cleaned
<1>2. Phases(Cleaned(list)) = Phases(list)
  BY DEF Phases, Cleaned, Lossy
<1>3. K = {r \in L : Cardinality(After(r)) < Room(list)}
  BY DEF Cleaned, Lossy
<1>4. IsFiniteSet(L) /\ IsFiniteSet(K)
  BY <1>1, FS_Subset DEF Lossy
<1>5. Room(Cleaned(list)) = Room(list) /\ Room(list) \in Nat
  BY <1>2, SameRoom, RoomIsNatural
<1>6. Cardinality(K) <= Room(list)
  <2>1. CASE K = {}
    BY <1>5, <2>1, FS_EmptySet
  <2>2. CASE K # {}
    <3>1. \A r \in K : r \in list /\ r \in L /\ r.id \in Int
      BY <1>3 DEF Lossy
    <3>2. PICK r \in K : \A q \in K : r.id <= q.id
      BY <1>4, <2>2, <3>1, Lowest
    <3>3. K \ {r} \subseteq After(r)
      <4> SUFFICES ASSUME NEW q \in K, q # r PROVE q \in L /\ q.id > r.id
        OBVIOUS
      <4>1. q.id # r.id /\ r.id <= q.id /\ q.id \in Int /\ r.id \in Int /\ q \in L
        BY <3>1, <3>2
      <4> QED
        BY <4>1
    <3>4. IsFiniteSet(After(r)) /\ Cardinality(After(r)) \in Nat
      BY <1>4, FS_Subset, FS_CardinalityType
    <3>5. Cardinality(After(r)) < Room(list)
      BY <1>3
    <3>6. Cardinality(K \ {r}) = Cardinality(K) - 1 /\ Cardinality(K) \in Nat
      BY <1>4, FS_RemoveElement, FS_CardinalityType
    <3> HIDE DEF K, After, L
    <3>7. Cardinality(K \ {r}) <= Cardinality(After(r))
      BY <3>3, <3>4, FS_Subset
    <3> QED
      BY <1>5, <3>4, <3>5, <3>6, <3>7
  <2> QED
    BY <2>1, <2>2
<1> QED
  BY <1>1, <1>2, <1>5, <1>6 DEF Fits

-----------------------------------------------------------------------------
(* Where a call is *)

CallTypes ==
    /\ left \subseteq Calls
    /\ Values(queue) \subseteq Calls \ left
    /\ hooked \subseteq Calls \ left /\ ready \subseteq Edits \ left
    /\ flight \subseteq Calls \ left /\ runtime \subseteq Calls \ left
    /\ DOMAIN saving \subseteq Edits \ left
    /\ hooked \cap ready = {} /\ (hooked \cup ready) \cap (flight \cup runtime) = {}
    /\ Values(queue) \cap (hooked \cup ready \cup flight \cup runtime) = {}
    /\ inbox \subseteq flight \X BOOLEAN
    /\ Queue /\ Answered /\ OneByOne

LEMMA TypesOfCalls == IInv => CallTypes
BY DEF IInv, TypeOK, CallTypes

\* What after_observation does to the queue.
LEMMA ObservedQueue ==
  ASSUME Queue, NEW c, NEW ok, AfterObservation(c, ok)
  PROVE  queue' \in Seq(Calls) /\ Distinct(queue') /\ Values(queue') \subseteq Values(queue)
<1>1. CASE queue' = queue
  BY <1>1 DEF Queue
<1>2. CASE Undo(c)
  BY <1>2, QueueWithout DEF Queue, Undo
<1> QED
  BY <1>1, <1>2 DEF AfterObservation

\* Nothing comes back to the calls that are still to be published.
Shrinks == Coming' \subseteq Coming

LEMMA TakingCalls ==
  ASSUME CallTypes, Respond \/ TakeOne \/ TakeBatch
  PROVE  CallTypes' /\ Shrinks
<1>1. CASE Respond
  <2>1. PICK S \in SUBSET left : queue' \in Orders(S) /\ left' = left \ S
    BY <1>1 DEF Respond
  <2>2. queue' \in Seq(Calls) /\ Values(queue') = S /\ Distinct(queue')
    BY <2>1, OrderedQueue DEF CallTypes
  <2>3. UNCHANGED <<hooked, saving, ready, flight, runtime, inbox>>
    BY <1>1 DEF Respond, runtimeVars
  <2>4. hooked = {} /\ ready = {} /\ flight = {}
    BY <1>1 DEF Respond, Settled
  <2>5. Queue' /\ Answered' /\ OneByOne'
    BY <2>2, <2>3, <2>4 DEF CallTypes, Queue, Answered, OneByOne
  <2> QED
    BY <2>1, <2>2, <2>3, <2>4, <2>5 DEF CallTypes, Shrinks, Coming
<1>2. CASE TakeOne
  <2>1. /\ queue \in Seq(Calls) /\ Distinct(queue) /\ queue # <<>>
        /\ hooked' = {Head(queue)} /\ queue' = Tail(queue)
        /\ UNCHANGED <<left, saving, ready, flight, runtime, inbox>>
        /\ hooked = {} /\ ready = {} /\ flight = {}
    BY <1>2 DEF TakeOne, CallTypes, Queue, Settled, runtimeVars
  <2>2. /\ Head(queue) \in Values(queue) /\ queue' \in Seq(Calls) /\ Distinct(queue')
        /\ Values(queue') = Values(queue) \ {Head(queue)}
    BY <2>1, HeadOfQueue
  <2>3. Queue' /\ Answered' /\ OneByOne'
    BY <2>1, <2>2 DEF CallTypes, Queue, Answered, OneByOne
  <2> QED
    BY <2>1, <2>2, <2>3 DEF CallTypes, Shrinks, Coming
<1>3. CASE TakeBatch
  <2>1. /\ hooked' = Values(queue) /\ queue' = <<>>
        /\ UNCHANGED <<left, saving, ready, flight, runtime, inbox>>
        /\ hooked = {} /\ ready = {} /\ flight = {}
    BY <1>3 DEF TakeBatch, Settled, runtimeVars
  <2>2. queue' \in Seq(Calls) /\ Distinct(queue') /\ Values(queue') = {}
    BY <2>1, NoCalls
  <2>3. Queue' /\ Answered' /\ OneByOne'
    BY <2>1, <2>2 DEF CallTypes, Queue, Answered, OneByOne
  <2> QED
    BY <2>1, <2>2, <2>3 DEF CallTypes, Shrinks, Coming
<1> QED
  BY <1>1, <1>2, <1>3

LEMMA MiddlewareCalls ==
  ASSUME CallTypes, NEW c \in Calls,
         \/ c \in Edits /\ (Checkpoint(c) \/ CheckpointEnds(c))
         \/ Block(c) \/ Publish(c)
  PROVE  CallTypes' /\ Shrinks
<1>1. CASE c \in Edits /\ Checkpoint(c)
  <2>1. /\ UNCHANGED <<left, queue, flight, runtime, inbox>>
        /\ c \in hooked
        /\ \/ DOMAIN saving' = DOMAIN saving \cup {c} /\ UNCHANGED <<hooked, ready>>
           \/ hooked' = hooked \ {c} /\ ready' = ready \cup {c} /\ UNCHANGED saving
    BY <1>1 DEF Checkpoint, runtimeVars
  <2>2. Queue' /\ Answered' /\ OneByOne'
    BY <2>1 DEF CallTypes, Queue, Answered, OneByOne
  <2> QED
    BY <1>1, <2>1, <2>2 DEF CallTypes, Shrinks, Coming
<1>2. CASE c \in Edits /\ CheckpointEnds(c)
  <2>1. /\ UNCHANGED <<left, queue, flight, runtime, inbox>>
        /\ DOMAIN saving' = DOMAIN saving \ {c}
        /\ hooked' = hooked \ {c} /\ ready' = ready \cup (hooked \cap {c})
    BY <1>2 DEF CheckpointEnds, runtimeVars
  <2>2. Queue' /\ Answered' /\ OneByOne'
    BY <2>1 DEF CallTypes, Queue, Answered, OneByOne
  <2> QED
    BY <1>2, <2>1, <2>2 DEF CallTypes, Shrinks, Coming
<1>3. CASE Block(c)
  <2>1. /\ UNCHANGED <<left, queue, saving, flight, runtime, inbox>>
        /\ hooked' = hooked \ {c} /\ ready' = ready \ {c}
    BY <1>3 DEF Block, runtimeVars
  <2>2. Queue' /\ Answered' /\ OneByOne'
    BY <2>1 DEF CallTypes, Queue, Answered, OneByOne
  <2> QED
    BY <2>1, <2>2 DEF CallTypes, Shrinks, Coming
<1>4. CASE Publish(c)
  <2>1. /\ UNCHANGED <<left, queue, saving, inbox>>
        /\ hooked' = hooked \ {c} /\ ready' = ready \ {c} /\ c \in hooked \cup ready
        /\ flight' = flight \cup {c} /\ runtime' = runtime \cup {c}
    BY <1>4 DEF Publish
  <2>2. Queue' /\ Answered' /\ OneByOne'
    BY <2>1 DEF CallTypes, Queue, Answered, OneByOne
  <2> QED
    BY <2>1, <2>2 DEF CallTypes, Shrinks, Coming
<1> QED
  BY <1>1, <1>2, <1>3, <1>4

LEMMA AnsweredCalls ==
  ASSUME CallTypes, NEW c \in runtime, NEW ok \in BOOLEAN, Answers(c, ok),
         UNCHANGED agentVars
  PROVE  CallTypes' /\ Shrinks
<1>1. /\ UNCHANGED <<left, queue, hooked, saving, ready, flight>>
      /\ runtime' = runtime \ {c}
      /\ \A o \in inbox' : o \in inbox \/ (c \in flight /\ o = <<c, ok>>)
  BY DEF agentVars, Answers
<1>2. Queue' /\ OneByOne'
  BY <1>1 DEF CallTypes, Queue, OneByOne
<1>3. Answered'
  <2>1. \A o \in inbox : o[1] # c
    BY DEF CallTypes, Answered
  <2>2. <<c, ok>>[1] = c
    OBVIOUS
  <2>3. \A o \in inbox' : o[1] \notin runtime'
    BY <1>1, <2>2 DEF CallTypes, Answered
  <2>4. ASSUME NEW o \in inbox', NEW p \in inbox', o[1] = p[1]
        PROVE  o = p
    BY <1>1, <2>1, <2>2, <2>4 DEF CallTypes, Answered
  <2> QED
    BY <2>3, <2>4 DEF Answered
<1>4. inbox' \subseteq flight' \X BOOLEAN
  BY <1>1 DEF CallTypes
<1> QED
  BY <1>1, <1>2, <1>3, <1>4 DEF CallTypes, Shrinks, Coming

LEMMA RuntimeCalls ==
  ASSUME CallTypes, (\E e \in Edits : RunEdit(e)) \/ RunSave \/ RunRevert
  PROVE  CallTypes' /\ Shrinks
<1>1. PICK c \in runtime, ok \in BOOLEAN : Answers(c, ok) /\ UNCHANGED agentVars
  BY DEF RunEdit, RunSave, RunRevert, agentVars
<1> QED
  BY <1>1, AnsweredCalls

LEMMA ObservedCalls ==
  ASSUME CallTypes, NEW c \in Calls, Observe(c) \/ TimesOut(c)
  PROVE  CallTypes' /\ Shrinks
<1>1. PICK ok \in BOOLEAN : AfterObservation(c, ok)
  BY DEF Observe, TimesOut
<1>2. /\ queue' \in Seq(Calls) /\ Distinct(queue') /\ Values(queue') \subseteq Values(queue)
  BY <1>1, ObservedQueue DEF CallTypes
<1>3. /\ UNCHANGED <<left, hooked, saving, ready, runtime>>
      /\ flight' = flight \ {c} /\ inbox' \subseteq inbox
      /\ \A o \in inbox' : o[1] # c
  <2>1. CASE TimesOut(c)
    BY <2>1 DEF TimesOut
  <2>2. CASE Observe(c)
    <3>1. /\ UNCHANGED <<left, hooked, saving, ready, runtime>>
          /\ flight' = flight \ {c}
      BY <2>2 DEF Observe
    <3>2. PICK k \in BOOLEAN : <<c, k>> \in inbox /\ inbox' = inbox \ {<<c, k>>}
      BY <2>2 DEF Observe
    <3>3. ASSUME NEW o \in inbox', o[1] = c
          PROVE  FALSE
      <4>1. o \in inbox /\ o # <<c, k>> /\ o[1] = <<c, k>>[1]
        BY <3>2, <3>3
      <4> QED
        BY <3>2, <4>1 DEF CallTypes, Answered
    <3> QED
      BY <3>1, <3>2, <3>3
  <2> QED
    BY <2>1, <2>2
<1>4. inbox' \subseteq flight' \X BOOLEAN
  BY <1>3 DEF CallTypes
<1>5. Queue' /\ Answered' /\ OneByOne'
  BY <1>2, <1>3 DEF CallTypes, Queue, Answered, OneByOne
<1> QED
  BY <1>2, <1>3, <1>4, <1>5 DEF CallTypes, Shrinks, Coming

LEMMA StoppedCalls ==
  ASSUME CallTypes, Stop \/ UserReverts \/ Restart \/ UNCHANGED vars
  PROVE  CallTypes' /\ Shrinks
<1>1. CASE Stop
  <2>1. /\ UNCHANGED <<left, saving, runtime>>
        /\ queue' = <<>> /\ hooked' = {} /\ ready' = {} /\ flight' = {} /\ inbox' = {}
    BY <1>1 DEF Stop
  <2>2. Queue' /\ Answered' /\ OneByOne' /\ Values(queue') = {}
    BY <2>1, NoCalls DEF Queue, Answered, OneByOne
  <2> QED
    BY <2>1, <2>2 DEF CallTypes, Shrinks, Coming
<1>2. CASE UserReverts \/ UNCHANGED vars
  <2>1. UNCHANGED <<left, queue, hooked, saving, ready, flight, runtime, inbox>>
    BY <1>2 DEF UserReverts, vars, agentVars, runtimeVars
  <2>2. Queue' /\ Answered' /\ OneByOne'
    BY <2>1 DEF CallTypes, Queue, Answered, OneByOne
  <2> QED
    BY <2>1, <2>2 DEF CallTypes, Shrinks, Coming
<1>3. CASE Restart
  <2>1. /\ UNCHANGED left /\ DOMAIN saving' = {}
        /\ queue' = <<>> /\ hooked' = {} /\ ready' = {} /\ flight' = {} /\ inbox' = {}
        /\ runtime' = {}
    BY <1>3 DEF Restart
  <2>2. Queue' /\ Answered' /\ OneByOne' /\ Values(queue') = {}
    BY <2>1, NoCalls DEF Queue, Answered, OneByOne
  <2> QED
    BY <2>1, <2>2 DEF CallTypes, Shrinks, Coming
<1> QED
  BY <1>1, <1>2, <1>3

LEMMA CallsStep ==
  ASSUME CallTypes, [Next]_vars
  PROVE  CallTypes' /\ Shrinks
<1>1. Edits \subseteq Calls
  BY DEF Calls
<1>2. CASE Next
  BY <1>1, <1>2, TakingCalls, MiddlewareCalls, RuntimeCalls, ObservedCalls, StoppedCalls
     DEF Next
<1> QED
  BY <1>2, StoppedCalls

-----------------------------------------------------------------------------
(* The lists of checkpoints *)

LEMMA ProperKept ==
  ASSUME NEW S, NEW E, NEW F \in SUBSET E, Proper(S, E)
  PROVE  Proper(S, F)
BY DEF Proper

LEMMA GoodKept ==
  ASSUME NEW list, NEW n \in Nat, NEW E, Good(list, n, E),
         NEW sub \in SUBSET list, NEW m \in Nat, n <= m, NEW F \in SUBSET E
  PROVE  Good(sub, m, F)
<1>1. IsFiniteSet(sub)
  BY FS_Subset DEF Good
<1>2. ASSUME NEW r \in sub
      PROVE  RowBefore(r, m) /\ Proper(r.snap, F)
  <2>1. RowBefore(r, n) /\ Proper(r.snap, E)
    BY DEF Good
  <2>2. r.id < m
    BY <2>1 DEF RowBefore
  <2> QED
    BY <2>1, <2>2, ProperKept DEF RowBefore
<1> QED
  BY <1>1, <1>2 DEF Good

LEMMA GoodCleaned ==
  ASSUME NEW list, NEW n \in Nat, NEW E, Good(list, n, E)
  PROVE  /\ Good(Cleaned(list), n, E) /\ Cleaned(list) \subseteq list
         /\ Fits(Cleaned(list)) /\ Phases(Cleaned(list)) = Phases(list)
<1>1. /\ IsFiniteSet(list) /\ \A r \in list : r.id \in Int
      /\ \A r, q \in list : r.id = q.id => r = q
  BY DEF Good, RowBefore
<1>2. Cleaned(list) \subseteq list /\ Fits(Cleaned(list)) /\ Phases(Cleaned(list)) = Phases(list)
  BY <1>1, CleanedList
<1> QED
  BY <1>2, GoodKept

\* A checkpoint of the files f, added to a list.
NewRow(n, kind, f) == [id |-> n, kind |-> kind, snap |-> f]

LEMMA GoodAdded ==
  ASSUME NEW list, NEW n \in Nat \ {0}, NEW E, Good(list, n, E),
         NEW kind \in {"before_risky", "manual", "phase_boundary"}, NEW S, Proper(S, E),
         IF kind = "phase_boundary" THEN S = NoSnap ELSE S \in Contents
  PROVE  Good(list \cup {NewRow(n, kind, S)}, n + 1, E)
<1> DEFINE row == NewRow(n, kind, S)
<1>1. row.id = n /\ row.kind = kind /\ row.snap = S
  BY DEF NewRow
<1>2. RowBefore(row, n + 1) /\ Proper(row.snap, E)
  BY <1>1 DEF RowBefore
<1>3. IsFiniteSet(list \cup {row})
  BY FS_AddElement DEF Good
<1>4. ASSUME NEW r \in list
      PROVE  RowBefore(r, n + 1) /\ Proper(r.snap, E) /\ r.id # n
  BY DEF Good, RowBefore
<1>5. ASSUME NEW r \in list \cup {row}, NEW q \in list \cup {row}, r.id = q.id
      PROVE  r = q
  <2> HIDE DEF row
  <2>1. CASE r \in list /\ q \in list
    BY <1>5, <2>1 DEF Good
  <2> QED
    BY <1>1, <1>4, <1>5, <2>1
<1> HIDE DEF row
<1>6. \A r \in list \cup {row} : RowBefore(r, n + 1) /\ Proper(r.snap, E)
  BY <1>2, <1>4
<1> QED
  BY <1>3, <1>5, <1>6 DEF Good, row

\* What the model's types and Lists say of the rows.
Checkpoints ==
    /\ Lists
    /\ Cardinality(Lossy(mem)) <= Room(mem) + Cardinality(DOMAIN saving)
    /\ got \in [Edits -> 0 .. nextId - 1]

LEMMA KeptRows ==
  ASSUME Checkpoints, Shrinks, UNCHANGED <<rows, saving>>
  PROVE  Checkpoints'
<1>1. UNCHANGED <<mem, manifest, nextId, got, saving>>
  BY DEF rows
<1>2. nextId \in Nat \ {0} /\ nextId <= nextId /\ Coming' \in SUBSET Coming
  BY DEF Checkpoints, Lists, Shrinks
<1>3. Good(mem, nextId, Coming') /\ Good(manifest, nextId, Coming')
  BY <1>2, GoodKept DEF Checkpoints, Lists
<1>4. \A d \in DOMAIN saving : Good(saving[d], nextId, Coming')
  BY <1>2, GoodKept DEF Checkpoints, Lists
<1>5. Lists'
  BY <1>1, <1>3, <1>4 DEF Checkpoints, Lists
<1> QED
  BY <1>1, <1>5 DEF Checkpoints

\* A list that was cleaned up fits whatever number of threads there is.
LEMMA FitsLoosely ==
  ASSUME NEW list, IsFiniteSet(list), Fits(list), NEW D, IsFiniteSet(D)
  PROVE  Cardinality(Lossy(list)) <= Room(list) + Cardinality(D)
<1>1. IsFiniteSet(Lossy(list))
  BY FS_Subset DEF Lossy
<1>2. Cardinality(Lossy(list)) \in Nat /\ Cardinality(D) \in Nat /\ Room(list) \in Nat
  BY <1>1, FS_CardinalityType, RoomIsNatural
<1> QED
  BY <1>2 DEF Fits

LEMMA CheckpointRows ==
  ASSUME Checkpoints, Shrinks, NEW e \in Edits, Checkpoint(e),
         fs \in Contents, Proper(fs, Coming)
  PROVE  Checkpoints'
<1>1. CASE UNCHANGED <<saving, rows>>
  BY <1>1, KeptRows
<1>2. CASE ~ UNCHANGED <<saving, rows>>
  <2> DEFINE row == NewRow(nextId, "before_risky", fs)
  <2>1. /\ mem' = mem \cup {row}
        /\ saving' = [d \in DOMAIN saving \cup {e} |->
                        IF d = e THEN Cleaned(mem') ELSE saving[d]]
        /\ got' = [d \in Edits |-> IF d = e /\ saving = <<>> THEN nextId
                                 ELSE IF d \in DOMAIN saving THEN 0 ELSE got[d]]
        /\ nextId' = nextId + 1 /\ manifest' \in {manifest, mem'}
        /\ e \notin DOMAIN saving
    BY <1>2 DEF Checkpoint, Saved, Row, NewRow
  <2>2. /\ nextId \in Nat \ {0} /\ nextId \in Nat /\ nextId' \in Nat \ {0} /\ nextId <= nextId'
        /\ Coming' \in SUBSET Coming /\ nextId' \in Nat
    BY <2>1 DEF Checkpoints, Lists, Shrinks
  <2>3. Good(mem', nextId', Coming')
    <3>1. Good(mem', nextId', Coming)
      BY <2>1, <2>2, GoodAdded DEF Checkpoints, Lists
    <3> QED
      BY <2>2, <3>1, GoodKept
  <2>4. /\ Good(manifest', nextId', Coming')
        /\ \A d \in DOMAIN saving : Good(saving[d], nextId', Coming')
    <3>1. Good(manifest, nextId', Coming')
      BY <2>2, GoodKept DEF Checkpoints, Lists
    <3>2. \A d \in DOMAIN saving : Good(saving[d], nextId', Coming')
      BY <2>2, GoodKept DEF Checkpoints, Lists
    <3> HIDE DEF row
    <3> QED
      BY <2>1, <2>3, <3>1, <3>2
  <2>5. /\ Good(Cleaned(mem'), nextId', Coming') /\ Fits(Cleaned(mem'))
        /\ Phases(Cleaned(mem')) = Phases(mem')
    BY <2>2, <2>3, GoodCleaned
  <2>6. Lossy(mem') = Lossy(mem) \cup {row} /\ Phases(mem') = Phases(mem)
    <3>1. row.kind # "phase_boundary"
      BY DEF NewRow
    <3> HIDE DEF row
    <3>2. \A r \in mem : r.id < nextId
      BY DEF Checkpoints, Lists, Good, RowBefore
    <3>3. row.id = nextId
      BY DEF row, NewRow
    <3>4. row \notin mem
      BY <2>2, <3>2, <3>3
    <3> QED
      BY <2>1, <3>1, <3>4 DEF Lossy, Phases
  <2>7. IsFiniteSet(DOMAIN saving') /\ Cardinality(DOMAIN saving') = Cardinality(DOMAIN saving) + 1
    <3>1. DOMAIN saving' = DOMAIN saving \cup {e}
      BY <2>1
    <3> QED
      BY <2>1, <3>1, FS_AddElement DEF Checkpoints, Lists
  <2>8. Cardinality(Lossy(mem')) <= Room(mem') + Cardinality(DOMAIN saving')
    <3>1. IsFiniteSet(mem) /\ IsFiniteSet(Lossy(mem)) /\ IsFiniteSet(mem')
      BY <2>3, FS_Subset DEF Checkpoints, Lists, Good, Lossy
    <3>2. Cardinality(Lossy(mem')) <= Cardinality(Lossy(mem)) + 1
      <4> HIDE DEF row
      <4>1. Cardinality(Lossy(mem) \cup {row}) \in
              {Cardinality(Lossy(mem)), Cardinality(Lossy(mem)) + 1}
        BY <3>1, FS_AddElement
      <4>2. Cardinality(Lossy(mem)) \in Nat
        BY <3>1, FS_CardinalityType
      <4> QED
        BY <2>6, <4>1, <4>2
    <3>3. Room(mem') = Room(mem) /\ Room(mem) \in Nat
      BY <2>6, <3>1, SameRoom, RoomIsNatural
    <3>4. /\ Cardinality(Lossy(mem)) \in Nat /\ Cardinality(DOMAIN saving) \in Nat
          /\ Cardinality(Lossy(mem')) \in Nat
      BY <3>1, FS_Subset, FS_CardinalityType DEF Checkpoints, Lists, Lossy
    <3> QED
      BY <2>7, <3>2, <3>3, <3>4 DEF Checkpoints
  <2>9. Lists'
    <3>1. ASSUME NEW d \in DOMAIN saving'
          PROVE  /\ Good(saving'[d], nextId', Coming')
                 /\ Fits(saving'[d]) /\ Phases(saving'[d]) = Phases(mem')
      <4> HIDE DEF row
      <4>1. CASE d = e
        BY <2>1, <2>5, <4>1
      <4>2. CASE d # e
        <5>1. d \in DOMAIN saving /\ saving'[d] = saving[d]
          BY <2>1, <4>2
        <5> QED
          BY <2>4, <2>6, <5>1 DEF Checkpoints, Lists
      <4> QED
        BY <4>1, <4>2
    <3> HIDE DEF row
    <3> QED
      BY <2>2, <2>3, <2>4, <2>7, <3>1 DEF Lists
  <2>10. got' \in [Edits -> 0 .. nextId' - 1]
    <3> HIDE DEF row
    <3>1. ASSUME NEW d \in Edits
          PROVE  got[d] \in 0 .. nextId' - 1 /\ {0, nextId} \subseteq 0 .. nextId' - 1
      BY <2>1, <2>2 DEF Checkpoints
    <3> QED
      BY <2>1, <3>1
  <2> QED
    BY <2>8, <2>9, <2>10 DEF Checkpoints
<1> QED
  BY <1>1, <1>2

LEMMA CheckpointEndsRows ==
  ASSUME Checkpoints, Shrinks, NEW e \in Edits, CheckpointEnds(e)
  PROVE  Checkpoints'
<1>1. /\ mem' \in {saving[e], Cleaned(mem)}
      /\ \/ manifest' = manifest \/ manifest' \in {saving[e], mem'}
      /\ saving' = [d \in DOMAIN saving \ {e} |-> saving[d]]
      /\ e \in DOMAIN saving /\ UNCHANGED <<nextId, got>>
  BY DEF CheckpointEnds, Saved
<1>2. nextId \in Nat /\ nextId <= nextId /\ Coming' \in SUBSET Coming
  BY DEF Checkpoints, Lists, Shrinks
<1>3. Good(mem', nextId, Coming) /\ Fits(mem') /\ Phases(mem') = Phases(mem)
  BY <1>1, <1>2, GoodCleaned DEF Checkpoints, Lists
<1>4. Good(manifest', nextId, Coming)
  BY <1>1, <1>3 DEF Checkpoints, Lists
<1>5. /\ Good(mem', nextId, Coming') /\ Good(manifest', nextId, Coming')
      /\ \A d \in DOMAIN saving : Good(saving[d], nextId, Coming')
  BY <1>2, <1>3, <1>4, GoodKept DEF Checkpoints, Lists
<1>6. IsFiniteSet(DOMAIN saving')
  BY <1>1, FS_Subset DEF Checkpoints, Lists
<1>7. Lists'
  BY <1>1, <1>3, <1>5, <1>6 DEF Checkpoints, Lists
<1>8. Cardinality(Lossy(mem')) <= Room(mem') + Cardinality(DOMAIN saving')
  BY <1>3, <1>6, FitsLoosely DEF Good
<1> QED
  BY <1>1, <1>7, <1>8 DEF Checkpoints

LEMMA SaveRows ==
  ASSUME Checkpoints, Shrinks, RunSave, fs \in Contents, Proper(fs, Coming)
  PROVE  Checkpoints'
<1> DEFINE row == NewRow(nextId, "manual", fs)
<1>0. CASE UNCHANGED <<manifest, nextId>>
  <2>1. UNCHANGED <<saving, rows>>
    BY <1>0 DEF RunSave, agentVars, rows
  <2> QED
    BY <2>1, KeptRows
<1> SUFFICES ASSUME ~ UNCHANGED <<manifest, nextId>>
             PROVE  Checkpoints'
  BY <1>0
<1>1. /\ manifest' \in {manifest, Cleaned(manifest \cup {row})}
      /\ nextId' = nextId + 1 /\ UNCHANGED <<mem, got, saving>>
  BY DEF RunSave, Saved, Row, NewRow, agentVars
<1>2. /\ nextId \in Nat \ {0} /\ nextId \in Nat /\ nextId' \in Nat \ {0} /\ nextId' \in Nat
      /\ nextId <= nextId' /\ nextId' <= nextId' /\ Coming' \in SUBSET Coming
  BY <1>1 DEF Checkpoints, Lists, Shrinks
<1>3. Good(manifest \cup {row}, nextId', Coming)
  BY <1>1, <1>2, GoodAdded DEF Checkpoints, Lists
<1> HIDE DEF row
<1>4. Good(Cleaned(manifest \cup {row}), nextId', Coming')
  BY <1>2, <1>3, GoodCleaned, GoodKept
<1>5. /\ Good(manifest, nextId', Coming') /\ Good(mem, nextId', Coming')
      /\ \A d \in DOMAIN saving : Good(saving[d], nextId', Coming')
  BY <1>2, GoodKept DEF Checkpoints, Lists
<1>6. Lists'
  BY <1>1, <1>2, <1>4, <1>5 DEF Checkpoints, Lists
<1>7. got' \in [Edits -> 0 .. nextId' - 1]
  <2>1. ASSUME NEW d \in Edits
        PROVE  got[d] \in 0 .. nextId' - 1
    BY <1>1, <1>2 DEF Checkpoints
  <2> QED
    BY <1>1, <2>1 DEF Checkpoints
<1> QED
  BY <1>1, <1>6, <1>7 DEF Checkpoints

LEMMA RestartRows ==
  ASSUME Checkpoints, Shrinks, Restart
  PROVE  Checkpoints'
<1>1. PICK last \in {{}, {Row("phase_boundary", NoSnap)}} :
         LET old == IF last = {} THEN manifest ELSE Cleaned(mem \cup last)
             row == [id |-> nextId + 1, kind |-> "phase_boundary", snap |-> NoSnap]
         IN  mem' = Cleaned(old \cup {row})
  BY DEF Restart
<1> DEFINE old == IF last = {} THEN manifest ELSE Cleaned(mem \cup last)
           row == NewRow(nextId + 1, "phase_boundary", NoSnap)
<1>2. /\ mem' = Cleaned(old \cup {row}) /\ manifest' = mem' /\ nextId' = nextId + 2
      /\ saving' = <<>> /\ got' = [e \in Edits |-> 0]
  BY <1>1 DEF Restart, NewRow
<1>3. /\ nextId \in Nat \ {0} /\ nextId \in Nat /\ nextId + 1 \in Nat \ {0} /\ nextId + 1 \in Nat
      /\ nextId <= nextId + 1 /\ nextId' = (nextId + 1) + 1 /\ nextId' \in Nat \ {0}
      /\ nextId' \in Nat /\ nextId' <= nextId' /\ Coming' \in SUBSET Coming
  BY <1>2 DEF Checkpoints, Lists, Shrinks
<1>4. Proper(NoSnap, Coming)
  BY DEF Proper, NoSnap, In
<1>5. Good(old, nextId + 1, Coming)
  <2>1. CASE last = {}
    BY <1>3, <2>1, GoodKept DEF Checkpoints, Lists
  <2>2. CASE last # {}
    <3>1. last = {NewRow(nextId, "phase_boundary", NoSnap)}
      BY <2>2 DEF Row, NewRow
    <3>2. Good(mem \cup last, nextId + 1, Coming)
      BY <1>3, <1>4, <3>1, GoodAdded DEF Checkpoints, Lists
    <3> QED
      BY <1>3, <2>2, <3>2, GoodCleaned
  <2> QED
    BY <2>1, <2>2
<1> HIDE DEF old
<1>6. Good(old \cup {row}, nextId', Coming)
  BY <1>3, <1>4, <1>5, GoodAdded
<1> HIDE DEF row
<1>7. Good(mem', nextId', Coming) /\ Fits(mem')
  BY <1>2, <1>3, <1>6, GoodCleaned
<1>8. Good(mem', nextId', Coming')
  BY <1>3, <1>7, GoodKept
<1>9. DOMAIN saving' = {} /\ IsFiniteSet(DOMAIN saving')
  BY <1>2, FS_EmptySet
<1>10. Lists'
  BY <1>2, <1>3, <1>8, <1>9 DEF Lists
<1>11. Cardinality(Lossy(mem')) <= Room(mem') + Cardinality(DOMAIN saving')
  BY <1>7, <1>9, FitsLoosely DEF Good
<1>12. got' \in [Edits -> 0 .. nextId' - 1]
  BY <1>2, <1>3
<1> QED
  BY <1>10, <1>11, <1>12 DEF Checkpoints

\* Every step keeps the lists.
LEMMA CheckpointsStep ==
  ASSUME IInv, [Next]_vars
  PROVE  Checkpoints'
<1>1. Checkpoints /\ fs \in Contents /\ Proper(fs, Coming)
  BY DEF IInv, TypeOK, Gone, Checkpoints
<1>2. Shrinks
  BY TypesOfCalls, CallsStep
<1>3. CASE UNCHANGED <<rows, saving>>
  BY <1>1, <1>2, <1>3, KeptRows
<1>4. ASSUME NEW c \in Calls, Block(c) \/ Publish(c) \/ Observe(c) \/ TimesOut(c)
      PROVE  UNCHANGED <<rows, saving>>
  BY <1>4 DEF Block, Publish, Observe, TimesOut
<1>5. ASSUME Respond \/ TakeOne \/ TakeBatch \/ Stop
      PROVE  UNCHANGED <<rows, saving>>
  BY <1>5 DEF Respond, TakeOne, TakeBatch, Stop
<1>6. ASSUME RunRevert \/ UserReverts \/ \E e \in Edits : RunEdit(e)
      PROVE  UNCHANGED <<rows, saving>>
  BY <1>6 DEF RunRevert, UserReverts, RunEdit, agentVars
<1>7. ASSUME UNCHANGED vars
      PROVE  UNCHANGED <<rows, saving>>
  BY <1>7 DEF vars, rows
<1> QED
  BY <1>1, <1>2, <1>3, <1>4, <1>5, <1>6, <1>7,
     CheckpointRows, CheckpointEndsRows, SaveRows, RestartRows DEF Next

-----------------------------------------------------------------------------
(* The transaction *)

LEMMA NoTransaction ==
  /\ NoTx \in TxRecords /\ NoTx.members = {} /\ NoTx.done = {}
  /\ DOMAIN NoTx.snaps = {}
  /\ \A E : Proper(NoTx.snaps, E)
  /\ \A e : ~In(e, NoTx.snaps)
<1>1. DOMAIN NoTx.snaps = {} /\ NoTx.snaps = <<>>
  BY EmptySeq DEF NoTx
<1>2. <<>> \in [{} -> SUBSET Edits]
  OBVIOUS
<1>3. NoTx \in TxRecords
  BY <1>2 DEF NoTx, TxRecords
<1> QED
  BY <1>1, <1>3 DEF NoTx, Proper, In

LEMMA SnapshotsTaken ==
  ASSUME NEW base \in TxRecords, NEW wanted \in SUBSET Files, Snapshotted(base, wanted),
         fs \in Contents, Proper(fs, Coming), Proper(base.snaps, Coming),
         \A m \in base.members : (m \in Coming /\ Target[m] \in wanted) \/ Covered(base, m)
  PROVE  \/ tx' = NoTx
         \/ /\ tx' \in TxRecords /\ tx'.members = base.members /\ tx'.done = base.done
            /\ Proper(tx'.snaps, Coming)
            /\ \A m \in base.members : Covered(tx', m)
            /\ \A e : In(e, tx'.snaps) => In(e, base.snaps) \/ In(e, fs)
<1> DEFINE D == DOMAIN base.snaps
           Wider(N) == [f \in D \cup N |-> IF f \in D THEN base.snaps[f] ELSE fs[f]]
<1>1. PICK N \in SUBSET (wanted \ D), M \in SUBSET Files :
         /\ N \cup M = wanted \ D
         /\ tx' = NoTx \/ tx' = [base EXCEPT !.snaps = Wider(N), !.missed = @ \cup M]
  <2>1. PICK M \in SUBSET (wanted \ D) :
          \/ tx' = NoTx
          \/ tx' = [base EXCEPT !.snaps = Wider((wanted \ D) \ M), !.missed = @ \cup M]
    BY DEF Snapshotted
  <2> DEFINE R == (wanted \ D) \ M
  <2>2. R \in SUBSET (wanted \ D) /\ M \in SUBSET Files /\ R \cup M = wanted \ D
    OBVIOUS
  <2> HIDE DEF Wider
  <2>3. tx' = NoTx \/ tx' = [base EXCEPT !.snaps = Wider(R), !.missed = @ \cup M]
    BY <2>1
  <2> HIDE DEF R
  <2> QED
    BY <2>2, <2>3
<1>2. CASE tx' = NoTx
  BY <1>2
<1>3. CASE tx' = [base EXCEPT !.snaps = Wider(N), !.missed = @ \cup M]
  <2>1. /\ D \in SUBSET Files /\ base.snaps \in [D -> SUBSET Edits]
        /\ base.members \subseteq Edits /\ base.missed \subseteq Files
    BY DEF TxRecords
  <2>2. Wider(N) \in [D \cup N -> SUBSET Edits] /\ D \cup N \in SUBSET Files
    BY <1>1, <2>1 DEF Contents
  <2>3. /\ tx'.members = base.members /\ tx'.done = base.done
        /\ tx'.snaps = Wider(N) /\ tx'.missed = base.missed \cup M
    BY <1>3 DEF TxRecords
  <2>4. tx' \in TxRecords
    <3> HIDE DEF Wider
    <3>1. Wider(N) \in UNION {[K -> SUBSET Edits] : K \in SUBSET Files}
      BY <2>2
    <3> QED
      BY <1>1, <1>3, <2>1, <3>1 DEF TxRecords
  <2>5. \A f \in D \cup N : Wider(N)[f] = IF f \in D THEN base.snaps[f] ELSE fs[f]
    OBVIOUS
  <2>6. \A f \in N : f \in DOMAIN fs
    BY <1>1 DEF Contents
  <2> HIDE DEF Wider
  <2>7. \A e : In(e, Wider(N)) => In(e, base.snaps) \/ In(e, fs)
    BY <2>2, <2>5, <2>6 DEF In
  <2>8. Proper(Wider(N), Coming)
    BY <2>2, <2>5, <2>6, <2>7 DEF Proper
  <2>9. ASSUME NEW m \in base.members
        PROVE  Covered(tx', m)
    <3>1. CASE Covered(base, m)
      BY <2>2, <2>3, <2>5, <3>1 DEF Covered
    <3>2. CASE m \in Coming /\ Target[m] \in wanted
      <4>1. m \in Edits \cap Coming /\ ~In(m, Wider(N))
        BY <2>1, <2>8, <3>2 DEF Proper
      <4>2. Target[m] \in D \cup N \cup M
        BY <1>1, <3>2
      <4> QED
        BY <2>2, <2>3, <4>1, <4>2 DEF Covered, In
    <3> QED
      BY <3>1, <3>2
  <2> QED
    BY <2>3, <2>4, <2>7, <2>8, <2>9
<1> QED
  BY <1>1, <1>2, <1>3

LEMMA WithoutTransaction ==
  ASSUME tx' = NoTx
  PROVE  Transaction' /\ \A e : ~In(e, tx'.snaps)
BY NoTransaction DEF Transaction, Covered

LEMMA TransactionKept ==
  ASSUME Transaction, Shrinks, UNCHANGED tx, left' \subseteq left,
         flight' \cap Edits \subseteq flight, Values(queue') \subseteq Values(queue)
  PROVE  Transaction'
<1>1. Proper(tx.snaps, Coming')
  BY ProperKept DEF Transaction, Shrinks
<1> QED
  BY <1>1 DEF Transaction, Covered

\* before_action, for an edit that the middleware has let pass.
LEMMA GroupOfEdits ==
  ASSUME Queue, NEW e \in Edits
  PROVE  /\ e \in Group(e) /\ Group(e) \subseteq Edits
         /\ Group(e) \subseteq {e} \cup Values(queue)
<1>1. queue \in Seq(Calls) /\ Len(queue) \in Nat /\ DOMAIN queue = 1 .. Len(queue)
  BY QueueCalls DEF Queue
<1>2. ASSUME NEW i \in 1 .. Len(queue), \A k \in 1 .. i : queue[k] \in Edits
      PROVE  queue[i] \in Edits /\ queue[i] \in Values(queue)
  <2>1. i \in 1 .. i
    BY <1>1
  <2> QED
    BY <1>2, <2>1 DEF Values
<1> QED
  BY <1>2 DEF Group

LEMMA SingleGroup ==
  ASSUME Queue, NEW e \in Edits, Cardinality(Group(e)) >= 2
  PROVE  Values(queue) # {}
<1> SUFFICES ASSUME Values(queue) = {} PROVE FALSE
  OBVIOUS
<1>1. Group(e) = {e}
  BY GroupOfEdits
<1>2. Cardinality(Group(e)) = 1
  BY <1>1, FS_Singleton
<1> QED
  BY <1>2

LEMMA JoinsTransaction ==
  ASSUME IInv, NEW e \in ready, BeforeAction(e)
  PROVE  \/ tx' = NoTx
         \/ /\ tx' \in TxRecords /\ tx'.done = tx.done
            /\ tx'.members \subseteq tx.members \cup {e} \cup Values(queue)
            /\ (flight \cup {e}) \cap Edits \subseteq tx'.members
            /\ tx.members \subseteq tx'.members
            /\ Proper(tx'.snaps, Coming)
            /\ \A m \in tx'.members : Covered(tx', m)
            /\ \A d : In(d, tx'.snaps) => In(d, tx.snaps) \/ In(d, fs)
<1>1. /\ e \in Edits /\ e \in Coming /\ fs \in Contents /\ Proper(fs, Coming)
      /\ tx \in TxRecords /\ Proper(tx.snaps, Coming)
      /\ Values(queue) \subseteq Coming /\ Queue /\ OneByOne
  BY DEF IInv, TypeOK, Coming, Gone, Transaction
<1>2. \A d \in Edits : Target[d] \in Files
  BY WorkspaceConstants
<1>3. CASE tx # NoTx /\ Snapshotted([tx EXCEPT !.members = @ \cup {e}], {Target[e]})
  <2> DEFINE base == [tx EXCEPT !.members = @ \cup {e}]
  <2>1. /\ base \in TxRecords /\ base.members = tx.members \cup {e} /\ base.done = tx.done
        /\ base.snaps = tx.snaps /\ base.missed = tx.missed
    BY <1>1 DEF TxRecords
  <2>2. ASSUME NEW m \in base.members
        PROVE  (m \in Coming /\ Target[m] \in {Target[e]}) \/ Covered(base, m)
    BY <1>1, <2>1 DEF IInv, Transaction, Covered
  <2>3. flight \cap Edits \subseteq tx.members
    BY <1>3 DEF IInv, Transaction
  <2>4. {Target[e]} \in SUBSET Files /\ Snapshotted(base, {Target[e]})
    BY <1>1, <1>2, <1>3
  <2> HIDE DEF base
  <2> QED
    BY <1>1, <2>1, <2>2, <2>3, <2>4, SnapshotsTaken
<1>4. CASE /\ tx = NoTx /\ Cardinality(Group(e)) >= 2
           /\ Snapshotted([NoTx EXCEPT !.members = Group(e)], Targets(Group(e)))
  <2> DEFINE base == [NoTx EXCEPT !.members = Group(e)]
  <2>1. /\ e \in Group(e) /\ Group(e) \subseteq Edits
        /\ Group(e) \subseteq {e} \cup Values(queue) /\ Values(queue) # {}
    BY <1>1, <1>4, GroupOfEdits, SingleGroup
  <2>2. /\ base \in TxRecords /\ base.members = Group(e) /\ base.done = tx.done
        /\ base.snaps = tx.snaps /\ tx.members = {}
    BY <1>4, <2>1, NoTransaction DEF TxRecords
  <2>3. ASSUME NEW m \in base.members
        PROVE  m \in Coming /\ Target[m] \in Targets(Group(e))
    BY <1>1, <2>1, <2>2 DEF Targets
  <2>4. flight \subseteq {e}
    BY <1>1, <2>1 DEF OneByOne
  <2>5. Targets(Group(e)) \in SUBSET Files /\ Snapshotted(base, Targets(Group(e)))
    BY <1>2, <1>4, <2>1 DEF Targets
  <2> HIDE DEF base
  <2> QED
    BY <1>1, <2>1, <2>2, <2>3, <2>4, <2>5, SnapshotsTaken
<1> QED
  BY <1>3, <1>4 DEF BeforeAction

LEMMA PublishTransaction ==
  ASSUME IInv, Shrinks, NEW c \in Calls, Publish(c)
  PROVE  Transaction'
<1>1. /\ UNCHANGED <<left, queue>> /\ flight' = flight \cup {c}
  BY DEF Publish
<1>2. CASE c \in hooked \ Edits /\ UNCHANGED tx
  BY <1>1, <1>2, TransactionKept DEF IInv
<1>3. CASE c \in ready /\ BeforeAction(c) /\ tx' # NoTx
  <2>1. /\ tx' \in TxRecords /\ tx'.done = tx.done
        /\ tx'.members \subseteq tx.members \cup {c} \cup Values(queue)
        /\ (flight \cup {c}) \cap Edits \subseteq tx'.members
        /\ tx.members \subseteq tx'.members
        /\ Proper(tx'.snaps, Coming)
        /\ \A m \in tx'.members : Covered(tx', m)
    BY <1>3, JoinsTransaction
  <2>2. Proper(tx'.snaps, Coming')
    BY <2>1, ProperKept DEF Shrinks
  <2>3. c \notin left /\ Values(queue) \cap left = {}
    BY <1>3 DEF IInv, TypeOK
  <2> QED
    BY <1>1, <2>1, <2>2, <2>3 DEF IInv, Transaction, Covered
<1>4. CASE tx' = NoTx
  BY <1>4, WithoutTransaction
<1> QED
  BY <1>2, <1>3, <1>4 DEF Publish

LEMMA ObserveTransaction ==
  ASSUME IInv, Shrinks, NEW c \in Calls, NEW ok \in BOOLEAN, c \in flight,
         AfterObservation(c, ok), UNCHANGED left, flight' = flight \ {c}
  PROVE  Transaction'
<1>1. Values(queue') \subseteq Values(queue)
  BY ObservedQueue DEF IInv
<1>2. CASE UNCHANGED tx
  BY <1>1, <1>2, TransactionKept DEF IInv
<1>3. CASE tx' = NoTx
  BY <1>3, WithoutTransaction
<1>4. CASE c \in Edits /\ tx # NoTx /\ tx' = [tx EXCEPT !.done = @ \cup {c}]
  <2>1. /\ tx \in TxRecords /\ c \in tx.members /\ tx.done \subseteq tx.members
        /\ tx.members \cap left = {} /\ tx.done \cap Values(queue) = {}
    BY <1>4 DEF IInv, Transaction
  <2>2. /\ tx' \in TxRecords /\ tx'.members = tx.members /\ tx'.done = tx.done \cup {c}
        /\ tx'.snaps = tx.snaps /\ tx'.missed = tx.missed
    BY <1>4, <2>1 DEF TxRecords
  <2>3. c \notin Values(queue)
    BY DEF IInv, TypeOK
  <2>4. Proper(tx.snaps, Coming')
    BY ProperKept DEF IInv, Transaction, Shrinks
  <2>5. \A m \in tx'.members : Covered(tx', m)
    BY <2>2 DEF IInv, Transaction, Covered
  <2>6. flight' \cap Edits \subseteq tx.members
    BY <1>4 DEF IInv, Transaction
  <2> QED
    BY <1>1, <2>1, <2>2, <2>3, <2>4, <2>5, <2>6 DEF Transaction
<1> QED
  BY <1>2, <1>3, <1>4 DEF AfterObservation, Undo

\* Every step keeps the transaction what it is.
LEMMA TransactionStep ==
  ASSUME IInv, [Next]_vars
  PROVE  Transaction'
<1>1. Shrinks /\ Transaction
  BY TypesOfCalls, CallsStep DEF IInv
<1>2. CASE Respond \/ Restart
  BY <1>2, WithoutTransaction DEF Respond, Restart
<1>3. CASE TakeOne \/ TakeBatch
  <2>1. /\ UNCHANGED <<tx, left, flight>>
        /\ (queue' = Tail(queue) /\ queue # <<>>) \/ queue' = <<>>
    BY <1>3 DEF TakeOne, TakeBatch
  <2>2. Values(queue') \subseteq Values(queue)
    BY <2>1, HeadOfQueue, NoCalls DEF IInv, Queue
  <2> QED
    BY <1>1, <2>1, <2>2, TransactionKept
<1>4. CASE \E e \in Edits : Checkpoint(e) \/ CheckpointEnds(e) \/ RunEdit(e)
  <2>1. UNCHANGED <<tx, left, flight, queue>>
    BY <1>4 DEF Checkpoint, CheckpointEnds, RunEdit, agentVars
  <2> QED
    BY <1>1, <2>1, TransactionKept
<1>5. CASE RunSave \/ RunRevert \/ UserReverts \/ UNCHANGED vars
  <2>1. UNCHANGED <<tx, left, flight, queue>>
    BY <1>5 DEF RunSave, RunRevert, UserReverts, vars, agentVars
  <2> QED
    BY <1>1, <2>1, TransactionKept
<1>6. CASE Stop
  <2>1. UNCHANGED <<tx, left>> /\ flight' = {} /\ queue' = <<>>
    BY <1>6 DEF Stop
  <2> QED
    BY <1>1, <2>1, NoCalls, TransactionKept
<1>7. ASSUME NEW c \in Calls, Block(c) \/ Publish(c) \/ Observe(c) \/ TimesOut(c)
      PROVE  Transaction'
  <2>1. CASE Block(c)
    BY <1>1, <2>1, TransactionKept DEF Block
  <2>2. CASE Observe(c) \/ TimesOut(c)
    <3>1. PICK ok \in BOOLEAN : AfterObservation(c, ok) /\ c \in flight
      BY <2>2 DEF Observe, TimesOut, IInv, TypeOK
    <3>2. UNCHANGED left /\ flight' = flight \ {c}
      BY <2>2 DEF Observe, TimesOut
    <3> QED
      BY <1>1, <3>1, <3>2, ObserveTransaction
  <2> QED
    BY <1>1, <1>7, <2>1, <2>2, PublishTransaction
<1> QED
  BY <1>2, <1>3, <1>4, <1>5, <1>6, <1>7 DEF Next

-----------------------------------------------------------------------------
(* The files *)

Edited == fs \in Contents /\ undone \subseteq Edits /\ excused \subseteq Edits /\ Gone

\* Steps that leave the files alone.
LEMMA QuietFiles ==
  ASSUME IInv, Shrinks, UNCHANGED <<fs, undone, excused>>,
         runtime' \subseteq runtime \cup Coming,
         \A e : In(e, tx'.snaps) => In(e, tx.snaps) \/ In(e, fs)
  PROVE  Edited'
<1>1. Gone /\ Proper(fs, Coming')
  BY ProperKept DEF IInv, Gone, Shrinks
<1>2. ASSUME NEW e \in Banned'
      PROVE  e \notin Coming' \cup runtime' /\ ~In(e, fs') /\ ~In(e, tx'.snaps)
  BY <1>1 DEF Banned, Gone, Shrinks
<1>3. fs \in Contents /\ undone \subseteq Edits /\ excused \subseteq Edits
  BY DEF IInv, TypeOK
<1> QED
  BY <1>1, <1>2, <1>3 DEF Edited, Gone

\* An edit is executed.
LEMMA EditFiles ==
  ASSUME IInv, Shrinks, NEW e \in Edits, RunEdit(e)
  PROVE  Edited'
<1>1. e \in runtime /\ runtime' \subseteq runtime /\ UNCHANGED <<tx, undone, excused>>
  BY DEF RunEdit, Answers
<1>2. CASE UNCHANGED fs
  BY <1>1, <1>2, QuietFiles
<1>3. CASE fs' = [fs EXCEPT ![Target[e]] = @ \cup {e}]
  <2>1. fs \in Contents /\ Target[e] \in Files
    BY WorkspaceConstants DEF IInv, TypeOK
  <2>2. fs' \in Contents
    BY <1>3, <2>1 DEF Contents
  <2>3. /\ DOMAIN fs' = Files /\ DOMAIN fs = Files
        /\ \A f \in Files : fs'[f] = IF f = Target[e] THEN fs[f] \cup {e} ELSE fs[f]
    BY <1>3, <2>1 DEF Contents
  <2>4. \A d : In(d, fs') => In(d, fs) \/ d = e
    BY <2>3 DEF In
  <2>5. e \notin Coming
    BY <1>1 DEF IInv, TypeOK, Coming
  <2>6. Proper(fs', Coming')
    BY <2>3, <2>4, <2>5 DEF IInv, Gone, Proper, Shrinks
  <2>7. ASSUME NEW d \in Banned'
        PROVE  d \notin Coming' \cup runtime' /\ ~In(d, fs') /\ ~In(d, tx'.snaps)
    BY <1>1, <2>4 DEF IInv, Gone, Banned, Shrinks
  <2> QED
    BY <1>1, <2>2, <2>6, <2>7 DEF Edited, Gone, IInv, TypeOK
<1> QED
  BY <1>2, <1>3 DEF RunEdit

\* A checkpoint is restored, all of it or some files.
LEMMA RevertedFiles ==
  ASSUME IInv, Shrinks, NEW list, NEW n, Good(list, n, Coming), NEW r \in list,
         NEW ok \in BOOLEAN, RollbackTo(r, ok), runtime' \subseteq runtime,
         UNCHANGED <<tx, undone>>
  PROVE  Edited'
<1>1. RowBefore(r, n) /\ Proper(r.snap, Coming)
  BY DEF Good
<1>2. CASE UNCHANGED <<fs, excused>>
  BY <1>2, QuietFiles
<1>3. CASE ~ UNCHANGED <<fs, excused>>
  <2>1. /\ r.snap \in Contents
        /\ excused' = excused \cup (undone \cap UNION {r.snap[f] : f \in Files})
    BY <1>1, <1>3 DEF RollbackTo, RowBefore
  <2>2. PICK F \in SUBSET Files : fs' = [f \in Files |-> IF f \in F THEN r.snap[f] ELSE fs[f]]
    <3>1. CASE fs' = r.snap
      <4>1. r.snap = [f \in Files |-> IF f \in Files THEN r.snap[f] ELSE fs[f]]
        BY <2>1 DEF Contents
      <4> QED
        BY <3>1, <4>1
    <3> QED
      BY <1>3, <3>1 DEF RollbackTo
  <2>3. /\ DOMAIN fs = Files /\ DOMAIN fs' = Files /\ DOMAIN r.snap = Files
        /\ \A f \in Files : fs'[f] \in {r.snap[f], fs[f]}
    BY <2>1, <2>2 DEF IInv, TypeOK, Contents
  <2>4. fs' \in Contents
    BY <2>1, <2>2 DEF IInv, TypeOK, Contents
  <2>5. \A e : In(e, fs') => In(e, fs) \/ In(e, r.snap)
    BY <2>3 DEF In
  <2>6. Proper(fs', Coming')
    BY <1>1, <2>3, <2>5 DEF IInv, Gone, Proper, Shrinks
  <2>7. ASSUME NEW e \in Banned'
        PROVE  e \notin Coming' \cup runtime' /\ ~In(e, fs') /\ ~In(e, tx'.snaps)
    <3>1. e \in Banned /\ ~In(e, r.snap)
      BY <2>1, <2>3 DEF Banned, In
    <3> QED
      BY <2>5, <3>1 DEF IInv, Gone, Shrinks
  <2> QED
    BY <2>1, <2>4, <2>6, <2>7 DEF Edited, Gone, IInv, TypeOK
<1> QED
  BY <1>2, <1>3

\* The transaction is rolled back: its members leave the files and the queue, unless they
\* are in other hands.
LEMMA UndoneFiles ==
  ASSUME IInv, Shrinks, NEW e \in flight, Undo(e),
         UNCHANGED <<left, hooked, ready, runtime>>
  PROVE  Edited'
<1>1. PICK stuck \in SUBSET DOMAIN tx.snaps :
         /\ fs' = [f \in Files |-> IF f \in DOMAIN tx.snaps \ stuck THEN tx.snaps[f]
                                 ELSE fs[f]]
         /\ queue' \in Without(queue, Dropped(e))
         /\ undone' = undone \cup tx.members
         /\ excused' = excused \cup {m \in tx.members :
                          \/ m \in hooked \cup ready \cup runtime
                          \/ Target[m] \in stuck \cup tx.missed}
         /\ tx' = NoTx
  BY DEF Undo
<1>2. /\ tx \in TxRecords /\ Proper(tx.snaps, Coming) /\ tx.members \subseteq Edits
      /\ DOMAIN tx.snaps \subseteq Files /\ tx.snaps \in [DOMAIN tx.snaps -> SUBSET Edits]
  BY DEF IInv, Transaction, TxRecords
<1>3. /\ DOMAIN fs = Files /\ DOMAIN fs' = Files /\ fs' \in Contents
      /\ \A f \in Files : fs'[f] = IF f \in DOMAIN tx.snaps \ stuck THEN tx.snaps[f]
                                   ELSE fs[f]
  BY <1>1, <1>2 DEF IInv, TypeOK, Contents
<1>4. \A d : In(d, fs') => In(d, fs) \/ In(d, tx.snaps)
  BY <1>3 DEF In
<1>5. Proper(fs', Coming')
  BY <1>2, <1>3, <1>4 DEF IInv, Gone, Proper, Shrinks
<1>6. ASSUME NEW d \in Banned'
      PROVE  d \notin Coming' \cup runtime' /\ ~In(d, fs')
  <2>1. CASE d \notin tx.members
    <3>1. d \in Banned
      BY <1>1, <2>1 DEF Banned
    <3> QED
      BY <1>4, <3>1 DEF IInv, Gone, Shrinks
  <2>2. CASE d \in tx.members
    <3>1. /\ d \notin hooked \cup ready \cup runtime /\ Target[d] \notin stuck \cup tx.missed
          /\ d \in Edits
      BY <1>1, <1>2, <2>2 DEF Banned
    <3>2. d \notin left /\ Covered(tx, d)
      BY <2>2 DEF IInv, Transaction
    <3>3. d \notin Values(queue')
      <4>1. Values(queue') = Values(queue) \ Dropped(e)
        BY <1>1, QueueWithout DEF IInv, Queue
      <4>2. e \notin Values(queue)
        BY DEF IInv, TypeOK
      <4>3. tx.done \cap Values(queue) = {}
        BY DEF IInv, Transaction
      <4> QED
        BY <2>2, <4>1, <4>2, <4>3 DEF Dropped
    <3>4. /\ Target[d] \in DOMAIN tx.snaps \ stuck /\ d \notin tx.snaps[Target[d]]
          /\ Target[d] \in Files
      BY <1>2, <3>1, <3>2 DEF Covered
    <3>5. ~In(d, fs')
      <4>1. \A f \in Files : d \in fs'[f] => Target[d] = f
        BY <1>3, <1>5 DEF Proper
      <4> QED
        BY <1>3, <3>4, <4>1 DEF In
    <3> QED
      BY <3>1, <3>2, <3>3, <3>5 DEF Coming
  <2> QED
    BY <2>1, <2>2
<1>7. undone' \subseteq Edits /\ excused' \subseteq Edits
  BY <1>1, <1>2 DEF IInv, TypeOK
<1> QED
  BY <1>1, <1>3, <1>5, <1>6, <1>7, WithoutTransaction DEF Edited, Gone

LEMMA PublishFiles ==
  ASSUME IInv, Shrinks, NEW c \in Calls, Publish(c)
  PROVE  Edited'
<1>1. /\ UNCHANGED <<fs, undone, excused>> /\ runtime' = runtime \cup {c} /\ c \in Coming
  BY DEF Publish, Coming
<1>2. \A e : In(e, tx'.snaps) => In(e, tx.snaps) \/ In(e, fs)
  BY JoinsTransaction, NoTransaction DEF Publish
<1> QED
  BY <1>1, <1>2, QuietFiles

LEMMA ObserveFiles ==
  ASSUME IInv, Shrinks, NEW c \in Calls, NEW ok \in BOOLEAN, c \in flight,
         AfterObservation(c, ok), UNCHANGED <<left, hooked, ready, runtime>>
  PROVE  Edited'
<1>1. CASE UNCHANGED <<fs, undone, excused>>
  <2>1. tx' = tx \/ tx' = NoTx \/ tx' = [tx EXCEPT !.done = @ \cup {c}]
    BY DEF AfterObservation, Undo
  <2>2. tx'.snaps = tx.snaps \/ tx' = NoTx
    BY <2>1 DEF IInv, Transaction, TxRecords
  <2> QED
    BY <1>1, <2>2, NoTransaction, QuietFiles
<1>2. CASE Undo(c)
  BY <1>2, UndoneFiles
<1> QED
  BY <1>1, <1>2 DEF AfterObservation

\* Every step keeps what was rolled back out of the files.
LEMMA FilesStep ==
  ASSUME IInv, [Next]_vars
  PROVE  Edited'
<1>1. Shrinks
  BY TypesOfCalls, CallsStep
<1>2. CASE Respond \/ TakeOne \/ TakeBatch \/ Stop \/ Restart \/ UNCHANGED vars
  <2>1. /\ UNCHANGED <<fs, undone, excused>>
        /\ tx' = tx \/ tx' = NoTx
        /\ runtime' = runtime \/ runtime' = {}
    BY <1>2 DEF Respond, TakeOne, TakeBatch, Stop, Restart, vars, runtimeVars
  <2> QED
    BY <1>1, <2>1, NoTransaction, QuietFiles
<1>3. CASE \E e \in Edits : Checkpoint(e) \/ CheckpointEnds(e)
  <2>1. UNCHANGED <<fs, undone, excused, tx, runtime>>
    BY <1>3 DEF Checkpoint, CheckpointEnds, runtimeVars
  <2> QED
    BY <1>1, <2>1, QuietFiles
<1>4. CASE \E e \in Edits : RunEdit(e)
  BY <1>1, <1>4, EditFiles
<1>5. CASE RunSave
  <2>1. UNCHANGED <<fs, undone, excused, tx>> /\ runtime' \subseteq runtime
    BY <1>5 DEF RunSave, Answers
  <2> QED
    BY <1>1, <2>1, QuietFiles
<1>6. CASE RunRevert
  <2>1. PICK r \in manifest, ok \in BOOLEAN : RollbackTo(r, ok) /\ Answers(Revert, ok)
    BY <1>6 DEF RunRevert
  <2>2. runtime' \subseteq runtime /\ UNCHANGED <<tx, undone>>
    BY <1>6, <2>1 DEF RunRevert, Answers
  <2>3. Good(manifest, nextId, Coming)
    BY DEF IInv, Lists
  <2> QED
    BY <1>1, <2>1, <2>2, <2>3, RevertedFiles
<1>7. CASE UserReverts
  <2>1. PICK r \in mem, ok \in BOOLEAN : RollbackTo(r, ok)
    BY <1>7 DEF UserReverts
  <2>2. UNCHANGED <<runtime, tx, undone>>
    BY <1>7 DEF UserReverts, runtimeVars
  <2>3. Good(mem, nextId, Coming)
    BY DEF IInv, Lists
  <2> QED
    BY <1>1, <2>1, <2>2, <2>3, RevertedFiles
<1>8. ASSUME NEW c \in Calls, Block(c) \/ Publish(c) \/ Observe(c) \/ TimesOut(c)
      PROVE  Edited'
  <2>1. CASE Block(c)
    <3>1. UNCHANGED <<fs, undone, excused, tx, runtime>>
      BY <2>1 DEF Block, runtimeVars
    <3> QED
      BY <1>1, <3>1, QuietFiles
  <2>2. CASE Observe(c) \/ TimesOut(c)
    <3>1. PICK ok \in BOOLEAN : AfterObservation(c, ok) /\ c \in flight
      BY <2>2 DEF Observe, TimesOut, IInv, TypeOK
    <3>2. UNCHANGED <<left, hooked, ready, runtime>>
      BY <2>2 DEF Observe, TimesOut
    <3> QED
      BY <1>1, <3>1, <3>2, ObserveFiles
  <2> QED
    BY <1>1, <1>8, <2>1, <2>2, PublishFiles
<1> QED
  BY <1>2, <1>3, <1>4, <1>5, <1>6, <1>7, <1>8 DEF Next

-----------------------------------------------------------------------------
(* The bounds *)

Bounded == faults \in 0 .. MaxTroubles /\ events \in 0 .. MaxTroubles

LEMMA BoundsStep ==
  ASSUME Bounded, [Next]_vars
  PROVE  Bounded'
<1>1. faults' = faults \/ Fault
  <2>1. CASE Respond \/ TakeOne \/ TakeBatch \/ Stop \/ Restart \/ UNCHANGED vars
    BY <2>1 DEF Respond, TakeOne, TakeBatch, Stop, Restart, vars
  <2>2. ASSUME NEW e \in Edits, Checkpoint(e) \/ CheckpointEnds(e) \/ RunEdit(e)
        PROVE  faults' = faults \/ Fault
    BY <2>2 DEF Checkpoint, CheckpointEnds, RunEdit, Saved, NoFault
  <2>3. CASE RunSave \/ RunRevert \/ UserReverts
    BY <2>3 DEF RunSave, RunRevert, UserReverts, RollbackTo, Saved, NoFault
  <2>4. ASSUME NEW c \in Calls, Block(c) \/ Publish(c)
        PROVE  faults' = faults \/ Fault
    BY <2>4 DEF Block, Publish, BeforeAction, Snapshotted, NoFault
  <2>5. ASSUME NEW c \in Calls, Observe(c) \/ TimesOut(c)
        PROVE  faults' = faults \/ Fault
    <3>1. PICK ok \in BOOLEAN : AfterObservation(c, ok)
      BY <2>5 DEF Observe, TimesOut
    <3> QED
      BY <3>1 DEF AfterObservation, Undo, NoFault
  <2> QED
    BY <2>1, <2>2, <2>3, <2>4, <2>5 DEF Next
<1>2. events' = events \/ Counted
  <2>1. CASE Respond \/ TakeOne \/ TakeBatch \/ Stop \/ Restart \/ UNCHANGED vars
    BY <2>1 DEF Respond, TakeOne, TakeBatch, Stop, Restart, vars
  <2>2. ASSUME NEW e \in Edits, Checkpoint(e) \/ CheckpointEnds(e) \/ RunEdit(e)
        PROVE  events' = events
    BY <2>2 DEF Checkpoint, CheckpointEnds, RunEdit
  <2>3. CASE RunSave \/ RunRevert \/ UserReverts
    BY <2>3 DEF RunSave, RunRevert, UserReverts
  <2>4. ASSUME NEW c \in Calls, Block(c) \/ Publish(c) \/ Observe(c) \/ TimesOut(c)
        PROVE  events' = events \/ Counted
    BY <2>4 DEF Block, Publish, Observe, TimesOut
  <2> QED
    BY <2>1, <2>2, <2>3, <2>4 DEF Next
<1> QED
  BY <1>1, <1>2, WorkspaceConstants DEF Bounded, Fault, Counted

-----------------------------------------------------------------------------
(* The invariant *)

LEMMA Parts ==
  IInv <=> /\ CallTypes /\ Checkpoints /\ Transaction /\ Edited /\ Bounded
<1>1. Lists => \A r \in mem \cup manifest : IsRow(r)
  BY DEF Lists, Good, RowBefore, IsRow
<1>2. Transaction => tx.done \subseteq tx.members /\ tx.members \subseteq Edits
  BY DEF Transaction, TxRecords
<1> QED
  BY <1>1, <1>2 DEF IInv, TypeOK, CallTypes, Checkpoints, Edited, Bounded

LEMMA InitIInv == Init => IInv
<1> SUFFICES ASSUME Init PROVE IInv
  OBVIOUS
<1> DEFINE row == NewRow(1, "phase_boundary", NoSnap)
<1>1. /\ mem = {row} /\ manifest = {row} /\ nextId = 2 /\ saving = <<>>
      /\ got = [e \in Edits |-> 0]
  BY DEF Init, NewRow
<1>2. row.id = 1 /\ row.kind = "phase_boundary" /\ row.snap = NoSnap
  BY DEF NewRow
<1>3. Good({row}, 2, Coming)
  <2>1. RowBefore(row, 2) /\ Proper(row.snap, Coming)
    BY <1>2 DEF RowBefore, Proper, In, NoSnap
  <2>2. IsFiniteSet({row})
    BY FS_Singleton
  <2> HIDE DEF row
  <2> QED
    BY <2>1, <2>2 DEF Good
<1>4. Lossy({row}) = {}
  BY <1>2 DEF Lossy
<1> HIDE DEF row
<1>5. DOMAIN saving = {} /\ IsFiniteSet(DOMAIN saving)
  BY <1>1, FS_EmptySet, EmptySeq
<1>6. Cardinality(Lossy(mem)) <= Room(mem) + Cardinality(DOMAIN saving)
  <2>1. IsFiniteSet({row}) /\ Cardinality({}) = 0
    BY FS_Singleton, FS_EmptySet
  <2>2. Room(mem) \in Nat
    BY <1>1, <2>1, RoomIsNatural
  <2>3. Cardinality(Lossy(mem)) = 0 /\ Cardinality(DOMAIN saving) = 0
    BY <1>1, <1>4, <1>5, <2>1
  <2> QED
    BY <2>2, <2>3
<1>7. Checkpoints
  BY <1>1, <1>3, <1>5, <1>6 DEF Checkpoints, Lists
<1>8. queue \in Seq(Calls) /\ Distinct(queue) /\ Values(queue) = {}
  BY NoCalls DEF Init
<1>9. CallTypes
  BY <1>5, <1>8 DEF Init, CallTypes, Queue, Answered, OneByOne
<1>10. Transaction /\ \A e : ~In(e, tx.snaps)
  BY NoTransaction DEF Init, Transaction, Covered
<1>11. Edited
  <2>1. fs \in Contents /\ \A e : ~In(e, fs)
    BY DEF Init, Contents, In
  <2> QED
    BY <2>1, <1>10 DEF Init, Edited, Gone, Banned, Proper, Contents
<1>12. Bounded
  BY WorkspaceConstants DEF Init, Bounded
<1> QED
  BY <1>7, <1>9, <1>10, <1>11, <1>12, Parts

LEMMA StepIInv == IInv /\ [Next]_vars => IInv'
<1> SUFFICES ASSUME IInv, [Next]_vars PROVE IInv'
  OBVIOUS
<1>1. CallTypes'
  BY TypesOfCalls, CallsStep
<1>2. Bounded'
  BY Parts, BoundsStep
<1>3. Checkpoints' /\ Transaction' /\ Edited'
  BY CheckpointsStep, TransactionStep, FilesStep
<1> QED
  BY <1>1, <1>2, <1>3, Parts, PTL

LEMMA AlwaysIInv == Spec => []IInv
<1>1. Init => IInv
  BY InitIInv
<1>2. IInv /\ [Next]_vars => IInv'
  BY StepIInv
<1> QED
  BY <1>1, <1>2, PTL DEF Spec

\* What each part holds is of its kind: calls are where they belong, a list of checkpoints
\* exceeds what it may hold by one row at most for each thread that has yet to clean up
\* (create_checkpoint, _cleanup_old_checkpoints), and a transaction completes members only.
THEOREM WorkspaceTypes == Spec => []TypeOK
<1>1. IInv => TypeOK
  BY DEF IInv
<1> QED
  BY <1>1, AlwaysIInv, PTL

\* All or nothing (FileEditTransactionCoordinator): once the edits of a transaction were
\* rolled back, none of them is in a file, whatever is observed, reverted, retried or
\* restarted later, except those that the coordinator could not reach.
THEOREM EditsStayOut == Spec => []EditsAllOrNothing
<1>1. IInv => EditsAllOrNothing
  <2> SUFFICES ASSUME IInv, NEW e \in undone \ excused, NEW f \in Files
               PROVE  e \notin fs[f]
    BY DEF EditsAllOrNothing
  <2> QED
    BY DEF IInv, TypeOK, Gone, Banned, In, Contents
<1> QED
  BY <1>1, AlwaysIInv, PTL

-----------------------------------------------------------------------------
(* The checkpoints of the edits that are under way *)

LEMMA FilesAreFinite == IsFiniteSet(Files) /\ Cardinality(Files) \in Nat
BY WorkspaceConstants, FS_CardinalityType

LEMMA NewerRows ==
  ASSUME NEW list, IsFiniteSet(list), NEW sub \in SUBSET list, NEW id
  PROVE  /\ IsFiniteSet(Newer(list, id)) /\ Cardinality(Newer(list, id)) \in Nat
         /\ Cardinality(Newer(sub, id)) \in Nat
         /\ Cardinality(Newer(sub, id)) <= Cardinality(Newer(list, id))
<1>1. Newer(list, id) \subseteq list /\ Newer(sub, id) \subseteq Newer(list, id)
  BY DEF Newer, Lossy
<1>2. IsFiniteSet(Newer(list, id)) /\ IsFiniteSet(Newer(sub, id))
  BY <1>1, FS_Subset
<1> QED
  BY <1>1, <1>2, FS_CardinalityType, FS_Subset

\* Fewer edits ahead of their checkpoints do no harm.
LEMMA UndoesKept ==
  ASSUME NEW list, IsFiniteSet(list), NEW e, NEW id, NEW E, IsFiniteSet(E),
         NEW F \in SUBSET E, Undoes(list, e, id, E)
  PROVE  Undoes(list, e, id, F)
<1>1. /\ Cardinality(F) \in Nat /\ Cardinality(E) \in Nat /\ Cardinality(F) <= Cardinality(E)
  BY FS_CardinalityType, FS_Subset
<1>2. Cardinality(Newer(list, id)) \in Nat
  BY NewerRows
<1> QED
  BY <1>1, <1>2, FilesAreFinite DEF Undoes

\* The clean-up evicts no row that an edit under way still needs.
LEMMA UndoesCleaned ==
  ASSUME NEW list, IsFiniteSet(list), NEW e, NEW id, NEW E, IsFiniteSet(E),
         Wide(list), Undoes(list, e, id, E)
  PROVE  Undoes(Cleaned(list), e, id, E)
<1>1. PICK r \in Lossy(list) : r.id = id /\ ~In(e, r.snap)
  BY DEF Undoes
<1>2. Newer(list, id) = {q \in Lossy(list) : q.id > r.id}
  BY <1>1 DEF Newer
<1>3. Cardinality(E) \in Nat /\ Cardinality(Phases(list)) \in Nat
  BY FS_CardinalityType, FS_Subset DEF Phases
<1>4. Cardinality(Newer(list, id)) \in Nat
  BY NewerRows
<1>5. Cardinality(Newer(list, id)) < Room(list)
  BY <1>3, <1>4, FilesAreFinite, WorkspaceConstants DEF Undoes, Wide, Room, Phases
<1>6. r \in Lossy(Cleaned(list))
  BY <1>2, <1>5 DEF Cleaned, Lossy
<1>7. Cleaned(list) \in SUBSET list
  BY DEF Cleaned
<1>8. /\ Cardinality(Newer(Cleaned(list), id)) \in Nat
      /\ Cardinality(Newer(Cleaned(list), id)) <= Cardinality(Newer(list, id))
  BY <1>7, NewerRows
<1> QED
  BY <1>1, <1>3, <1>4, <1>6, <1>8, FilesAreFinite DEF Undoes

\* A new row stands for an edit that was ahead of its checkpoint.
LEMMA UndoesAfterNewRow ==
  ASSUME NEW list, IsFiniteSet(list), NEW e, NEW id, NEW E, IsFiniteSet(E), NEW c \in E,
         Undoes(list, e, id, E), NEW row
  PROVE  Undoes(list \cup {row}, e, id, E \ {c})
<1>1. PICK r \in Lossy(list) : r.id = id /\ ~In(e, r.snap)
  BY DEF Undoes
<1>2. r \in Lossy(list \cup {row})
  BY DEF Lossy
<1>3. IsFiniteSet(Newer(list, id)) /\ Cardinality(Newer(list, id)) \in Nat
  BY NewerRows
<1>4. /\ IsFiniteSet(Newer(list, id) \cup {row})
      /\ Cardinality(Newer(list, id) \cup {row}) \in Nat
      /\ Cardinality(Newer(list, id) \cup {row}) <= Cardinality(Newer(list, id)) + 1
  <2>1. IsFiniteSet(Newer(list, id) \cup {row})
    BY <1>3, FS_AddElement
  <2>2. Cardinality(Newer(list, id) \cup {row}) \in
          {Cardinality(Newer(list, id)), Cardinality(Newer(list, id)) + 1}
    BY <1>3, FS_AddElement
  <2> QED
    BY <1>3, <2>1, <2>2
<1>5. Newer(list \cup {row}, id) \subseteq Newer(list, id) \cup {row}
  BY DEF Newer, Lossy
<1>6. /\ Cardinality(Newer(list \cup {row}, id)) \in Nat
      /\ Cardinality(Newer(list \cup {row}, id)) <= Cardinality(Newer(list, id) \cup {row})
  BY <1>4, <1>5, FS_Subset, FS_CardinalityType
<1>7. Cardinality(E \ {c}) = Cardinality(E) - 1 /\ Cardinality(E) \in Nat
  BY FS_RemoveElement, FS_CardinalityType
<1> QED
  BY <1>1, <1>2, <1>3, <1>4, <1>6, <1>7, FilesAreFinite DEF Undoes

LEMMA Finite ==
  ASSUME IInv
  PROVE  /\ IsFiniteSet(Ahead) /\ IsFiniteSet(mem) /\ IsFiniteSet(hooked \cap Edits)
         /\ \A d \in DOMAIN saving : IsFiniteSet(saving[d])
<1>1. hooked \subseteq Calls
  BY DEF IInv, TypeOK
<1>2. Ahead \subseteq Calls /\ hooked \cap Edits \subseteq Calls
  BY <1>1 DEF Ahead
<1> QED
  BY <1>2, CallsAreFinite, FS_Subset DEF IInv, Lists, Good

\* Steps that take calls further or give them up.
LEMMA AnchorsKept ==
  ASSUME IInv, Anchors, UNCHANGED <<mem, saving, got>>,
         hooked' \subseteq hooked, left' \cup Values(queue') \subseteq left \cup Values(queue),
         (ready' \cup flight') \cap Edits \subseteq hooked \cup ready \cup flight
  PROVE  Anchors'
<1>1. Ahead' \in SUBSET Ahead
  BY DEF Ahead
<1>2. ASSUME NEW e \in (hooked \cup ready \cup flight) \cap Edits, got[e] # 0, Wide(mem)
      PROVE  /\ e \in DOMAIN saving => DOMAIN saving = {e}
             /\ Undoes(mem, e, got[e], Ahead')
             /\ \A d \in DOMAIN saving : Undoes(saving[d], e, got[e], Ahead')
  BY <1>1, <1>2, Finite, UndoesKept DEF Anchors
<1> QED
  BY <1>1, <1>2 DEF Anchors

LEMMA AnchorsTaken ==
  ASSUME IInv, Anchors, TakeOne \/ TakeBatch
  PROVE  Anchors'
<1>1. /\ UNCHANGED <<left, saving, mem, got>>
      /\ ready' = {} /\ flight' = {}
  BY DEF TakeOne, TakeBatch, Settled, rows
<1>2. hooked' \subseteq Values(queue) /\ Values(queue') \subseteq Values(queue)
  BY HeadOfQueue, NoCalls DEF TakeOne, TakeBatch, IInv, Queue
<1>3. \A d, e \in hooked' \cap Edits : Target[d] = Target[e] => d = e
  BY DEF TakeOne, TakeBatch
<1>4. \A e \in Edits : e \in left \cup Values(queue) => got[e] = 0
  BY DEF Anchors
<1>5. Ahead' \subseteq Values(queue)
  BY <1>2 DEF Ahead
<1> QED
  BY <1>1, <1>2, <1>3, <1>4, <1>5 DEF Anchors

\* No two edits in the middleware are of one file.
LEMMA FewAhead ==
  ASSUME IInv, Anchors, NEW e \in Ahead
  PROVE  Cardinality(Ahead \ {e}) < Cardinality(Files) /\ Cardinality(Files) >= 1
<1> DEFINE H == hooked \cap Edits
           t == [d \in H |-> Target[d]]
<1>1. IsFiniteSet(H) /\ e \in H /\ Ahead \subseteq H
  BY Finite DEF Ahead
<1>2. t \in Injection(H, Files)
  BY WorkspaceConstants DEF Anchors, Injection, IsInjective
<1>3. Cardinality(H) <= Cardinality(Files)
  BY <1>2, FilesAreFinite, FS_Injection
<1> HIDE DEF H
<1>4. /\ Cardinality(H \ {e}) = Cardinality(H) - 1 /\ Cardinality(H) \in Nat
      /\ IsFiniteSet(H \ {e}) /\ Cardinality(H \ {e}) \in Nat
  BY <1>1, FS_RemoveElement, FS_CardinalityType
<1>5. Ahead \ {e} \subseteq H \ {e}
  BY <1>1
<1>6. Cardinality(Ahead \ {e}) \in Nat /\ Cardinality(Ahead \ {e}) <= Cardinality(H \ {e})
  BY <1>4, <1>5, FS_Subset, FS_CardinalityType
<1> QED
  BY <1>3, <1>4, <1>6, FilesAreFinite

LEMMA AnchorsCheckpoint ==
  ASSUME IInv, IInv', Anchors, NEW c \in Edits, Checkpoint(c)
  PROVE  Anchors'
<1>1. c \in hooked /\ c \notin DOMAIN saving /\ c \in Ahead
  BY DEF Checkpoint, Ahead
<1>2. CASE hooked' = hooked \ {c} /\ ready' = ready \cup {c} /\ UNCHANGED <<saving, rows>>
  <2>1. UNCHANGED <<left, queue, flight, mem, saving, got>>
    BY <1>2 DEF Checkpoint, rows
  <2> QED
    BY <1>1, <1>2, <2>1, AnchorsKept
<1>3. CASE mem' = mem \cup {Row("before_risky", fs)}
  <2> DEFINE row == Row("before_risky", fs)
  <2>1. /\ mem' = mem \cup {row}
        /\ saving' = [d \in DOMAIN saving \cup {c} |->
                        IF d = c THEN Cleaned(mem') ELSE saving[d]]
        /\ got' = [d \in Edits |-> IF d = c /\ saving = <<>> THEN nextId
                                 ELSE IF d \in DOMAIN saving THEN 0 ELSE got[d]]
        /\ UNCHANGED <<left, queue, hooked, ready, flight>>
    <3>1. row \notin mem
      BY DEF IInv, Lists, Good, RowBefore, Row
    <3> QED
      BY <1>3, <3>1 DEF Checkpoint, rows
  <2>2. row.id = nextId /\ row.kind = "before_risky" /\ row.snap = fs
    BY DEF Row
  <2>3. Ahead' = Ahead \ {c}
    BY <2>1 DEF Ahead
  <2>4. IsFiniteSet(mem) /\ IsFiniteSet(mem') /\ IsFiniteSet(Ahead) /\ IsFiniteSet(Ahead')
    BY <2>3, Finite, FS_Subset DEF IInv, Lists, Good
  <2>5. Phases(mem') = Phases(mem)
    <3> HIDE DEF row
    <3>1. row.kind # "phase_boundary"
      BY <2>2
    <3> QED
      BY <2>1, <3>1 DEF Phases, Lossy
  <2>6. \A q \in mem : q.id \in Nat /\ q.id < nextId
    BY DEF IInv, Lists, Good, RowBefore
  <2> HIDE DEF row
  <2>7. ASSUME Wide(mem), saving = <<>>
        PROVE  Undoes(mem', c, nextId, Ahead')
    <3>1. ~In(c, fs)
      BY <1>1 DEF IInv, Gone, Proper, Coming
    <3>2. row \in Lossy(mem')
      BY <2>1, <2>2 DEF Lossy
    <3>3. nextId \in Nat
      BY DEF IInv, Lists
    <3>4. Newer(mem', nextId) = {}
      BY <2>1, <2>2, <2>6, <3>3 DEF Newer, Lossy
    <3>5. Cardinality(Ahead') \in Nat /\ Cardinality(Ahead') < Cardinality(Files)
      BY <1>1, <2>3, <2>4, FewAhead, FS_CardinalityType
    <3>6. Cardinality(Newer(mem', nextId)) = 0
      BY <3>4, FS_EmptySet
    <3> QED
      BY <2>2, <3>1, <3>2, <3>5, <3>6 DEF Undoes
  <2>8. ASSUME Wide(mem), NEW e \in (hooked \cup ready \cup flight) \cap Edits, got'[e] # 0
        PROVE  /\ e \in DOMAIN saving' => DOMAIN saving' = {e}
               /\ Undoes(mem', e, got'[e], Ahead')
               /\ \A d \in DOMAIN saving' \ {c} : Undoes(saving'[d], e, got'[e], Ahead')
    <3>1. CASE e = c
      <4>1. got[c] = 0
        BY <1>1 DEF Anchors
      <4>2. saving = <<>> /\ got'[c] = nextId
        BY <1>1, <2>1, <2>8, <3>1, <4>1
      <4>3. DOMAIN saving' = {c}
        BY <2>1, <4>2, EmptySeq
      <4> QED
        BY <2>7, <2>8, <3>1, <4>2, <4>3
    <3>2. CASE e # c
      <4>1. got'[e] = got[e] /\ got[e] # 0 /\ e \notin DOMAIN saving
        BY <2>1, <2>8, <3>2
      <4>2. /\ Undoes(mem, e, got[e], Ahead)
            /\ \A d \in DOMAIN saving : Undoes(saving[d], e, got[e], Ahead)
        BY <2>8, <4>1 DEF Anchors
      <4>3. Undoes(mem', e, got[e], Ahead')
        BY <1>1, <2>1, <2>3, <2>4, <4>2, UndoesAfterNewRow
      <4>4. \A d \in DOMAIN saving : Undoes(saving[d], e, got[e], Ahead')
        BY <2>3, <2>4, <4>2, Finite, UndoesKept
      <4> QED
        BY <2>1, <3>2, <4>1, <4>3, <4>4
    <3> QED
      BY <3>1, <3>2
  <2>9. ASSUME Wide(mem), NEW e \in (hooked \cup ready \cup flight) \cap Edits, got'[e] # 0
        PROVE  Undoes(saving'[c], e, got'[e], Ahead')
    <3>1. Undoes(mem', e, got'[e], Ahead') /\ Wide(mem')
      BY <2>5, <2>8, <2>9 DEF Wide
    <3>2. saving'[c] = Cleaned(mem')
      BY <2>1
    <3> QED
      BY <2>4, <3>1, <3>2, UndoesCleaned
  <2>10. ASSUME NEW e \in Edits, e \in left \cup Values(queue) \cup Ahead'
         PROVE  got'[e] = 0
    <3>1. e # c
      BY <1>1, <2>3, <2>10 DEF IInv, TypeOK
    <3> QED
      BY <2>1, <2>3, <2>10, <3>1 DEF Anchors
  <2>11. Wide(mem') => Wide(mem)
    BY <2>5 DEF Wide
  <2> QED
    BY <2>1, <2>8, <2>9, <2>10, <2>11 DEF Anchors
<1> QED
  BY <1>2, <1>3 DEF Checkpoint

LEMMA AnchorsCheckpointEnds ==
  ASSUME IInv, Anchors, NEW c \in Edits, CheckpointEnds(c)
  PROVE  Anchors'
<1>1. /\ c \in DOMAIN saving /\ mem' \in {saving[c], Cleaned(mem)}
      /\ saving' = [d \in DOMAIN saving \ {c} |-> saving[d]]
      /\ hooked' = hooked \ {c} /\ ready' = ready \cup (hooked \cap {c})
      /\ UNCHANGED <<left, queue, flight, got>>
  BY DEF CheckpointEnds
<1>2. Ahead' = Ahead
  BY <1>1 DEF Ahead
<1>3. Phases(mem') = Phases(mem) /\ (Wide(mem') => Wide(mem))
  <2>1. Phases(Cleaned(mem)) = Phases(mem)
    BY GoodCleaned DEF IInv, Lists
  <2> QED
    BY <1>1, <2>1 DEF Wide, IInv, Lists
<1>4. ASSUME Wide(mem), NEW e \in (hooked \cup ready \cup flight) \cap Edits, got[e] # 0
      PROVE  /\ e \in DOMAIN saving' => DOMAIN saving' = {e}
             /\ Undoes(mem', e, got[e], Ahead)
             /\ \A d \in DOMAIN saving' : Undoes(saving'[d], e, got[e], Ahead)
  <2>1. /\ e \in DOMAIN saving => DOMAIN saving = {e}
        /\ Undoes(mem, e, got[e], Ahead)
        /\ \A d \in DOMAIN saving : Undoes(saving[d], e, got[e], Ahead)
    BY <1>4 DEF Anchors
  <2>2. Undoes(Cleaned(mem), e, got[e], Ahead)
    BY <1>4, <2>1, Finite, UndoesCleaned
  <2>3. e \notin DOMAIN saving'
    BY <1>1, <2>1
  <2> QED
    BY <1>1, <2>1, <2>2, <2>3
<1> QED
  BY <1>1, <1>2, <1>3, <1>4 DEF Anchors

\* Every step keeps the checkpoints of the edits that are under way.
LEMMA AnchorsStep ==
  ASSUME IInv, IInv', Anchors, [Next]_vars
  PROVE  Anchors'
<1>1. CASE Respond
  <2>1. PICK S \in SUBSET left : queue' \in Orders(S) /\ left' = left \ S
    BY <1>1 DEF Respond
  <2>2. Values(queue') = S
    BY <2>1, OrderedQueue DEF IInv, TypeOK
  <2>3. UNCHANGED <<hooked, saving, ready, flight, mem, got>>
    BY <1>1 DEF Respond, rows
  <2> QED
    BY <2>1, <2>2, <2>3, AnchorsKept
<1>2. CASE \E e \in Edits : RunEdit(e)
  <2>1. UNCHANGED <<left, queue, hooked, saving, ready, flight, mem, got>>
    BY <1>2 DEF RunEdit, agentVars, rows
  <2> QED
    BY <2>1, AnchorsKept
<1>3. CASE RunSave \/ RunRevert \/ UserReverts \/ UNCHANGED vars
  <2>1. UNCHANGED <<left, queue, hooked, saving, ready, flight, mem, got>>
    BY <1>3 DEF RunSave, RunRevert, UserReverts, vars, agentVars, rows
  <2> QED
    BY <2>1, AnchorsKept
<1>4. CASE Stop
  <2>1. /\ UNCHANGED <<left, saving, mem, got>> /\ queue' = <<>>
        /\ hooked' = {} /\ ready' = {} /\ flight' = {}
    BY <1>4 DEF Stop, rows
  <2> QED
    BY <2>1, NoCalls, AnchorsKept
<1>5. CASE Restart
  <2>1. /\ UNCHANGED left /\ queue' = <<>> /\ got' = [e \in Edits |-> 0]
        /\ hooked' = {} /\ ready' = {} /\ flight' = {}
    BY <1>5 DEF Restart
  <2> QED
    BY <2>1 DEF Anchors
<1>6. ASSUME NEW c \in Calls, Block(c) \/ Publish(c) \/ Observe(c) \/ TimesOut(c)
      PROVE  Anchors'
  <2>1. CASE Block(c)
    <3>1. /\ UNCHANGED <<left, queue, saving, flight, mem, got>>
          /\ hooked' = hooked \ {c} /\ ready' = ready \ {c}
      BY <2>1 DEF Block, rows
    <3> QED
      BY <3>1, AnchorsKept
  <2>2. CASE Publish(c)
    <3>1. /\ UNCHANGED <<left, queue, saving, mem, got>>
          /\ hooked' = hooked \ {c} /\ ready' = ready \ {c} /\ flight' = flight \cup {c}
          /\ c \in hooked \cup ready
      BY <2>2 DEF Publish, rows
    <3> QED
      BY <3>1, AnchorsKept
  <2>3. CASE Observe(c) \/ TimesOut(c)
    <3>1. /\ UNCHANGED <<left, hooked, saving, ready, mem, got>> /\ flight' = flight \ {c}
      BY <2>3 DEF Observe, TimesOut, rows
    <3>2. PICK ok \in BOOLEAN : AfterObservation(c, ok)
      BY <2>3 DEF Observe, TimesOut
    <3>3. Values(queue') \subseteq Values(queue)
      BY <3>2, ObservedQueue DEF IInv
    <3> QED
      BY <3>1, <3>3, AnchorsKept
  <2> QED
    BY <1>6, <2>1, <2>2, <2>3
<1> QED
  BY <1>1, <1>2, <1>3, <1>4, <1>5, <1>6, AnchorsTaken, AnchorsCheckpoint,
     AnchorsCheckpointEnds DEF Next

\* "automatically get a filesystem checkpoint right before they execute"
\* (RollbackMiddleware): the checkpoint reported for an edit is in the list, and holds the
\* files without the edit, while the edit is on its way -- whatever the other edits of the
\* batch add and clean up beside it, if the rows of the phases leave room for a batch.
THEOREM EditsCanBeUndone == Spec => []UndoAvailable
<1>1. Init => Anchors
  BY NoCalls DEF Init, Anchors, Ahead
<1>2. IInv /\ IInv' /\ Anchors /\ [Next]_vars => Anchors'
  BY AnchorsStep
<1>3. IInv /\ Anchors => UndoAvailable
  <2> SUFFICES ASSUME IInv, Anchors, Wide(mem), NEW e \in ready \cup (flight \cap Edits),
                      got[e] # 0
               PROVE  \E r \in mem : r.id = got[e] /\ \A f \in Files : e \notin r.snap[f]
    BY DEF UndoAvailable, Wide, Phases
  <2>1. e \in (hooked \cup ready \cup flight) \cap Edits
    BY DEF IInv, TypeOK
  <2>2. PICK r \in Lossy(mem) : r.id = got[e] /\ ~In(e, r.snap)
    BY <2>1 DEF Anchors, Undoes
  <2>3. r \in mem /\ r.snap \in Contents
    BY <2>2 DEF Lossy, IInv, Lists, Good, RowBefore
  <2> QED
    BY <2>2, <2>3 DEF In, Contents
<1> QED
  BY <1>1, <1>2, <1>3, AlwaysIInv, PTL DEF Spec

=============================================================================
