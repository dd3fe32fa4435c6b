----------------------------- MODULE Workspace -----------------------------
(***************************************************************************)
(* The files of the workspace, and the two parts that may undo an edit:    *)
(*   - FileEditTransactionCoordinator: adjacent edits of one model         *)
(*     response are rolled back together when one of them fails or times   *)
(*     out (before_action, after_observation);                             *)
(*   - RollbackManager: a checkpoint of the whole workspace before every   *)
(*     edit (RollbackMiddleware), on the model's demand (checkpoint tool)  *)
(*     and, without a snapshot, at the phases of a session.  The list of   *)
(*     one manager lives in memory; each save replaces the manifest.       *)
(*                                                                         *)
(* A file is the set of the edits whose effect it contains.  Edits run in  *)
(* the runtime, one after the other or, when they touch different files,   *)
(* side by side, and an edit that was given up may still be written.       *)
(*                                                                         *)
(* Abstracted: what an edit does to a text and why it fails; a snapshot    *)
(* and a restore of the shadow repository are one step each; one response  *)
(* is worked on at a time; a checkpoint call of the model does not outlive *)
(* the session.                                                            *)
(***************************************************************************)
EXTENDS Naturals, Sequences, FiniteSets, TLC

CONSTANTS
    Files,
    Edits,             \* the edit calls the model may make, each once
    Target,            \* [Edits -> Files]
    Save, Revert,      \* the model's calls of the checkpoint tool, each once
    MaxCheckpoints,    \* rows that a manager keeps
    MaxTroubles        \* bound: failing operations and other events (an event during
                       \* which an operation fails is one)

Calls == Edits \cup {Save, Revert}

ASSUME WorkspaceConstants ==
    /\ IsFiniteSet(Edits) /\ IsFiniteSet(Files)
    /\ Target \in [Edits -> Files]
    /\ {Save, Revert} \cap Edits = {}
    /\ {MaxCheckpoints, MaxTroubles} \subseteq Nat

NoTx   == [members |-> {}, done |-> {}, snaps |-> <<>>, missed |-> {}]
NoSnap == [f \in {} |-> {}]

VARIABLES
    fs,        \* [Files -> SUBSET Edits]
    left,      \* calls the model has not made yet
    queue,     \* agent.pending_actions
    hooked,    \* calls taken off the queue, in the middleware
    saving,    \* threads in create_checkpoint: [edit -> the list it has read]
    ready,     \* edits behind it, not yet published
    flight,    \* published, without an observation so far
    runtime,   \* published, not yet executed by the runtime
    inbox,     \* observations on their way: <<call, ok>>
    tx,        \* the transaction of the response, NoTx if there is none
    mem,       \* the middleware's list of checkpoints
    manifest,  \* the list on disk
    nextId,    \* time, as far as checkpoints are ordered by it
    got,       \* [Edits -> Nat], the checkpoint reported as available (0: none, or
               \* made while another one was)
    faults,    \* failed operations so far
    events,    \* timeouts, reverts by the user and restarts so far
    undone,    \* history: edits of transactions that were rolled back
    excused    \* history: those that the coordinator could not keep out

agentVars   == <<left, queue, hooked, saving, ready, flight>>
runtimeVars == <<runtime, inbox>>
rows        == <<mem, manifest, nextId, got>>
vars        == <<fs, left, queue, hooked, saving, ready, flight, runtime, inbox, tx,
                 mem, manifest, nextId, got, faults, events, undone, excused>>

Values(q) == {q[i] : i \in 1 .. Len(q)}

Contents == [Files -> SUBSET Edits]

IsRow(r) == /\ r.id \in Nat \ {0} /\ r.id < nextId
            /\ r.kind \in {"before_risky", "manual", "phase_boundary"}
            /\ IF r.kind = "phase_boundary" THEN r.snap = NoSnap ELSE r.snap \in Contents

Lossy(list) == {r \in list : r.kind # "phase_boundary"}

\* What the rows of the phases leave of the maximum.
Room(list) == LET taken == Cardinality(list \ Lossy(list))
              IN  IF taken < MaxCheckpoints THEN MaxCheckpoints - taken ELSE 0

TypeOK ==
    /\ fs \in Contents
    /\ left \subseteq Calls
    /\ Values(queue) \subseteq Calls \ left
    /\ hooked \subseteq Calls \ left /\ ready \subseteq Edits \ left
    /\ flight \subseteq Calls \ left /\ runtime \subseteq Calls \ left
    /\ DOMAIN saving \subseteq Edits \ left
    /\ hooked \cap ready = {} /\ (hooked \cup ready) \cap (flight \cup runtime) = {}
    /\ Values(queue) \cap (hooked \cup ready \cup flight \cup runtime) = {}
    /\ inbox \subseteq flight \X BOOLEAN
    /\ tx.done \subseteq tx.members /\ tx.members \subseteq Edits
    /\ \A r \in mem \cup manifest : IsRow(r)
    /\ Cardinality(Lossy(mem)) <= Room(mem) + Cardinality(DOMAIN saving)
    /\ got \in [Edits -> 0 .. nextId - 1]
    /\ faults \in 0 .. MaxTroubles /\ events \in 0 .. MaxTroubles
    /\ undone \subseteq Edits /\ excused \subseteq Edits

Fault   == faults + events < MaxTroubles /\ faults' = faults + 1
NoFault == UNCHANGED faults
Counted == faults + events < MaxTroubles /\ events' = events + 1

-----------------------------------------------------------------------------
(* RollbackManager: the list of one manager *)

\* Mutant: no clean-up.
Cleaned_Never(list) == list

\* Mutant: the newest are evicted.
Cleaned_KeepsOldest(list) ==
    {r \in list : r \in Lossy(list) =>
        Cardinality({q \in Lossy(list) : q.id < r.id}) < Room(list)}

\* _cleanup_old_checkpoints: rows of a phase take room but stay; of the others the
\* oldest go.
Cleaned(list) ==
    {r \in list : r \in Lossy(list) =>
        Cardinality({q \in Lossy(list) : q.id > r.id}) < Room(list)}

Row(kind, snap) == [id |-> nextId, kind |-> kind, snap |-> snap]

\* A save of the manifest: with the new list, or it fails, which is only logged.
Saved(list) ==
    \/ manifest' = list /\ NoFault
    \/ UNCHANGED manifest /\ Fault

Init ==
    /\ fs = [f \in Files |-> {}]
    /\ left = Calls
    /\ queue = <<>>
    /\ hooked = {} /\ saving = <<>> /\ ready = {} /\ flight = {}
    /\ runtime = {} /\ inbox = {}
    /\ tx = NoTx
    /\ mem = {[id |-> 1, kind |-> "phase_boundary", snap |-> NoSnap]}
    /\ manifest = mem
    /\ nextId = 2
    /\ got = [e \in Edits |-> 0]
    /\ faults = 0 /\ events = 0
    /\ undone = {} /\ excused = {}

\* _try_shadow_rollback: the files become what the row's snapshot holds.  An error of
\* the shadow repository leaves some of them as they were, and is answered with False.
RollbackTo(r, ok) ==
    \/ /\ r.snap = NoSnap /\ ~ok
       /\ UNCHANGED <<fs, excused>> /\ NoFault
    \/ /\ r.snap # NoSnap
       /\ \/ ok /\ fs' = r.snap /\ NoFault
          \/ /\ ~ok /\ Fault
             /\ \E F \in SUBSET Files :
                  fs' = [f \in Files |-> IF f \in F THEN r.snap[f] ELSE fs[f]]
       /\ excused' = excused \cup (undone \cap UNION {r.snap[f] : f \in Files})

-----------------------------------------------------------------------------
(* The agent: a response, and the calls taken off the queue *)

Settled == hooked = {} /\ ready = {} /\ flight = {}

Orders(S) == {q \in [1 .. Cardinality(S) -> S] : Values(q) = S}

Respond ==
    /\ Settled /\ queue = <<>>
    /\ \E S \in (SUBSET left) \ {{}} : queue' \in Orders(S) /\ left' = left \ S
    /\ tx' = NoTx
    /\ UNCHANGED <<fs, hooked, saving, ready, flight, runtimeVars, rows, faults, events,
                   undone, excused>>

TakeOne ==
    /\ Settled /\ queue # <<>>
    /\ hooked' = {Head(queue)}
    /\ queue' = Tail(queue)
    /\ UNCHANGED <<fs, left, saving, ready, flight, runtimeVars, tx, rows, faults,
                   events, undone, excused>>

\* decide_parallel_batch: nothing but edits, of different files; what was taken before them
\* (an edit, or a thought, which is not modelled) has left nothing outstanding.
TakeBatch ==
    /\ Settled /\ Len(queue) >= 2
    /\ Values(queue) \subseteq Edits
    /\ \A e, d \in Values(queue) : e # d => Target[e] # Target[d]
    /\ hooked' = Values(queue)
    /\ queue' = <<>>
    /\ UNCHANGED <<fs, left, saving, ready, flight, runtimeVars, tx, rows, faults,
                   events, undone, excused>>

\* RollbackMiddleware.execute: create_checkpoint in a thread of its own, up to the save
\* that comes before the clean-up.  If the snapshot fails the edit goes on without.
Checkpoint(e) ==
    /\ e \in hooked /\ e \notin DOMAIN saving
    /\ \/ LET row   == Row("before_risky", fs)
              alone == saving = <<>>
          IN  /\ mem' = mem \cup {row}
              /\ saving' = [d \in DOMAIN saving \cup {e} |->
                             IF d = e THEN Cleaned(mem') ELSE saving[d]]
              /\ got' = [d \in Edits |-> IF d = e /\ alone THEN nextId
                                       ELSE IF d \in DOMAIN saving THEN 0 ELSE got[d]]
              /\ nextId' = nextId + 1
              /\ Saved(mem')
              /\ UNCHANGED <<hooked, ready>>
       \/ /\ hooked' = hooked \ {e} /\ ready' = ready \cup {e} /\ Fault
          /\ UNCHANGED <<saving, rows>>
    /\ UNCHANGED <<fs, left, queue, flight, runtimeVars, tx, events, undone, excused>>

\* The clean-up, which saves only if it evicts a row; with two threads in it, what one
\* has read may replace what the other has added since, on disk as well.
CheckpointEnds(e) ==
    /\ e \in DOMAIN saving
    /\ mem' \in {saving[e], Cleaned(mem)}
    /\ \/ mem' = mem /\ UNCHANGED manifest /\ NoFault
       \/ \E list \in {saving[e], mem'} : Saved(list)
    /\ saving' = [d \in DOMAIN saving \ {e} |-> saving[d]]
    /\ hooked' = hooked \ {e}
    /\ ready' = ready \cup (hooked \cap {e})
    /\ UNCHANGED <<fs, left, queue, flight, runtimeVars, tx, nextId, got, events,
                   undone, excused>>

\* A middleware before or behind the checkpoint blocks the call: an error observation
\* that no transaction hears of.
Block(c) ==
    /\ c \in (hooked \ DOMAIN saving) \cup ready
    /\ hooked' = hooked \ {c}
    /\ ready' = ready \ {c}
    /\ UNCHANGED <<fs, left, queue, saving, flight, runtimeVars, tx, rows, faults,
                   events, undone, excused>>

-----------------------------------------------------------------------------
(* FileEditTransactionCoordinator.before_action, and publication *)

\* The edit and those that follow it in the queue without a gap.
Group(e) == {e} \cup {queue[i] : i \in {j \in 1 .. Len(queue) :
                                          \A k \in 1 .. j : queue[k] \in Edits}}

Targets(E) == {Target[e] : e \in E}

\* The files of `wanted` that are not snapshotted yet; those that cannot be read are
\* passed over, and without any snapshot there is no transaction.
Snapshotted(base, wanted) ==
    LET new == wanted \ DOMAIN base.snaps
    IN  \E unread \in SUBSET new :
          /\ IF unread = {} THEN NoFault ELSE Fault
          /\ tx' = IF base.snaps = <<>> /\ unread = new THEN NoTx
                   ELSE [base EXCEPT
                           !.snaps = [f \in DOMAIN @ \cup (new \ unread) |->
                                        IF f \in DOMAIN @ THEN @[f] ELSE fs[f]],
                           !.missed = @ \cup unread]

BeforeAction(e) ==
    \/ /\ tx # NoTx
       /\ Snapshotted([tx EXCEPT !.members = @ \cup {e}], {Target[e]})
    \/ /\ tx = NoTx /\ Cardinality(Group(e)) >= 2
       /\ Snapshotted([NoTx EXCEPT !.members = Group(e)], Targets(Group(e)))
    \/ /\ tx = NoTx /\ Cardinality(Group(e)) < 2
       /\ UNCHANGED tx /\ NoFault

Publish(c) ==
    /\ \/ c \in ready /\ BeforeAction(c)
       \/ c \in hooked \ Edits /\ UNCHANGED tx /\ NoFault
    /\ hooked' = hooked \ {c}
    /\ ready' = ready \ {c}
    /\ flight' = flight \cup {c}
    /\ runtime' = runtime \cup {c}
    /\ UNCHANGED <<fs, left, queue, saving, inbox, rows, events, undone, excused>>

-----------------------------------------------------------------------------
(* The runtime *)

\* The observation of a call that was given up finds nobody waiting.
Answers(c, ok) ==
    /\ runtime' = runtime \ {c}
    /\ inbox' = IF c \in flight THEN inbox \cup {<<c, ok>>} ELSE inbox

RunEdit(e) ==
    /\ e \in runtime
    /\ \/ fs' = [fs EXCEPT ![Target[e]] = @ \cup {e}] /\ Answers(e, TRUE)
       \/ UNCHANGED fs /\ Answers(e, FALSE)
    /\ UNCHANGED <<agentVars, tx, rows, faults, events, undone, excused>>

\* checkpoint(save) works on a manager of its own, loaded from the manifest.  Without a
\* label, for a label it has just used, or if the snapshot fails it makes no row.  No
\* transaction reads the answer.
RunSave ==
    /\ Save \in runtime
    /\ \/ Saved(Cleaned(manifest \cup {Row("manual", fs)})) /\ nextId' = nextId + 1
       \/ UNCHANGED <<manifest, nextId>> /\ NoFault
    /\ Answers(Save, TRUE)
    /\ UNCHANGED <<fs, agentVars, tx, mem, got, events, undone, excused>>

\* checkpoint(revert), to any row of the manifest; it fails on a row of a phase.
RunRevert ==
    /\ Revert \in runtime
    /\ \E r \in manifest, ok \in BOOLEAN : RollbackTo(r, ok) /\ Answers(Revert, ok)
    /\ UNCHANGED <<agentVars, tx, rows, events, undone>>

-----------------------------------------------------------------------------
(* FileEditTransactionCoordinator.after_observation *)

\* The queue q without the calls that are gone, in its order (no call is in it twice).
Without(q, gone) ==
    {s \in Orders(Values(q) \ gone) : \A i, j \in DOMAIN s : i < j =>
        \E k, l \in DOMAIN q : k < l /\ s[i] = q[k] /\ s[j] = q[l]}

\* Mutant: the edits that are still queued stay there.
Dropped_None(e) == {}

\* _drop_remaining_queued_edits: the members that no observation has completed.
Dropped(e) == tx.members \ (tx.done \cup {e})

\* The snapshots are written back, save files that cannot be; what is dropped leaves
\* the queue.  Members in other hands than the queue's are out of reach: they are in
\* the middleware, or in the runtime.
Undo(e) ==
    \E stuck \in SUBSET DOMAIN tx.snaps :
      /\ IF stuck = {} THEN NoFault ELSE Fault
      /\ fs' = [f \in Files |-> IF f \in DOMAIN tx.snaps \ stuck THEN tx.snaps[f] ELSE fs[f]]
      /\ queue' \in Without(queue, Dropped(e))
      /\ undone' = undone \cup tx.members
      /\ excused' = excused \cup {m \in tx.members :
                       \/ m \in hooked \cup ready \cup runtime
                       \/ Target[m] \in stuck \cup tx.missed}
      /\ tx' = NoTx

AfterObservation(c, ok) ==
    \/ /\ c \notin Edits \/ tx = NoTx
       /\ UNCHANGED <<fs, queue, tx, undone, excused>> /\ NoFault
    \/ /\ c \in Edits /\ tx # NoTx /\ ok
       /\ tx' = IF tx.members \subseteq tx.done \cup {c} THEN NoTx
                ELSE [tx EXCEPT !.done = @ \cup {c}]
       /\ UNCHANGED <<fs, queue, undone, excused>> /\ NoFault
    \/ c \in Edits /\ tx # NoTx /\ ~ok /\ Undo(c)

Observe(c) ==
    /\ \E ok \in BOOLEAN :
         /\ <<c, ok>> \in inbox
         /\ inbox' = inbox \ {<<c, ok>>}
         /\ AfterObservation(c, ok)
    /\ flight' = flight \ {c}
    /\ UNCHANGED <<left, hooked, saving, ready, runtime, rows, events>>

\* The pending action times out, or the runtime gives the call up: for the coordinator it
\* has failed, and the thread that executes it goes on.
TimesOut(c) ==
    /\ c \in flight
    /\ Counted
    /\ AfterObservation(c, FALSE)
    /\ flight' = flight \ {c}
    /\ inbox' = {o \in inbox : o[1] # c}
    /\ UNCHANGED <<left, hooked, saving, ready, runtime, rows>>

-----------------------------------------------------------------------------
(* The user and the process *)

\* stop(): the step is cancelled, _reset clears the queue and the pending actions; what
\* the runtime has, it does, and a checkpoint in its thread is made.
Stop ==
    /\ ~Settled \/ queue # <<>>
    /\ queue' = <<>> /\ hooked' = {} /\ ready' = {} /\ flight' = {} /\ inbox' = {}
    /\ UNCHANGED <<fs, left, saving, runtime, tx, rows, faults, events, undone,
                   excused>>

\* /checkpoint revert, at any moment, to a row of the middleware's manager.
UserReverts ==
    /\ Counted
    /\ \E r \in mem, ok \in BOOLEAN : RollbackTo(r, ok)
    /\ UNCHANGED <<agentVars, runtimeVars, tx, rows, undone>>

\* A clean end leaves one more row of a phase, a kill does not; the next process loads
\* the manifest and adds the row of its beginning.
Restart ==
    /\ Counted
    /\ \E last \in {{}, {Row("phase_boundary", NoSnap)}} :
         LET old == IF last = {} THEN manifest ELSE Cleaned(mem \cup last)
             row == [id |-> nextId + 1, kind |-> "phase_boundary", snap |-> NoSnap]
         IN  mem' = Cleaned(old \cup {row})
    /\ manifest' = mem'
    /\ nextId' = nextId + 2
    /\ queue' = <<>> /\ hooked' = {} /\ saving' = <<>> /\ ready' = {} /\ flight' = {}
    /\ runtime' = {} /\ inbox' = {} /\ tx' = NoTx
    /\ got' = [e \in Edits |-> 0]
    /\ UNCHANGED <<fs, left, faults, undone, excused>>

Next ==
    \/ Respond \/ TakeOne \/ TakeBatch
    \/ \E e \in Edits : Checkpoint(e) \/ CheckpointEnds(e) \/ RunEdit(e)
    \/ \E c \in Calls : Block(c) \/ Publish(c) \/ Observe(c) \/ TimesOut(c)
    \/ RunSave \/ RunRevert
    \/ Stop \/ UserReverts \/ Restart

Spec == Init /\ [][Next]_vars

-----------------------------------------------------------------------------
(* Properties *)

\* An edit of a transaction that was rolled back is in no file, whatever else happens
\* on the way and afterwards: siblings that were done, queued or blocked, snapshots of
\* files that two members share, retries of the same files, reverts to checkpoints.
\* (Except where the coordinator has no hold: on an edit that was in the runtime or in
\* the middleware at that moment, on a file it could not read or write back, and on what
\* a later revert brings back from the midst of the transaction.)
EditsAllOrNothing == \A e \in undone \ excused : \A f \in Files : e \notin fs[f]

\* "automatically get a filesystem checkpoint right before they execute": while an edit
\* is on its way, the checkpoint that was reported for it is in the list, and reverting
\* to it removes the edit -- as long as the rows of the phases, which are never evicted,
\* leave room for one batch of edits (no two of the same file).
UndoAvailable ==
    Cardinality(mem \ Lossy(mem)) + Cardinality(Files) <= MaxCheckpoints =>
      \A e \in ready \cup (flight \cap Edits) : got[e] # 0 =>
        \E r \in mem : r.id = got[e] /\ \A f \in Files : e \notin r.snap[f]

\* "so a later stale anchor does not leave earlier edits committed": with nothing under
\* way, no edit of a group that was rolled back is in the files, unless somebody asked for
\* a checkpoint back (the model with its call, the user in an event).
RolledBackIsGone ==
    Settled /\ queue = <<>> /\ runtime = {} /\ Revert \in left /\ events = 0 =>
      \A e \in undone, f \in Files : e \notin fs[f]
=============================================================================
