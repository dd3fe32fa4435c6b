--------------------------- MODULE EventDelivery ---------------------------
(***************************************************************************)
(* How EventStream gets an event from add_event to its subscribers when    *)
(* delivery is queued (worker_count > 0):                                  *)
(*   - callers of add_event: threads of the application, and the threads   *)
(*     of the delivery pool, because a subscriber may add an event from    *)
(*     inside its callback;                                                *)
(*   - the queue loop, a thread of its own that runs the enqueue           *)
(*     coroutines with their backpressure policy, the worker tasks and, at *)
(*     the end, the shutdown coroutine;                                    *)
(*   - the delivery pool, which runs the callbacks.                        *)
(*                                                                         *)
(* An event is its id.  It is critical (a control event, an action to be   *)
(* executed, the observation of one), plain, or a message of the user.     *)
(* The asyncio queue is modelled with its waiting putters: a put that was  *)
(* woken takes the slot only when it runs, and starts to wait again, at    *)
(* the end, if the slot is gone by then.  Coalescing is off (no event type *)
(* is eligible for it) and subscribers do not change before close.         *)
(***************************************************************************)
EXTENDS Integers, Sequences, FiniteSets, SequencesExt

CONSTANTS
    Producers,    \* application threads that call add_event
    Workers,      \* worker tasks of the queue loop
    Pool,         \* threads of the delivery pool, as many as workers
    Subscribers,  \* in the order they subscribed, each once: a sequence
    Replying,     \* those whose callback may call add_event itself
    Closer,       \* the shutdown coroutine, when it dispatches an event
    NoOne,
    QueueCap,     \* max_queue_size
    Policies,     \* drop policies: drop_oldest, drop_newest, block
    MaxEvents,    \* bound: events added
    MaxStalls     \* bound: times the queue loop keeps a caller waiting for five seconds

ASSUME DeliveryConstants ==
    /\ Workers # {} /\ Closer \notin Workers /\ NoOne \notin Producers \cup Pool
    /\ Producers \cap Pool = {}
    /\ IsFiniteSet(Workers) /\ IsFiniteSet(Pool) /\ Cardinality(Pool) = Cardinality(Workers)
    /\ Subscribers \in Seq(Range(Subscribers)) /\ IsInjective(Subscribers)
    /\ Policies \subseteq {"drop_oldest", "drop_newest", "block"} /\ Policies # {}
    /\ QueueCap \in Nat \ {0} /\ MaxEvents \in Nat /\ MaxStalls \in Nat

VARIABLES
    policy,    \* drop_policy
    nextId,    \* _cur_id, of the events of this run
    kind,      \* event -> critical or plain
    call,      \* per caller of add_event: where it is, the event, subscribers left (inline)
    enq,       \* event -> where its enqueue coroutine is, or how it ended
    putters,   \* events whose put waits for a place, in order
    queue,     \* _async_queue
    worker,    \* per dispatcher: the event it is dispatching, or that it is idle or gone
    jobs,      \* callbacks submitted to the pool and not started
    pool,      \* per pool thread: the callback it runs, if any
    phase,     \* open, closing, draining, ending, closed
    late,      \* the shutdown coroutine's two seconds are over
    stalls,    \* callers kept waiting so far
    got,       \* history, per subscriber: events its callback was called with, in order
    entered,   \* history: events in the order they entered the queue
    stalled    \* history: events whose caller gave up waiting for the queue loop

callers == <<nextId, kind, call>>
loop    == <<enq, putters, queue, entered>>
pools   == <<jobs, pool, got>>
closing == <<phase, late>>
vars    == <<policy, nextId, kind, call, enq, putters, queue, worker, jobs, pool,
             phase, late, stalls, got, entered, stalled>>

Events      == 1 .. MaxEvents
Callers     == Producers \cup Pool
Dispatchers == Workers \cup {Closer}
Subs        == Range(Subscribers)
Job         == [ev : Events, sub : Subs, by : Dispatchers]
NoJob       == [ev |-> 0, sub |-> NoOne, by |-> NoOne]
Idle        == 0                       \* a dispatcher without an event
Gone        == -1                      \* a worker that has ended
NoCall      == [pc |-> "idle", ev |-> 0, left |-> <<>>]
Dropped     == {"refused", "lapsed", "evicted"}
EnqPc       == {"none", "new", "put", "woken", "entered"} \cup Dropped

TypeOK ==
    /\ policy \in Policies
    /\ nextId \in 1 .. MaxEvents + 1
    /\ kind \in [Events -> {"none", "user", "plain", "critical"}]
    /\ call \in [Callers -> [pc : {"idle", "sent", "inline"},
                             ev : 0 .. MaxEvents, left : Seq(Subs)]]
    /\ enq \in [Events -> EnqPc]
    /\ putters \in Seq(Events)
    /\ queue \in Seq(Events) /\ Len(queue) <= QueueCap
    /\ worker \in [Dispatchers -> Events \cup {Idle, Gone}]
    /\ jobs \in Seq(Job)
    /\ pool \in [Pool -> Job \cup {NoJob}]
    /\ phase \in {"open", "closing", "draining", "ending", "closed"}
    /\ late \in BOOLEAN
    /\ stalls \in 0 .. MaxStalls
    /\ got \in [Subs -> Seq(Events)]
    /\ entered \in Seq(Events)
    /\ stalled \in SUBSET Events

Init ==
    /\ policy \in Policies
    /\ nextId = 1
    /\ kind = [e \in Events |-> "none"]
    /\ call = [c \in Callers |-> NoCall]
    /\ enq = [e \in Events |-> "none"]
    /\ putters = <<>> /\ queue = <<>>
    /\ worker = [w \in Dispatchers |-> Idle]
    /\ jobs = <<>>
    /\ pool = [t \in Pool |-> NoJob]
    /\ phase = "open" /\ late = FALSE
    /\ stalls = 0
    /\ got = [s \in Subs |-> <<>>]
    /\ entered = <<>>
    /\ stalled = {}

-----------------------------------------------------------------------------
(* add_event *)

\* A pool thread calls add_event only from inside the callback of a replying
\* subscriber; a producer whenever it likes.
MayCall(c) ==
    /\ call[c].pc = "idle"
    /\ c \in Pool => pool[c] # NoJob /\ pool[c].sub \in Replying

\* _dispatch_event_inline: to a snapshot of the subscribers, one by one, if there are any.
Inline(e) == IF Subscribers = <<>> THEN NoCall
             ELSE [pc |-> "inline", ev |-> e, left |-> Subscribers]

\* The event gets an id and is persisted; once close() has raised the stop flag events
\* are dropped at the door.  Events of the user are delivered inline, on the caller's own
\* thread; the others through run_coroutine_threadsafe, and the caller waits.
\* What answers an action is critical.
AddEvent(c, k) ==
    /\ MayCall(c)
    /\ phase = "open"
    /\ nextId \in Events
    /\ c \in Pool => k = "critical"
    /\ kind' = [kind EXCEPT ![nextId] = k]
    /\ nextId' = nextId + 1
    /\ IF k = "user"
       THEN call' = [call EXCEPT ![c] = Inline(nextId)] /\ UNCHANGED enq
       ELSE /\ call' = [call EXCEPT ![c] = [pc |-> "sent", ev |-> nextId, left |-> <<>>]]
            /\ enq' = [enq EXCEPT ![nextId] = "new"]
    /\ UNCHANGED <<policy, putters, queue, entered, worker, pools, closing, stalls, stalled>>

\* After five seconds the caller gives up on the future, not on the event: it is
\* delivered inline unless the stream is closed, and the coroutine goes on if the loop still runs.
CallerGivesUp(c) ==
    /\ call[c].pc = "sent"
    /\ \/ phase \in {"ending", "closed"} /\ UNCHANGED stalls
       \/ phase \notin {"ending", "closed"} /\ stalls < MaxStalls /\ stalls' = stalls + 1
    /\ stalled' = stalled \cup {call[c].ev}
    /\ call' = [call EXCEPT ![c] = IF phase = "open" THEN Inline(call[c].ev) ELSE NoCall]
    /\ UNCHANGED <<policy, nextId, kind, loop, worker, pools, closing>>

\* A subscriber's callback is called; the coroutine of an asynchronous one is handed to
\* the main loop and waited for by nobody.
Called(s, e) == got' = [got EXCEPT ![s] = Append(@, e)]

InlineNext(c) ==
    /\ call[c].pc = "inline"
    /\ LET left == call[c].left IN
       /\ Called(Head(left), call[c].ev)
       /\ call' = [call EXCEPT ![c] = IF Len(left) = 1 THEN NoCall
                                      ELSE [@ EXCEPT !.left = Tail(left)]]
    /\ UNCHANGED <<policy, nextId, kind, loop, worker, jobs, pool, closing, stalls, stalled>>

-----------------------------------------------------------------------------
(* The asyncio queue and BackpressureManager.enqueue_event, on the queue loop *)

LoopRuns == phase \in {"open", "closing", "draining"}

\* Mutant: one place too many.
Full_Late == Len(queue) > QueueCap

Full == Len(queue) >= QueueCap

\* The coroutine of e is over, and so is the wait of the caller if it still waits.
Returned(e) ==
    [c \in Callers |-> IF call[c].pc = "sent" /\ call[c].ev = e THEN NoCall ELSE call[c]]

\* The put of e goes through; e0 is enq with what else the step changed.
Enter(e, e0, q) ==
    /\ queue' = Append(q, e)
    /\ enq' = [e0 EXCEPT ![e] = "entered"]
    /\ entered' = Append(entered, e)
    /\ call' = Returned(e)

\* queue.get wakes the first waiting put.
Woken(e0) == IF putters = <<>> THEN e0 ELSE [e0 EXCEPT ![Head(putters)] = "woken"]
Wake      == putters' = IF putters = <<>> THEN <<>> ELSE Tail(putters)

Wait(e) ==
    /\ enq' = [enq EXCEPT ![e] = "put"]
    /\ putters' = Append(putters, e)
    /\ UNCHANGED <<queue, entered, call>>

\* A plain event that finds the queue full is handled by the drop policy:
\* _try_drop_oldest_and_put takes the first event off, whatever it is.
DropOldest(e) ==
    /\ policy = "drop_oldest"
    /\ Enter(e, Woken([enq EXCEPT ![Head(queue)] = "evicted"]), Tail(queue))
    /\ Wake

DropNewest(e) ==
    /\ policy = "drop_newest"
    /\ enq' = [enq EXCEPT ![e] = "refused"]
    /\ call' = Returned(e)
    /\ UNCHANGED <<putters, queue, entered>>

\* The coroutine's first run.
Enqueue(e) ==
    /\ LoopRuns
    /\ enq[e] = "new"
    /\ IF ~Full THEN Enter(e, enq, queue) /\ UNCHANGED putters
       ELSE \/ kind[e] = "plain" /\ DropOldest(e)
            \/ kind[e] = "plain" /\ DropNewest(e)
            \/ (kind[e] = "critical" \/ policy = "block") /\ Wait(e)
    /\ UNCHANGED <<policy, nextId, kind, worker, pools, closing, stalls, stalled>>

\* A put that was woken: the slot is there, or somebody was faster.
Resume(e) ==
    /\ LoopRuns
    /\ enq[e] = "woken"
    /\ IF Full THEN Wait(e) ELSE Enter(e, enq, queue) /\ UNCHANGED putters
    /\ UNCHANGED <<policy, nextId, kind, worker, pools, closing, stalls, stalled>>

\* The elements of q at the places K, in their order.
Kept(q, K) ==
    [j \in 1 .. Cardinality(K) |->
        q[CHOOSE k \in K : Cardinality({i \in K : i <= k}) = j]]

Without(q, e) == Kept(q, {k \in DOMAIN q : q[k] # e})

\* Mutant: only plain events have a timeout.
PutTimesOut_PlainOnly(e) ==
    /\ LoopRuns
    /\ enq[e] \in {"put", "woken"} /\ kind[e] = "plain"
    /\ enq' = [enq EXCEPT ![e] = "refused"]
    /\ putters' = Without(putters, e)
    /\ call' = Returned(e)
    /\ UNCHANGED <<policy, nextId, kind, queue, entered, worker, pools, closing, stalls, stalled>>

\* wait_for gives up: the event is dropped and counted; a wake-up it can no longer
\* use goes to the next put.
PutTimesOut(e) ==
    /\ LoopRuns
    /\ enq[e] \in {"put", "woken"}
    /\ LET fate == IF kind[e] = "critical" THEN "lapsed" ELSE "refused"
           e0   == [enq EXCEPT ![e] = fate] IN
       IF enq[e] = "woken" /\ ~Full
       THEN enq' = Woken(e0) /\ Wake
       ELSE enq' = e0 /\ putters' = Without(putters, e)
    /\ call' = Returned(e)
    /\ UNCHANGED <<policy, nextId, kind, queue, entered, worker, pools, closing, stalls, stalled>>

-----------------------------------------------------------------------------
(* _worker_loop, _dispatch_event *)

\* A job per subscriber, submitted to the pool in one go.
JobsOf(w, e) == [k \in 1 .. Len(Subscribers) |-> [ev |-> e, sub |-> Subscribers[k], by |-> w]]

\* Mutant: a failing get ends in `continue' without the event.
TakeEvent_Forgets(w) ==
    /\ worker[w] = Idle /\ queue # <<>> /\ LoopRuns
    /\ queue' = Tail(queue)
    /\ enq' = Woken(enq) /\ Wake
    /\ UNCHANGED <<policy, callers, entered, worker, pools, closing, stalls, stalled>>

\* Mutant: a worker does not wait for the callbacks of its last event, and those of the
\* next one go first.
TakeEvent_NoGather(w) ==
    /\ worker[w] # Gone /\ queue # <<>> /\ LoopRuns
    /\ queue' = Tail(queue)
    /\ enq' = Woken(enq) /\ Wake
    /\ IF phase = "open"
       THEN /\ worker' = [worker EXCEPT ![w] = Head(queue)]
            /\ jobs' = JobsOf(w, Head(queue)) \o jobs
       ELSE UNCHANGED <<worker, jobs>>
    /\ UNCHANGED <<policy, callers, entered, pool, got, closing, stalls, stalled>>

\* Once the stop flag is up the worker keeps taking events, and drops them.
TakeEvent(w) ==
    /\ worker[w] = Idle /\ queue # <<>> /\ LoopRuns
    /\ queue' = Tail(queue)
    /\ enq' = Woken(enq) /\ Wake
    /\ IF phase = "open"
       THEN /\ worker' = [worker EXCEPT ![w] = Head(queue)]
            /\ jobs' = jobs \o JobsOf(w, Head(queue))
       ELSE UNCHANGED <<worker, jobs>>
    /\ UNCHANGED <<policy, callers, entered, pool, got, closing, stalls, stalled>>

\* gather: every callback of the event has returned.  What asynchronous callbacks
\* started on the main loop is not waited for: the results are concurrent futures,
\* and the code looks for asyncio ones.
Finished(w) == /\ \A k \in DOMAIN jobs : jobs[k].by # w
               /\ \A t \in Pool : pool[t].by # w

DispatchDone(w) ==
    /\ worker[w] \in Events /\ LoopRuns
    /\ Finished(w)
    /\ worker' = [worker EXCEPT ![w] = Idle]
    /\ UNCHANGED <<policy, callers, loop, pools, closing, stalls, stalled>>

-----------------------------------------------------------------------------
(* The delivery pool and the main loop *)

StartJob(t) ==
    /\ pool[t] = NoJob /\ jobs # <<>>
    /\ pool' = [pool EXCEPT ![t] = Head(jobs)]
    /\ jobs' = Tail(jobs)
    /\ Called(Head(jobs).sub, Head(jobs).ev)
    /\ UNCHANGED <<policy, callers, loop, worker, closing, stalls, stalled>>

EndJob(t) ==
    /\ pool[t] # NoJob /\ call[t].pc = "idle"
    /\ pool' = [pool EXCEPT ![t] = NoJob]
    /\ UNCHANGED <<policy, callers, loop, worker, jobs, got, closing, stalls, stalled>>

-----------------------------------------------------------------------------
(* close() and _initiate_shutdown *)

\* _closed, then the stop flag.
CloseBegin ==
    /\ phase = "open"
    /\ phase' = "closing"
    /\ UNCHANGED <<policy, callers, loop, worker, pools, late, stalls, stalled>>

\* Jobs of a dispatcher that is cancelled, started ones excepted.
Cancelled(ws) == Kept(jobs, {k \in DOMAIN jobs : jobs[k].by \notin ws})

\* Mutant: what the cancelled workers were dispatching is put back for the drain.
ShutdownBegin_Requeues ==
    /\ phase = "closing"
    /\ phase' = "draining"
    /\ worker' = [w \in Dispatchers |-> IF w \in Workers THEN Gone ELSE Idle]
    /\ jobs' = Cancelled(Workers)
    /\ queue' = SetToSeq({worker[w] : w \in Workers} \cap Events) \o queue
    /\ UNCHANGED <<policy, callers, enq, putters, entered, pool, got, late, stalls, stalled>>

\* The shutdown coroutine starts: the workers are cancelled, and with them the
\* callbacks that have not started.
ShutdownBegin ==
    /\ phase = "closing"
    /\ phase' = "draining"
    /\ worker' = [w \in Dispatchers |-> IF w \in Workers THEN Gone ELSE Idle]
    /\ jobs' = Cancelled(Workers)
    /\ UNCHANGED <<policy, callers, loop, pool, got, late, stalls, stalled>>

\* Mutant: past its deadline the drain takes nothing any more.
DrainTake_StopsLate ==
    /\ phase = "draining" /\ worker[Closer] = Idle /\ queue # <<>> /\ ~late
    /\ queue' = Tail(queue)
    /\ enq' = Woken(enq) /\ Wake
    /\ worker' = [worker EXCEPT ![Closer] = Head(queue)]
    /\ jobs' = jobs \o JobsOf(Closer, Head(queue))
    /\ UNCHANGED <<policy, callers, entered, pool, got, closing, stalls, stalled>>

\* get_nowait, and a dispatch as long as the deadline allows.
DrainTake ==
    /\ phase = "draining" /\ worker[Closer] = Idle /\ queue # <<>>
    /\ queue' = Tail(queue)
    /\ enq' = Woken(enq) /\ Wake
    /\ IF late
       THEN UNCHANGED <<worker, jobs>>
       ELSE /\ worker' = [worker EXCEPT ![Closer] = Head(queue)]
            /\ jobs' = jobs \o JobsOf(Closer, Head(queue))
    /\ UNCHANGED <<policy, callers, entered, pool, got, closing, stalls, stalled>>

\* The deadline passes while it dispatches.
DrainTimesOut ==
    /\ phase = "draining" /\ worker[Closer] # Idle
    /\ late' = TRUE
    /\ worker' = [worker EXCEPT ![Closer] = Idle]
    /\ jobs' = Cancelled({Closer})
    /\ UNCHANGED <<policy, callers, loop, pool, got, phase, stalls, stalled>>

\* The queue is empty: the stop event ends the loop.
DrainEnd ==
    /\ phase = "draining" /\ worker[Closer] = Idle /\ queue = <<>>
    /\ phase' = "ending"
    /\ UNCHANGED <<policy, callers, loop, worker, pools, late, stalls, stalled>>

\* The pool has been shut down, its threads idle, and the queue thread joined; or
\* the join has timed out.
CloseEnd ==
    /\ phase = "ending"
    /\ phase' = "closed"
    /\ UNCHANGED <<policy, callers, loop, worker, pools, late, stalls, stalled>>

-----------------------------------------------------------------------------

PutStep(e)    == Enqueue(e) \/ Resume(e)
WorkerStep(w) == TakeEvent(w) \/ DispatchDone(w)
DrainStep     == DrainTake \/ DispatchDone(Closer) \/ DrainEnd
CloseStep     == ShutdownBegin \/ DrainStep \/ CloseEnd

Next ==
    \/ \E c \in Callers : \E k \in {"user", "plain", "critical"} : AddEvent(c, k)
    \/ \E c \in Callers : InlineNext(c) \/ CallerGivesUp(c)
    \/ \E e \in Events : PutStep(e) \/ PutTimesOut(e)
    \/ \E w \in Workers : WorkerStep(w)
    \/ \E t \in Pool : StartJob(t) \/ EndJob(t)
    \/ CloseBegin \/ CloseStep \/ DrainTimesOut

Spec == Init /\ [][Next]_vars

\* Threads are scheduled, the queue loop runs its coroutines, and every wait has a
\* timeout: five seconds for the caller of a loop that has ended, up to one second
\* for a put, two for the drain.  A callback ends unless it waits in add_event.
Fairness ==
    /\ \A c \in Callers : WF_vars(InlineNext(c))
    /\ \A c \in Callers : WF_vars(phase \in {"ending", "closed"} /\ CallerGivesUp(c))
    /\ \A e \in Events : WF_vars(PutStep(e)) /\ WF_vars(PutTimesOut(e))
    /\ \A w \in Workers : WF_vars(WorkerStep(w))
    /\ \A t \in Pool : WF_vars(StartJob(t)) /\ WF_vars(EndJob(t))
    /\ WF_vars(CloseStep) /\ WF_vars(DrainTimesOut)

FairSpec == Spec /\ Fairness

-----------------------------------------------------------------------------
(* Properties *)

CallHas(e)  == \E c \in Callers : call[c].pc # "idle" /\ call[c].ev = e
PutWaits(e) == enq[e] \in {"new", "put", "woken"}
Held(e)     == \/ \E k \in DOMAIN queue : queue[k] = e
               \/ \E w \in Dispatchers : worker[w] = e
Reached(s, e) == \E k \in DOMAIN got[s] : got[s][k] = e

\* While the stream is open no event disappears: it is with its caller, in the queue
\* or being dispatched, or it was dropped by the policy and counted, or its callback
\* has been called for every subscriber (enqueue_event, _worker_loop, _dispatch_event).
NoSilentLoss ==
    phase = "open" => \A e \in Events : kind[e] # "none" =>
        CallHas(e) \/ PutWaits(e) \/ Held(e) \/ enq[e] \in Dropped \/ \A s \in Subs : Reached(s, e)

\* Nobody is called twice with an event, unless the queue loop kept its caller
\* waiting for so long that it was delivered inline as well.
DeliveredOnce ==
    \A s \in Subs : \A j, k \in DOMAIN got[s] :
        j < k /\ got[s][j] = got[s][k] => got[s][j] \in stalled

Place(e) == CHOOSE k \in DOMAIN entered : entered[k] = e
Ordinary(e) == e \notin stalled /\ e \in Range(entered)

\* "Single worker preserves FIFO delivery to subscribers" (core/config/app_config.py:73):
\* callbacks are called in the order in which the events entered the queue, across
\* evictions, replies from inside a callback and the shutdown.
SingleWorkerFifo ==
    Cardinality(Workers) = 1 =>
        \A s \in Subs : \A j, k \in DOMAIN got[s] :
            j < k /\ Ordinary(got[s][j]) /\ Ordinary(got[s][k]) =>
                Place(got[s][j]) < Place(got[s][k])

\* Every call of add_event returns, although a callback that adds an event holds the
\* pool thread the worker waits for, and the worker the place the event waits for.
CallsReturn == \A c \in Callers : call[c].pc # "idle" ~> call[c].pc = "idle"

\* close() ends, whatever the callers, the workers and the callbacks are doing.
CloseEnds == phase = "closing" ~> phase = "closed"
=============================================================================
