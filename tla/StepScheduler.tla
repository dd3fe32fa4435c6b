--------------------------- MODULE StepScheduler ---------------------------
(***************************************************************************)
(* How SessionOrchestrator turns requests for a step into step tasks.      *)
(*                                                                         *)
(* Everything here runs on the application's main event loop, one callback *)
(* at a time: `ready' is the loop's FIFO of callbacks due to run, and each *)
(* action below that takes its head is the code one callback runs until it *)
(* awaits something.  Step requests come from any thread, through          *)
(* call_soon_threadsafe.  A callback is                                    *)
(*   "request"       _request_step, queued by step();                      *)
(*   "create"        _create_step_task, queued by the teardown of a task;  *)
(*   a member of Tasks     a step task, to be started or resumed;          *)
(*   a member of Controls  the stop() or close() coroutine, likewise.      *)
(*                                                                         *)
(* What a step does -- connect, guards, the LLM call, the tool calls -- is *)
(* one long wait ("work") that ends in one of the ways _step_inner ends.   *)
(* The agent's state is reduced to RUNNING, STOPPED and AWAITING (for all  *)
(* the others), the pending actions to whether one blocks stepping.        *)
(***************************************************************************)
EXTENDS Integers, Sequences

CONSTANTS
    Tasks,       \* identities of live agent-step tasks, reused after they end
    NoTask,
    Controls,    \* which of the coroutines "stop" and "close" are ever called
    DrainLimit,  \* DEFAULT_AGENT_STEP_DRAIN_LIMIT
    MaxCalls,    \* bound: calls of step() and user messages from outside
    MaxRequests  \* bound: requests on their way or counted when a step arms an action

ASSUME SchedulerConstants ==
    /\ NoTask \notin Tasks \cup {"stop", "close"}
    /\ {"stop", "close", "request", "create"} \cap Tasks = {}
    /\ Controls \subseteq {"stop", "close"}
    /\ DrainLimit \in Nat \ {0}
    /\ MaxCalls \in Nat /\ MaxRequests \in Nat

VARIABLES
    ready,      \* the main loop's queue of callbacks
    task,       \* per task: where it is, its drained_count, cancel() requested
    stepTask,   \* _step_task
    count,      \* _step_request_count
    lock,       \* who holds _step_lock
    waiters,    \* who waits for it, in order
    life,       \* _lifecycle
    state,      \* agent state
    pending,    \* an outstanding action blocks stepping
    waking,     \* a coroutine has made stepping possible and is about to call step()
    watchdog,   \* the no-progress watchdog task is alive
    control,    \* per control coroutine: where it is, whom it awaits, old_state
    calls,      \* outside calls so far
    owed        \* history: the last request is "open" (no step and no refusal answered it
                \* yet), was "dropped" at the drain limit, or there is "none"

agent == <<state, pending, waking, watchdog>>
vars  == <<ready, task, stepTask, count, lock, waiters, life, state, pending, waking,
           watchdog, control, calls, owed>>

TaskPc    == {"none", "new", "lock", "work", "yield", "handling"}
ControlPc == {"idle", "start", "await", "kill", "lock", "end", "done"}
States    == {"RUNNING", "STOPPED", "AWAITING"}
Handles   == {"request", "create"} \cup Tasks \cup Controls
NoStep    == [pc |-> "none", n |-> 0, cancelled |-> FALSE]

TypeOK ==
    /\ ready \in Seq(Handles)
    /\ task \in [Tasks -> [pc : TaskPc, n : 0 .. DrainLimit, cancelled : BOOLEAN]]
    /\ stepTask \in Tasks \cup {NoTask}
    /\ count \in Nat
    /\ lock \in Tasks \cup {NoTask}
    /\ waiters \in Seq(Tasks \cup Controls)
    /\ life \in {"open", "closing", "closed"}
    /\ state \in States
    /\ pending \in BOOLEAN /\ waking \in BOOLEAN /\ watchdog \in BOOLEAN
    /\ control \in [Controls -> [pc : ControlPc, on : Tasks \cup {NoTask}, old : States]]
    /\ calls \in 0 .. MaxCalls
    /\ owed \in {"none", "open", "dropped"}

Init ==
    /\ ready = <<>>
    /\ task = [t \in Tasks |-> NoStep]
    /\ stepTask = NoTask
    /\ count = 0
    /\ lock = NoTask
    /\ waiters = <<>>
    /\ life = "open"
    /\ state = "RUNNING"
    /\ pending = FALSE
    /\ waking = FALSE
    /\ watchdog = TRUE
    /\ control = [c \in Controls |-> [pc |-> "idle", on |-> NoTask, old |-> "RUNNING"]]
    /\ calls = 0
    /\ owed = "none"

-----------------------------------------------------------------------------
(* The event loop *)

Queued(h) == \E k \in DOMAIN ready : ready[k] = h

\* The callback at the head runs, and schedules hs.
Run(h, hs) == ready # <<>> /\ Head(ready) = h /\ ready' = Tail(ready) \o hs

\* Something outside the loop (I/O, a timer, another thread) schedules h.
Wake(h) == ready' = Append(ready, h)

\* A task.cancel() of a task that waits makes it runnable; one already due to run
\* raises CancelledError when it does.
Cancelled(t) == IF Queued(t) THEN <<>> ELSE <<t>>

\* asyncio.Lock.release wakes the first waiter, unless it is due to run already.
LockWake(ws) == IF ws = <<>> \/ Queued(Head(ws)) THEN <<>> ELSE <<Head(ws)>>
LockFree     == lock = NoTask /\ waiters = <<>>
Leave(ws, i)   == SubSeq(ws, 1, i - 1) \o SubSeq(ws, i + 1, Len(ws))
Without(ws, w) == IF \E i \in DOMAIN ws : ws[i] = w
                  THEN Leave(ws, CHOOSE i \in DOMAIN ws : ws[i] = w) ELSE ws

-----------------------------------------------------------------------------
(* step(), _request_step, _create_step_task *)

\* StepPrerequisiteService.can_step
CanStep == state = "RUNNING" /\ ~pending

Alive(t) == t # NoTask /\ task[t].pc # "none"          \* not t.done()

\* step() from anywhere: a subscriber, the UI, an observation that was resolved.
StepCall ==
    /\ life = "open"
    /\ calls < MaxCalls
    /\ calls' = calls + 1
    /\ Wake("request")
    /\ UNCHANGED <<task, stepTask, count, lock, waiters, life, agent, control, owed>>

CreateTask(h) ==
    \E t \in Tasks :
      /\ task[t].pc = "none"
      /\ Run(h, <<t>>)
      /\ task' = [task EXCEPT ![t] = [NoStep EXCEPT !.pc = "new"]]
      /\ stepTask' = t
      /\ count' = 0

RequestStep ==
    /\ life = "open"
    /\ owed' = "open"
    /\ IF Alive(stepTask)
       THEN Run("request", <<>>) /\ count' = count + 1 /\ UNCHANGED <<task, stepTask>>
       ELSE CreateTask("request")
    /\ UNCHANGED <<lock, waiters, life, agent, control, calls>>

RequestStepClosed ==
    /\ life # "open"
    /\ Run("request", <<>>)
    /\ UNCHANGED <<task, stepTask, count, lock, waiters, life, agent, control, calls,
                   owed>>

\* Mutant: without the idempotency guard.
CreateStepTask_Unguarded ==
    /\ CreateTask("create")
    /\ UNCHANGED <<lock, waiters, life, agent, control, calls, owed>>

\* The guard against a second task is lifted when the controller is closed.
CreateStepTask ==
    /\ IF Alive(stepTask) /\ life = "open"
       THEN Run("create", <<>>) /\ UNCHANGED <<task, stepTask, count>>
       ELSE CreateTask("create")
    /\ UNCHANGED <<lock, waiters, life, agent, control, calls, owed>>

-----------------------------------------------------------------------------
(* _step, _drain_steps, _step_inner *)

Goto(t, pc) == task' = [task EXCEPT ![t].pc = pc]

\* Who awaits the end of task t, in the order they are woken.
Awaits(c, t) == /\ c \in Controls
                /\ control[c].pc = "await" /\ control[c].on = t /\ ~Queued(c)
Woken(c, t)  == IF Awaits(c, t) THEN <<c>> ELSE <<>>
Awaiting(t)  == Woken("stop", t) \o Woken("close", t)

\* One iteration of the drain loop, up to its first wait: _step_inner checks the
\* prerequisites and either goes to work or returns to the drain loop's sleep(0).
Iterate(t) ==
    /\ task' = [task EXCEPT ![t].n = @ + 1, ![t].pc = IF CanStep THEN "work" ELSE "yield"]
    /\ Run(t, IF CanStep THEN <<>> ELSE <<t>>)
    /\ owed' = "none"

\* _step acquires the lock and enters the drain loop, or waits for its turn.
StartTask(t) ==
    /\ task[t].pc = "new"
    /\ ~task[t].cancelled
    /\ IF LockFree
       THEN lock' = t /\ Iterate(t) /\ UNCHANGED waiters
       ELSE /\ waiters' = Append(waiters, t)
            /\ Goto(t, "lock")
            /\ Run(t, <<>>)
            /\ UNCHANGED <<lock, owed>>
    /\ UNCHANGED <<stepTask, count, life, agent, control, calls>>

LockedTask(t) ==
    /\ task[t].pc = "lock"
    /\ ~task[t].cancelled
    /\ lock = NoTask
    /\ lock' = t
    /\ waiters' = Without(waiters, t)
    /\ Iterate(t)
    /\ UNCHANGED <<stepTask, count, life, agent, control, calls>>

\* Cancelled before the drain loop: `finally' is not reached, so _step_task still
\* refers to the task and no successor is scheduled.
CancelledEarly(t) ==
    /\ task[t].pc \in {"new", "lock"}
    /\ task[t].cancelled
    /\ Run(t, (IF lock = NoTask THEN LockWake(Without(waiters, t)) ELSE <<>>) \o Awaiting(t))
    /\ task' = [task EXCEPT ![t] = NoStep]
    /\ waiters' = Without(waiters, t)
    /\ UNCHANGED <<stepTask, count, lock, life, agent, control, calls, owed>>

\* Mutant: no successor is scheduled for the requests left over.
Teardown_NoSuccessor(t, c, pc) ==
    /\ Run(t, LockWake(waiters) \o (IF pc = "none" THEN Awaiting(t) ELSE <<>>))
    /\ task' = [task EXCEPT ![t] = [NoStep EXCEPT !.pc = pc]]
    /\ stepTask' = NoTask
    /\ lock' = NoTask
    /\ count' = c

\* Mutant: an exception leaves the step without releasing the lock.
Teardown_KeepsLock(t, c, pc) ==
    /\ Run(t, (IF life = "open" /\ c > 0 THEN <<"create">> ELSE <<>>)
              \o (IF pc = "none" THEN LockWake(waiters) \o Awaiting(t) ELSE <<>>))
    /\ task' = [task EXCEPT ![t] = [NoStep EXCEPT !.pc = pc]]
    /\ stepTask' = NoTask
    /\ lock' = IF pc = "none" THEN NoTask ELSE lock
    /\ count' = c

\* The `finally' of _step: forget the task, schedule a successor if requests are
\* left over (c of them), release the lock.  The task is over, or goes on to the
\* exception handler.
Teardown(t, c, pc) ==
    /\ Run(t, (IF life = "open" /\ c > 0 THEN <<"create">> ELSE <<>>)
              \o LockWake(waiters)
              \o (IF pc = "none" THEN Awaiting(t) ELSE <<>>))
    /\ task' = [task EXCEPT ![t] = [NoStep EXCEPT !.pc = pc]]
    /\ stepTask' = NoTask
    /\ lock' = NoTask
    /\ count' = c

\* The work of a step is over: the last thing it waited for completes.
WorkDone(t) ==
    /\ task[t].pc = "work"
    /\ ~Queued(t)
    /\ Wake(t)
    /\ UNCHANGED <<task, stepTask, count, lock, waiters, life, agent, control, calls,
                   owed>>

\* While it works, the step arms a pending action for the tool it runs.  Each one
\* that is answered calls step(), hence the bound.
ArmPending(t) ==
    /\ task[t].pc = "work"
    /\ state = "RUNNING"
    /\ ~pending
    /\ count + Len(SelectSeq(ready, LAMBDA h : h = "request")) < MaxRequests
    /\ pending' = TRUE
    /\ UNCHANGED <<ready, task, stepTask, count, lock, waiters, life, state, waking, watchdog,
                   control, calls, owed>>

\* _step_inner_schedule_next: a successor is requested unless an action is still
\* outstanding (the barrier ran out of time) or the agent left RUNNING.
StepEnds(t) ==
    /\ task[t].pc = "work"
    /\ ~task[t].cancelled
    /\ Run(t, (IF CanStep /\ life = "open" THEN <<"request">> ELSE <<>>) \o <<t>>)
    /\ Goto(t, "yield")
    /\ UNCHANGED <<stepTask, count, lock, waiters, life, agent, control, calls, owed>>

\* The other ways out of _step_inner hand over to the user: a message that awaits a
\* response, a final answer, no action, control flags.
StepHandsOver(t) ==
    /\ task[t].pc = "work"
    /\ ~task[t].cancelled
    /\ state = "RUNNING"
    /\ state' = "AWAITING"
    /\ watchdog' = FALSE
    /\ Run(t, <<t>>)
    /\ Goto(t, "yield")
    /\ UNCHANGED <<stepTask, count, lock, waiters, life, pending, waking, control, calls,
                   owed>>

\* An exception leaves the step, and its pending actions are cleared (unless it is
\* the disconnection a stop caused, which is ignored).  The handler runs in the same
\* task, outside the lock.
StepRaises(t) ==
    /\ task[t].pc = "work"
    /\ ~task[t].cancelled
    /\ Teardown(t, count, "handling")
    /\ pending' \in IF state = "STOPPED" THEN {FALSE, pending} ELSE {FALSE}
    /\ UNCHANGED <<waiters, life, state, waking, watchdog, control, calls, owed>>

\* The handler ends: the error survivable, it steps again if the agent is still
\* RUNNING; otherwise control goes back to the user.
HandlerDone(t) ==
    /\ task[t].pc = "handling"
    /\ \/ /\ state = "RUNNING"
          /\ IF life = "open" THEN Wake("request") ELSE UNCHANGED ready
          /\ UNCHANGED <<state, watchdog>>
       \/ /\ state = "RUNNING"
          /\ state' = "AWAITING"
          /\ watchdog' = FALSE
          /\ UNCHANGED ready
       \/ state # "RUNNING" /\ UNCHANGED <<ready, state, watchdog>>
    /\ task' = [task EXCEPT ![t] = NoStep]
    /\ UNCHANGED <<stepTask, count, lock, waiters, life, pending, waking, control, calls,
                   owed>>

\* CancelledError inside the drain loop.
StepCancelled(t) ==
    /\ task[t].pc \in {"work", "yield"}
    /\ task[t].cancelled
    /\ Teardown(t, count, "none")
    /\ UNCHANGED <<waiters, life, agent, control, calls, owed>>

\* Back from sleep(0): no request, or a request and a check of the prerequisites,
\* or a request and another iteration.
DrainStops(t) ==
    /\ task[t].pc = "yield"
    /\ ~task[t].cancelled
    /\ \/ count = 0 /\ Teardown(t, 0, "none") /\ UNCHANGED owed
       \/ count > 0 /\ ~CanStep /\ Teardown(t, count - 1, "none") /\ owed' = "none"
    /\ UNCHANGED <<waiters, life, agent, control, calls>>

\* Mutant: the drain loop has no limit.
DrainAgain_NoLimit(t) ==
    /\ task[t].pc = "yield"
    /\ ~task[t].cancelled
    /\ count > 0
    /\ CanStep
    /\ count' = count - 1
    /\ Iterate(t)
    /\ UNCHANGED <<stepTask, lock, waiters, life, agent, control, calls>>

DrainAgain(t) ==
    /\ task[t].pc = "yield"
    /\ ~task[t].cancelled
    /\ count > 0
    /\ CanStep
    /\ task[t].n < DrainLimit
    /\ count' = count - 1
    /\ Iterate(t)
    /\ UNCHANGED <<stepTask, lock, waiters, life, agent, control, calls>>

\* The loop condition fails after a request was taken off the count.
DrainLimitReached(t) ==
    /\ task[t].pc = "yield"
    /\ ~task[t].cancelled
    /\ count > 0
    /\ CanStep
    /\ task[t].n = DrainLimit
    /\ Teardown(t, count - 1, "none")
    /\ owed' = IF count = 1 THEN "dropped" ELSE owed
    /\ UNCHANGED <<waiters, life, agent, control, calls>>

-----------------------------------------------------------------------------
(* stop() and close() *)

ControlGoto(c, pc) == control' = [control EXCEPT ![c].pc = pc]

ControlCall(c) ==
    /\ life = "open"
    /\ control[c].pc = "idle"
    /\ ControlGoto(c, "start")
    /\ Wake(c)
    /\ UNCHANGED <<task, stepTask, count, lock, waiters, life, agent, calls, owed>>

\* Requests are forgotten; a live step task is cancelled and awaited.
CancelStep(c) ==
    /\ Alive(stepTask)
    /\ Run(c, Cancelled(stepTask))
    /\ task' = [task EXCEPT ![stepTask].cancelled = TRUE]
    /\ control' = [control EXCEPT ![c].pc = "await", ![c].on = stepTask]
    /\ UNCHANGED <<waiters, state, pending>>

\* set_agent_state(STOPPED), with the pending actions cleared after (stop) or before
\* (close) it: nothing if that is the state, else the state changes at once and the
\* reset waits for the step lock.  Then the watchdog goes, if the state it left was
\* RUNNING; close() has stopped it long before.
SetStopped(c) ==
    LET waits == state # "STOPPED" /\ ~LockFree IN
    /\ Run(c, <<>>)
    /\ state' = "STOPPED"
    /\ pending' = (pending /\ c = "stop" /\ waits)
    /\ waiters' = IF waits THEN Append(waiters, c) ELSE waiters
    /\ control' = [control EXCEPT ![c] =
         [pc |-> IF waits THEN "lock" ELSE IF c = "close" THEN "end" ELSE "done",
          on |-> NoTask, old |-> state]]
    /\ watchdog' = (watchdog /\ c = "stop" /\ (waits \/ state # "RUNNING"))

\* close(set_stop_state=False) leaves the agent state as it is.
KeepState ==
    /\ Run("close", <<>>)
    /\ pending' = FALSE
    /\ watchdog' = FALSE
    /\ control' = [control EXCEPT !["close"].pc = "end", !["close"].on = NoTask]
    /\ UNCHANGED <<waiters, state>>

\* stop() kills the runtime's processes next, and waits for that.
KillRuntime ==
    /\ Run("stop", <<"stop">>)
    /\ control' = [control EXCEPT !["stop"].pc = "kill", !["stop"].on = NoTask]
    /\ UNCHANGED <<waiters, state, pending>>

StopStart ==
    /\ control["stop"].pc = "start"
    /\ count' = 0
    /\ \/ CancelStep("stop")
       \/ ~Alive(stepTask) /\ KillRuntime /\ UNCHANGED task
    /\ UNCHANGED <<stepTask, lock, life, waking, watchdog, calls, owed>>

StopAwaited ==
    /\ control["stop"].pc = "await"
    /\ KillRuntime
    /\ UNCHANGED <<task, stepTask, count, lock, life, waking, watchdog, calls, owed>>

StopKilled ==
    /\ control["stop"].pc = "kill"
    /\ SetStopped("stop")
    /\ UNCHANGED <<task, stepTask, count, lock, life, waking, calls, owed>>

CloseStart ==
    /\ control["close"].pc = "start"
    /\ life' = "closing"
    /\ count' = 0
    /\ \/ CancelStep("close") /\ watchdog' = FALSE
       \/ /\ ~Alive(stepTask)
          /\ UNCHANGED task
          /\ SetStopped("close") \/ KeepState
    /\ UNCHANGED <<stepTask, lock, waking, calls, owed>>

CloseAwaited ==
    /\ control["close"].pc = "await"
    /\ SetStopped("close") \/ KeepState
    /\ UNCHANGED <<task, stepTask, count, lock, life, waking, calls, owed>>

\* The step lock is free: _reset, and the end of set_agent_state(STOPPED).
ControlLocked(c) ==
    /\ control[c].pc = "lock"
    /\ lock = NoTask
    /\ waiters' = Without(waiters, c)
    /\ Run(c, LockWake(waiters'))
    /\ pending' = FALSE
    /\ watchdog' = (watchdog /\ control[c].old # "RUNNING")
    /\ ControlGoto(c, IF c = "close" THEN "end" ELSE "done")
    /\ UNCHANGED <<task, stepTask, count, lock, life, state, waking, calls, owed>>

\* The retry worker has been shut down, the stream is closed.
CloseEnds ==
    /\ "close" \in Controls
    /\ control["close"].pc = "end"
    /\ ControlGoto("close", "done")
    /\ life' = "closed"
    /\ UNCHANGED <<ready, task, stepTask, count, lock, waiters, agent, calls, owed>>

-----------------------------------------------------------------------------
(* The rest of the agent *)

\* An observation resolves the pending action, and after some more awaits its
\* handler calls step().
ObservationArrives ==
    /\ life = "open"
    /\ pending
    /\ ~waking
    /\ pending' = FALSE
    /\ waking' = TRUE
    /\ UNCHANGED <<ready, task, stepTask, count, lock, waiters, life, state, watchdog, control,
                   calls, owed>>

\* A pending action times out: the ErrorObservation that clears it triggers no step.
PendingTimesOut ==
    /\ pending
    /\ pending' = FALSE
    /\ UNCHANGED <<ready, task, stepTask, count, lock, waiters, life, state, waking, watchdog,
                   control, calls, owed>>

\* A user message puts the agent back to RUNNING, which starts the watchdog, and
\* then calls step().
UserMessage ==
    /\ life = "open"
    /\ calls < MaxCalls
    /\ calls' = calls + 1
    /\ ~waking
    /\ waking' = TRUE
    /\ state # "RUNNING"
    /\ state' = "RUNNING"
    /\ watchdog' = TRUE
    /\ UNCHANGED <<ready, task, stepTask, count, lock, waiters, life, pending, control,
                   owed>>

WakerSteps ==
    /\ waking
    /\ waking' = FALSE
    /\ IF life = "open" THEN Wake("request") ELSE UNCHANGED ready
    /\ UNCHANGED <<task, stepTask, count, lock, waiters, life, state, pending, watchdog, control,
                   calls, owed>>

\* Mutant: a stall is a request nobody answers.
Stalled_OnlyRequests == watchdog /\ life = "open" /\ CanStep /\ ready = <<>> /\ count > 0

\* The watchdog: RUNNING, no action outstanding, and no step() for so long that the
\* loop has nothing left to run.  If it has fired lately already it gives up, in
\* state ERROR (the reset that goes with it, and its wait for the lock, left out).
Stalled == watchdog /\ life = "open" /\ CanStep /\ ready = <<>> /\ count = 0

WatchdogFires ==
    /\ Stalled
    /\ Wake("request")
    /\ UNCHANGED <<task, stepTask, count, lock, waiters, life, agent, control, calls, owed>>

WatchdogGivesUp ==
    /\ Stalled
    /\ state' = "AWAITING"
    /\ watchdog' = FALSE
    /\ UNCHANGED <<ready, task, stepTask, count, lock, waiters, life, pending, waking, control,
                   calls, owed>>

-----------------------------------------------------------------------------

TaskStep(t) ==
    \/ StartTask(t) \/ LockedTask(t) \/ CancelledEarly(t)
    \/ StepEnds(t) \/ StepHandsOver(t) \/ StepRaises(t) \/ StepCancelled(t)
    \/ DrainStops(t) \/ DrainAgain(t) \/ DrainLimitReached(t)

ControlStep(c) ==
    \/ c = "stop" /\ (StopStart \/ StopAwaited \/ StopKilled)
    \/ c = "close" /\ (CloseStart \/ CloseAwaited)
    \/ ControlLocked(c)

\* The loop runs the callback at the head of its queue.
LoopStep ==
    \/ RequestStep \/ RequestStepClosed \/ CreateStepTask
    \/ \E t \in Tasks : TaskStep(t)
    \/ \E c \in Controls : ControlStep(c)

\* What the loop waits for.
Completion ==
    \/ \E t \in Tasks : WorkDone(t) \/ HandlerDone(t)
    \/ CloseEnds
    \/ WakerSteps
    \/ PendingTimesOut

Environment ==
    \/ StepCall \/ UserMessage \/ ObservationArrives
    \/ \E t \in Tasks : ArmPending(t)
    \/ \E c \in Controls : ControlCall(c)

Next == LoopStep \/ Completion \/ Environment \/ WatchdogFires \/ WatchdogGivesUp

Spec == Init /\ [][Next]_vars

\* The loop keeps running, steps and handlers end (every call they wait for has a
\* timeout), a pending action is resolved or times out, and a live watchdog polls.
Fairness ==
    /\ WF_vars(LoopStep)
    /\ \A t \in Tasks : WF_vars(WorkDone(t)) /\ WF_vars(HandlerDone(t))
    /\ WF_vars(CloseEnds)
    /\ WF_vars(WakerSteps)
    /\ WF_vars(PendingTimesOut)
    /\ WF_vars(WatchdogFires \/ WatchdogGivesUp)

FairSpec == Spec /\ Fairness

-----------------------------------------------------------------------------
(* Properties *)

Before(t) == task[t].pc \in {"new", "lock", "work", "yield"}
Quiet     == /\ ready = <<>>
             /\ \A t \in Tasks : task[t].pc = "none"
             /\ ~waking
             /\ \A c \in Controls : control[c].pc \in {"idle", "done"}

\* The point of the request counter, of clearing _step_task in the `finally' and of
\* the guard in _create_step_task: while the controller is open, every step task
\* that has yet to run or to finish its step is the one _step_task refers to, so
\* there is one at most and stop() and close() can reach it.
NoOrphanedStepTask ==
    life = "open" => \A t \in Tasks : Before(t) => t = stepTask

\* _step_lock: even with the tasks that close() lets through, one task at a time is
\* inside the drain loop, and the lock is not left behind by one that ended.
StepsAreExclusive ==
    \A t \in Tasks : task[t].pc \in {"work", "yield"} <=> lock = t

\* No lost wakeup: when nothing is running or due to run and the agent may step,
\* every request for a step was answered, except one dropped at the drain limit.
\* (_request_step counts, _drain_steps consumes, the `finally' of _step hands over.)
RequestLostOnlyAtDrainLimit ==
    Quiet /\ life = "open" /\ CanStep => owed # "open"

\* The stronger form, from step(): "Otherwise, marks the current step as pending to
\* re-trigger after completion".  Not so for the request the drain loop takes off
\* the counter in its last iteration.
EveryRequestIsAnswered ==
    Quiet /\ life = "open" /\ CanStep => owed = "none"

\* An agent that may step, and has its watchdog, does not sit still for ever: a step
\* runs, or it is no longer allowed to step, or it is closed.  The watchdog is for the
\* request dropped at the drain limit and the pending action that times out; a
\* message inside stop() leaves an agent without it (set_agent_state).
NeverStalls ==
    life = "open" /\ CanStep /\ watchdog ~>
        (\E t \in Tasks : task[t].pc = "work") \/ ~CanStep \/ life # "open" \/ ~watchdog

\* stop() and close() come to an end: neither waits for the other, for the step task
\* it has cancelled or for the step lock for ever.
ControlsEnd ==
    \A c \in Controls : control[c].pc # "idle" ~> control[c].pc = "done"

=============================================================================
