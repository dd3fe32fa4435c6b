--------------------------- MODULE PendingActions ---------------------------
(***************************************************************************)
(* Tool calls from the model's answer to the observation that settles them *)
(* and the user's consent in between: PendingActionService (the table of   *)
(* outstanding actions), ActionService and ConfirmationService (publish or *)
(* ask), the parallel batch, apply_user_decision and ObservationService.   *)
(*                                                                         *)
(* A published action has a stream id; one that waits for the user is held *)
(* back, so its id is Event.INVALID_ID, and that is its key in the table.  *)
(* All of it runs on the event loop: an action of the model is the code    *)
(* between two awaits.  The runtime and the user interface are the         *)
(* environment.  Time is abstracted: a row with a finite timeout may       *)
(* expire at any moment.  When a step is asked for again, StepScheduler    *)
(* tells; here `wake' is whether it was.                                   *)
(***************************************************************************)
EXTENDS Integers, Sequences, FiniteSets

CONSTANTS
    Actions,   \* the tool calls the model may emit, each once
    Policies,  \* what the confirmation policy may ask about: sets of actions
    Parallel,  \* enable_parallel_tool_scheduling; Actions can run side by side
    Nobody,    \* what a confirmation dialog shows when nothing is pending
    Closed,    \* no dialog
    MaxTurns   \* bound: follow-up user messages

ASSUME PendingConstants ==
    /\ IsFiniteSet(Actions) /\ Policies \subseteq SUBSET Actions /\ Policies # {}
    /\ Parallel \in BOOLEAN
    /\ Nobody \notin Actions /\ Closed \notin Actions /\ Nobody # Closed
    /\ MaxTurns \in Nat

VARIABLES
    risky,      \* the actions the user is asked about; never changes
    agent,      \* agent state: running, confirming (AWAITING_USER_CONFIRMATION), input, stopped
    rows,       \* _outstanding: id -> action
    queue,      \* agent.pending_actions: the rest of the model's answer
    serialOnly, \* actions marked _retry_serial_after_parallel_failure
    step,       \* where the step task is
    batch,      \* actions whose execute_action has not passed its checks yet
    wake,       \* a step was asked for
    runtime,    \* actions the runtime is executing
    inbox,      \* observations on their way or being handled
    dialog,     \* the action the confirmation dialog shows
    nextId,     \* _cur_id of the stream
    turns,      \* follow-up messages so far
    seen        \* history, per fate: sets of actions, and how often each was executed

vars == <<agent, rows, queue, serialOnly, step, batch, wake, runtime, inbox, dialog,
          nextId, turns, seen>>

Unassigned == -1                                   \* Event.INVALID_ID
Pcs == {"idle", "asking", "first", "draining", "parallel", "looping", "serial",
        "settling", "scheduling"}
Run == [act : Actions, born : Nat, cause : Nat]
Obs == [act : Actions, born : Nat, cause : Nat, at : {"sent", "hook", "observe"}]

\* fresh      not emitted by the model yet
\* answered   a reply is in the history: an observation, a refusal, an error
\* timedOut   given up by _purge_timeouts
\* abandoned  given up by stop(), a user message, a handler timeout, a lost step
\* approved   the user approved it in the dialog that showed it
History == [fresh : SUBSET Actions, answered : SUBSET Actions,
            timedOut : SUBSET Actions, abandoned : SUBSET Actions,
            approved : SUBSET Actions, executions : [Actions -> Nat]]

TypeOK ==
    /\ risky \in Policies
    /\ agent \in {"running", "confirming", "input", "stopped"}
    /\ DOMAIN rows \subseteq Nat \cup {Unassigned}
    /\ rows \in [DOMAIN rows -> Actions]
    /\ queue \in Seq(Actions)
    /\ serialOnly \subseteq Actions /\ batch \subseteq Actions
    /\ step \in Pcs /\ (batch # {} => step \in {"first", "parallel", "serial"})
    /\ wake \in BOOLEAN
    /\ runtime \subseteq Run
    /\ inbox \subseteq Obs
    /\ dialog \in Actions \cup {Nobody, Closed}
    /\ nextId \in Nat /\ turns \in 0 .. MaxTurns
    /\ seen \in History

\* The turn's first message has been received and its recall answered.
Init ==
    /\ risky \in Policies
    /\ agent = "running"
    /\ rows = <<>>
    /\ queue = <<>> /\ serialOnly = {} /\ batch = {}
    /\ step = "idle" /\ wake = TRUE
    /\ runtime = {} /\ inbox = {}
    /\ dialog = Closed
    /\ nextId = 0 /\ turns = 0
    /\ seen = [fresh |-> Actions, answered |-> {}, timedOut |-> {}, abandoned |-> {},
               approved |-> {}, executions |-> [a \in Actions |-> 0]]

-----------------------------------------------------------------------------
(* The table of outstanding actions *)

Values(f) == {f[k] : k \in DOMAIN f}

\* mutant: one slot instead of a row per id.
Put_SingleSlot(table, id, a) == [k \in {id} |-> a]

\* PendingActionService.set: a row per id, replaced if the id is there already.
Put(table, id, a) == [k \in DOMAIN table \cup {id} |-> IF k = id THEN a ELSE table[k]]

\* pop_for_cause, clear_for_action: only the row of that id.
Without(table, id) == [k \in DOMAIN table \ {id} |-> table[k]]

Outstanding == DOMAIN rows # {}                    \* has_outstanding

\* _primary_entry: the row with the highest id.
Primary == CHOOSE k \in DOMAIN rows : \A j \in DOMAIN rows : j <= k

\* mutant: the pending action is not looked at.
CanStep_IgnoresPending == agent = "running"

\* StepPrerequisiteService.can_step: get() finds nothing pending.
CanStep == agent = "running" /\ ~Outstanding

GiveUp(acts) == seen' = [seen EXCEPT !.abandoned = @ \cup acts]

-----------------------------------------------------------------------------
(* The step task *)

BeginStep ==
    /\ step = "idle" /\ wake
    /\ wake' = FALSE
    /\ step' = IF CanStep THEN "asking" ELSE "idle"
    /\ UNCHANGED <<agent, rows, queue, serialOnly, batch, runtime, inbox, dialog, nextId,
                   turns, seen>>

\* mutant: the rest of the answer is thrown away.
HandOver_DropsRest(a, rest, fresh) ==
    /\ queue' = <<>>
    /\ step' = IF agent = "running" THEN "first" ELSE "draining"
    /\ batch' = IF agent = "running" THEN {a} ELSE {}
    /\ seen' = [seen EXCEPT !.fresh = fresh,
                    !.abandoned = @ \cup IF agent = "running" THEN {} ELSE {a}]
    /\ UNCHANGED agent

\* The first action of the answer, or the next one left of an earlier answer, is
\* executed, unless the agent stopped running meanwhile.
HandOver(a, rest, fresh) ==
    /\ queue' = rest
    /\ step' = IF agent = "running" THEN "first" ELSE "draining"
    /\ batch' = IF agent = "running" THEN {a} ELSE {}
    /\ seen' = [seen EXCEPT !.fresh = fresh,
                    !.abandoned = @ \cup IF agent = "running" THEN {} ELSE {a}]
    /\ UNCHANGED agent

NextQueued == queue # <<>> /\ HandOver(Head(queue), Tail(queue), seen.fresh)

\* The orders in which an answer can hold the actions of S.
Orders(S) == {q \in [1 .. Cardinality(S) -> S] : Values(q) = S}

\* The model answers with tool calls, possibly behind an action that is not runnable
\* (a thought), which leaves nothing pending.
Answers ==
    /\ queue = <<>>
    /\ \E S \in (SUBSET seen.fresh) \ {{}} : \E q \in Orders(S) :
        \/ HandOver(Head(q), Tail(q), seen.fresh \ S)
        \/ /\ queue' = q
           /\ step' = "draining"
           /\ seen' = [seen EXCEPT !.fresh = @ \ S]
           /\ UNCHANGED <<agent, batch>>

\* The model answers with its final message.
Finishes ==
    /\ queue = <<>>
    /\ step' = "idle"
    /\ agent' = IF agent = "running" THEN "input" ELSE agent
    /\ UNCHANGED <<queue, batch, seen>>

GetAction ==
    /\ step = "asking"
    /\ NextQueued \/ Answers \/ Finishes
    /\ UNCHANGED <<rows, serialOnly, wake, runtime, inbox, dialog, nextId, turns>>

\* decide_parallel_batch: at least two actions queued, none of which has failed before.
BatchAllowed == Parallel /\ Len(queue) >= 2 /\ Values(queue) \cap serialOnly = {}

\* mutant: what exceeds a batch of two is not put back.
DrainParallel_DropsOverflow ==
    /\ step = "draining" /\ ~Outstanding /\ BatchAllowed
    /\ batch' = {queue[1], queue[2]}
    /\ queue' = <<>>
    /\ step' = "parallel"
    /\ UNCHANGED <<agent, rows, serialOnly, wake, runtime, inbox, dialog, nextId, turns, seen>>

DrainParallel ==
    /\ step = "draining" /\ ~Outstanding /\ BatchAllowed
    /\ batch' = Values(queue)
    /\ queue' = <<>>
    /\ step' = "parallel"
    /\ UNCHANGED <<agent, rows, serialOnly, wake, runtime, inbox, dialog, nextId, turns, seen>>

\* The serial loop takes the next action off the queue before it looks at the state.
DrainSerial ==
    /\ \/ step = "draining" /\ ~BatchAllowed
       \/ step = "looping"
    /\ ~Outstanding /\ queue # <<>>
    /\ queue' = Tail(queue)
    /\ IF agent = "running"
       THEN batch' = {Head(queue)} /\ step' = "serial" /\ UNCHANGED seen
       ELSE step' = "scheduling" /\ GiveUp({Head(queue)}) /\ UNCHANGED batch
    /\ UNCHANGED <<agent, rows, serialOnly, wake, runtime, inbox, dialog, nextId, turns>>

DrainEnds ==
    /\ step \in {"draining", "looping"}
    /\ Outstanding \/ queue = <<>>
    /\ step' = "scheduling"
    /\ UNCHANGED <<agent, rows, queue, serialOnly, batch, wake, runtime, inbox, dialog,
                   nextId, turns, seen>>

\* _drain_step_barrier in the loop ends with or without outstanding actions.
Settle ==
    /\ step = "settling"
    /\ step' = "looping"
    /\ UNCHANGED <<agent, rows, queue, serialOnly, batch, wake, runtime, inbox, dialog,
                   nextId, turns, seen>>

\* The last barrier: another step unless an action is still outstanding.
ScheduleNext ==
    /\ step = "scheduling"
    /\ step' = "idle"
    /\ wake' = (wake \/ (~Outstanding /\ agent = "running"))
    /\ UNCHANGED <<agent, rows, queue, serialOnly, batch, runtime, inbox, dialog, nextId,
                   turns, seen>>

-----------------------------------------------------------------------------
(* execute_action: risk analysis and middleware, then one of the outcomes below. *)

\* mutant: the step goes on after the first of the batch.
AfterExecute_FirstDone ==
    CASE step = "first"    -> "draining"
      [] step = "parallel" -> "scheduling"
      [] step = "serial"   -> "settling"

AfterExecute ==
    IF batch' # {} THEN step
    ELSE CASE step = "first"    -> "draining"
           [] step = "parallel" -> "scheduling"
           [] step = "serial"   -> "settling"

Passes(a) == a \in batch /\ batch' = batch \ {a} /\ step' = AfterExecute

\* add_event: the stream gives an id, the pre-dispatch hook arms the row, the runtime
\* receives the action.
Publish(a, table, running) ==
    /\ rows' = Put(table, nextId, a)
    /\ runtime' = running \cup {[act |-> a, born |-> nextId, cause |-> nextId]}
    /\ nextId' = nextId + 1

ExecuteNow(a) ==
    /\ Passes(a)
    /\ a \notin risky
    /\ Publish(a, rows, runtime)
    /\ seen' = [seen EXCEPT !.executions[a] = @ + 1]
    /\ UNCHANGED <<agent, queue, serialOnly, wake, inbox, dialog, turns>>

\* mutant: what waits for the user is published all the same.
AskUser_Publishes(a) ==
    /\ Passes(a)
    /\ a \in risky
    /\ agent \in {"running", "confirming"}
    /\ agent' = "confirming"
    /\ Publish(a, rows, runtime)
    /\ seen' = [seen EXCEPT !.executions[a] = @ + 1]
    /\ UNCHANGED <<queue, serialOnly, wake, inbox, dialog, turns>>

\* Not published: the row's key is the id the action does not have yet.
AskUser(a) ==
    /\ Passes(a)
    /\ a \in risky
    /\ agent \in {"running", "confirming"}
    /\ agent' = "confirming"
    /\ rows' = Put(rows, Unassigned, a)
    /\ UNCHANGED <<queue, serialOnly, wake, runtime, inbox, dialog, nextId, turns, seen>>

\* From AWAITING_USER_INPUT the transition is invalid: the exception leaves the batch
\* (its one retry fails the same way) and the action returns to the queue.
CannotAsk(a) ==
    /\ step = "parallel" /\ Passes(a)
    /\ a \in risky /\ agent = "input"
    /\ queue' = <<a>> \o queue
    /\ serialOnly' = serialOnly \cup {a}
    /\ UNCHANGED <<agent, rows, wake, runtime, inbox, dialog, nextId, turns, seen>>

\* The interaction mode refuses the action or a middleware blocks it: an error for the
\* model; the latter also clears the row of the id the action does not have.
Blocked(a) ==
    /\ Passes(a)
    /\ rows' \in {rows, Without(rows, Unassigned)}
    /\ seen' = [seen EXCEPT !.answered = @ \cup {a}]
    /\ UNCHANGED <<agent, queue, serialOnly, wake, runtime, inbox, dialog, nextId, turns>>

Execute == \E a \in Actions : ExecuteNow(a) \/ AskUser(a) \/ CannotAsk(a) \/ Blocked(a)

-----------------------------------------------------------------------------
(* Observations *)

\* The runtime's answer carries the id its action object has then.
RuntimeAnswers(r) ==
    /\ r \in runtime
    /\ runtime' = runtime \ {r}
    /\ inbox' = inbox \cup {[act |-> r.act, born |-> r.born, cause |-> r.cause, at |-> "sent"]}
    /\ UNCHANGED <<agent, rows, queue, serialOnly, step, batch, wake, dialog, nextId, turns, seen>>

MoveTo(o, at) == inbox' = (inbox \ {o}) \cup {[o EXCEPT !.at = at]}

\* should_step: on_event asks for a step after most observations, not after errors.
MayWake == wake' \in {wake, TRUE}

\* route_event records the observation, peek_for_cause looks for its action.
Arrives(o) ==
    /\ o \in inbox /\ o.at = "sent"
    /\ seen' = [seen EXCEPT !.answered = @ \cup {o.act}]
    /\ IF o.cause \in DOMAIN rows
       THEN MoveTo(o, "hook") /\ UNCHANGED wake
       ELSE inbox' = inbox \ {o} /\ MayWake
    /\ UNCHANGED <<agent, rows, queue, serialOnly, step, batch, runtime, dialog, nextId, turns>>

\* mutant: the row of an observed action stays.
Resolve_KeepsRow(o) ==
    /\ o \in inbox /\ o.at = "hook"
    /\ IF agent = "confirming"
       THEN inbox' = inbox \ {o} /\ MayWake
       ELSE MoveTo(o, "observe") /\ UNCHANGED wake
    /\ UNCHANGED <<agent, rows, queue, serialOnly, step, batch, runtime, dialog, nextId, turns, seen>>

\* After the post hook: nothing more while the user is being asked, else the row goes.
Resolve(o) ==
    /\ o \in inbox /\ o.at = "hook"
    /\ IF agent = "confirming"
       THEN inbox' = inbox \ {o} /\ MayWake /\ UNCHANGED rows
       ELSE MoveTo(o, "observe") /\ rows' = Without(rows, o.cause) /\ UNCHANGED wake
    /\ UNCHANGED <<agent, queue, serialOnly, step, batch, runtime, dialog, nextId, turns, seen>>

\* The observe pipeline has run: _trigger_post_resolution_step.
Observed(o) ==
    /\ o \in inbox /\ o.at = "observe"
    /\ inbox' = inbox \ {o}
    /\ wake' = TRUE
    /\ UNCHANGED <<agent, rows, queue, serialOnly, step, batch, runtime, dialog, nextId,
                   turns, seen>>

\* The handler took ten seconds: every row goes, and a step is forced.
HandlerTimesOut(o) ==
    /\ o \in inbox /\ o.at # "sent"
    /\ inbox' = inbox \ {o}
    /\ rows' = <<>>
    /\ wake' = TRUE
    /\ GiveUp(Values(rows))
    /\ UNCHANGED <<agent, queue, serialOnly, step, batch, runtime, dialog, nextId, turns>>


\* _purge_timeouts: an error for the model, the row goes, no step.  An action that
\* waits for the user never expires.
Expires(id) ==
    /\ id \in DOMAIN rows \ {Unassigned}
    /\ rows' = Without(rows, id)
    /\ seen' = [seen EXCEPT !.timedOut = @ \cup {rows[id]}]
    /\ UNCHANGED <<agent, queue, serialOnly, step, batch, wake, runtime, inbox, dialog,
                   nextId, turns>>

\* _watchdog_fire, armed only when some row can expire.
PendingWatchdogFires ==
    /\ \E id \in DOMAIN rows : id # Unassigned
    /\ ~wake /\ wake' = TRUE
    /\ UNCHANGED <<agent, rows, queue, serialOnly, step, batch, runtime, inbox, dialog,
                   nextId, turns, seen>>

\* mutant: an empty table counts as progress.
StallWatchdogFires_OnlyPending ==
    /\ agent = "running" /\ Outstanding /\ step = "idle"
    /\ ~wake /\ wake' = TRUE
    /\ UNCHANGED <<agent, rows, queue, serialOnly, step, batch, runtime, inbox, dialog,
                   nextId, turns, seen>>

\* The orchestrator's no-progress watchdog.
StallWatchdogFires ==
    /\ CanStep /\ step = "idle"
    /\ ~wake /\ wake' = TRUE
    /\ UNCHANGED <<agent, rows, queue, serialOnly, step, batch, runtime, inbox, dialog,
                   nextId, turns, seen>>

-----------------------------------------------------------------------------
(* The user *)

\* The interface polls the state and shows the action that is pending then.
ShowDialog ==
    /\ agent = "confirming" /\ dialog = Closed
    /\ dialog' = IF Outstanding THEN rows[Primary] ELSE Nobody
    /\ UNCHANGED <<agent, rows, queue, serialOnly, step, batch, wake, runtime, inbox, nextId,
                   turns, seen>>

\* The runtime and the observation handlers hold the action object whose id changes.
Renamed(S, id) == {IF x.cause = id THEN [x EXCEPT !.cause = nextId] ELSE x : x \in S}
Handling == {o \in inbox : o.at # "sent"}

\* mutant: the id is wiped before the row is cleared.
DecideOn_KeepsRow(k, approve) ==
    /\ Publish(rows[k], rows, Renamed(runtime, k))
    /\ inbox' = (inbox \ Handling) \cup Renamed(Handling, k)
    /\ agent' = IF approve THEN "running" ELSE "input"
    /\ wake' = TRUE
    /\ seen' = [seen EXCEPT !.approved = @ \cup IF approve THEN {dialog} \cap Actions ELSE {},
                            !.executions[rows[k]] = @ + IF approve THEN 1 ELSE 0]

\* apply_user_decision acts on the action that is pending now.
DecideOn(k, approve) ==
    /\ Publish(rows[k], Without(rows, k), Renamed(runtime, k))
    /\ inbox' = (inbox \ Handling) \cup Renamed(Handling, k)
    /\ agent' = IF approve THEN "running" ELSE "input"
    /\ wake' = TRUE
    /\ seen' = [seen EXCEPT !.approved = @ \cup IF approve THEN {dialog} \cap Actions ELSE {},
                            !.executions[rows[k]] = @ + IF approve THEN 1 ELSE 0]

\* Nothing is pending any more: only the state is released.
DecideOnNothing(approve) ==
    /\ agent' = IF agent # "confirming" THEN agent
                ELSE IF approve THEN "running" ELSE "input"
    /\ seen' = [seen EXCEPT !.approved = @ \cup IF approve THEN {dialog} \cap Actions ELSE {}]
    /\ UNCHANGED <<rows, runtime, inbox, nextId, wake>>

\* mutant: the dialog takes a second answer.
Decide_Twice(approve) ==
    /\ dialog # Closed
    /\ IF Outstanding THEN DecideOn(Primary, approve) ELSE DecideOnNothing(approve)
    /\ UNCHANGED <<queue, serialOnly, step, batch, dialog, turns>>

Decide(approve) ==
    /\ dialog # Closed
    /\ IF Outstanding THEN DecideOn(Primary, approve) ELSE DecideOnNothing(approve)
    /\ dialog' = Closed
    /\ UNCHANGED <<queue, serialOnly, step, batch, turns>>

\* A follow-up message preempts what is outstanding (its own recall included).
UserMessage ==
    /\ dialog = Closed /\ agent # "confirming"
    /\ turns < MaxTurns /\ turns' = turns + 1
    /\ GiveUp(Values(rows))
    /\ rows' = <<>>
    /\ agent' = "running"
    /\ wake' = TRUE
    /\ UNCHANGED <<queue, serialOnly, step, batch, runtime, inbox, dialog, nextId>>

\* stop() by the interface's interrupt key: the step task is cancelled, _reset drops the
\* queue (with an error for each action) and the rows (without).
Stop ==
    /\ dialog = Closed /\ agent = "running"
    /\ agent' = "stopped"
    /\ step' = "idle" /\ batch' = {} /\ wake' = FALSE
    /\ rows' = <<>> /\ queue' = <<>>
    /\ seen' = [seen EXCEPT !.answered = @ \cup Values(queue),
                            !.abandoned = @ \cup batch \cup Values(rows)]
    /\ UNCHANGED <<serialOnly, runtime, inbox, dialog, nextId, turns>>

-----------------------------------------------------------------------------
(* The specification *)

StepTask == \/ BeginStep \/ GetAction \/ DrainParallel \/ DrainSerial \/ DrainEnds
            \/ Settle \/ ScheduleNext \/ Execute

Handlers == \E o \in inbox : Arrives(o) \/ Resolve(o) \/ Observed(o) \/ HandlerTimesOut(o)

Timers == \/ \E id \in DOMAIN rows : Expires(id)
          \/ PendingWatchdogFires
          \/ StallWatchdogFires

User == ShowDialog \/ (\E approve \in BOOLEAN : Decide(approve)) \/ UserMessage \/ Stop

Next == \/ StepTask
        \/ \E r \in runtime : RuntimeAnswers(r)
        \/ Handlers
        \/ Timers
        \/ User

Spec == Init /\ [][Next /\ UNCHANGED risky]_<<risky, vars>>

\* Awaits on the loop end, every tool has a timeout, the interface polls, and the two
\* watchdogs look at the table while the agent is RUNNING.  The user owes nothing but
\* an answer to an open dialog.
FairSpec ==
    /\ Spec
    /\ WF_vars(StepTask)
    /\ WF_vars(\E r \in runtime : RuntimeAnswers(r))
    /\ WF_vars(Handlers)
    /\ WF_vars(agent = "running" /\ \E id \in DOMAIN rows : Expires(id))
    /\ WF_vars(StallWatchdogFires)
    /\ WF_vars(ShowDialog)
    /\ WF_vars(\E approve \in BOOLEAN : Decide(approve))

-----------------------------------------------------------------------------
(* Properties *)

\* Nothing the user is asked about has been part of a parallel batch: there it would
\* share its row, and the row could go with a sibling.
NoConsentInBatch == ~Parallel \/ risky = {}

\* No tool call gets lost: once the model emitted it, it is queued, in the step's hands,
\* in the table, with the runtime, or it has its reply or was given up on purpose
\* (parallel registration, clear_for_action, drain, reset).
NoCallIsLost ==
    NoConsentInBatch => \A a \in Actions \ seen.fresh :
        \/ a \in Values(queue) \cup batch \cup Values(rows)
        \/ a \in seen.answered \cup seen.timedOut \cup seen.abandoned
        \/ \E x \in runtime \cup inbox : x.act = a

\* What the policy asks the user about is executed only after the user approved it in a
\* dialog that showed it (held back by ActionService, released by apply_user_decision).
NothingRunsUnapproved ==
    \A a \in risky : seen.executions[a] > 0 => a \in seen.approved

\* No tool call is executed twice (apply_user_decision publishes again what it finds).
ExecutedOnce == \A a \in Actions : seen.executions[a] <= 1

\* When the model is asked again, no tool call is still running except one that was
\* given up: the model has seen the result of every other (the table has a row per
\* action, can_step and the barriers look at all of it).
StepsSeeEveryResult ==
    NoConsentInBatch /\ step = "asking" =>
        \A r \in runtime : r.act \in seen.timedOut \cup seen.abandoned

\* An action waits for the user only in the state in which the user is asked: its row
\* never expires, so anywhere else it would block the agent for ever.
AskedWhileConfirming == Unassigned \in DOMAIN rows => agent = "confirming"

\* No action times out after its observation was delivered and handled
\* (_handle_pending_action_observation leaves no row behind).
NoFalseTimeout ==
    [][\A a \in seen'.timedOut \ seen.timedOut :
          a \in seen.answered => \E o \in inbox : o.act = a]_vars

\* A RUNNING agent gets to ask its model again, whatever answers, errors and timeouts
\* come between (post-resolution step, barrier, watchdog).
RunningAgentProceeds == agent = "running" ~> (step = "asking" \/ agent # "running")

\* Whatever a batch leaves in the table, only a row that waits for the user's consent can
\* keep a RUNNING agent from its model (_purge_timeouts, watchdog, post-resolution step).
OnlyConsentBlocks ==
    (agent = "running" /\ Unassigned \notin DOMAIN rows)
        ~> (step = "asking" \/ agent # "running" \/ Unassigned \in DOMAIN rows)
=============================================================================
