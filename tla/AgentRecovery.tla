--------------------------- MODULE AgentRecovery ---------------------------
(***************************************************************************)
(* The agent's state graph and what moves the agent through it when steps  *)
(* fail: the recovery service, the retry queue and its worker, the circuit *)
(* breaker in front of a step, the iteration limit with its one final      *)
(* turn, and the watchdog.  All of it runs on the main event loop, so an   *)
(* action is what happens between two awaits that really suspend: a call   *)
(* of the model, a pause, a poll.                                          *)
(*                                                                         *)
(* A step is the task that calls the model once; StepScheduler shows how   *)
(* requests become tasks and PendingActions what a step does to the tool   *)
(* calls, so here a request is one flag and an action one outcome.         *)
(* Delays are not measured: a queued retry may fire at any time, and       *)
(* before one that was queued earlier.                                     *)
(***************************************************************************)
EXTENDS Integers, FiniteSets

CONSTANTS
    MaxRetries,     \* RetryQueue.max_retries
    MaxErrors,      \* max_consecutive_errors of the circuit breaker
    WarningLimit,   \* warning_first_trip_limit
    MaxSurvivable,  \* _MAX_SURVIVABLE
    MaxIterations,  \* the iteration limit at the start
    Increase,       \* limit_increase_amount
    Headroom,       \* iterations granted for a connection error
    Finals,         \* whether a final turn is given: a set of BOOLEANs
    Stricts,        \* whether the watchdog's cooldown is longer than its timeout, the same
    Tasks,          \* bound: ids of queued retries
    ErrorCap,       \* bound: stands for every larger number of errors
    MaxOutages,     \* bound: connection errors, each of which grants iterations
    MaxMessages,    \* bound: messages of the user after the first
    MaxFaults       \* bound: failing saves, runtime errors and stops

ASSUME RecoveryConstants ==
    /\ MaxRetries \in Nat \ {0} /\ MaxErrors \in Nat \ {0} /\ WarningLimit \in Nat \ {0}
    /\ MaxSurvivable \in Nat /\ MaxIterations \in Nat \ {0}
    /\ Increase \in Nat /\ Headroom \in Nat
    /\ Finals \subseteq BOOLEAN /\ Stricts \subseteq BOOLEAN
    /\ ErrorCap \in Nat /\ ErrorCap > MaxErrors
    /\ MaxOutages \in Nat /\ MaxMessages \in Nat /\ MaxFaults \in Nat

VARIABLES
    agent,      \* state.agent_state
    asked,      \* a step is requested
    step,       \* who is inside the step lock: none, a step, or the final turn
    pausing,    \* a recovery sleeps before it asks for another step
    errors,     \* consecutive_errors of the breaker
    trips,      \* __step_guard_warning_trip_counts, whose keys name the error count
    survived,   \* __survivable_error_consecutive
    iters,      \* iteration_flag.current_value
    limit,      \* iteration_flag.max_value
    hit,        \* iteration_flag._hit_limit
    final,      \* graceful shutdown: off, unused, due, turn, rest, over
    saved,      \* its original_max
    queued,     \* retry tasks in the queue
    attempts,   \* task -> times it was fetched
    count,      \* _retry_count
    pending,    \* _retry_pending
    strict,     \* configuration: the cooldown is longer than the timeout
    revived,    \* auto_recover_attempted of the watchdog
    outages, messages, faults,  \* bounds
    fired,      \* history: retries that resumed the agent since an action or the user
    granted     \* history: iterations granted so far

flags   == <<iters, limit, hit, granted>>
guard   == <<errors, trips>>
retry   == <<queued, attempts, count, pending, fired>>
grace   == <<final, saved>>
bounds  == <<outages, messages, faults>>
vars    == <<agent, asked, step, pausing, errors, trips, survived, iters, limit, hit, final,
             saved, queued, attempts, count, pending, strict, revived, outages, messages,
             faults, fired, granted>>

\* VALID_TRANSITIONS.  Of the confirmation gate PendingActions has the rest.
Allowed == [
    loading      |-> {"running", "awaiting", "error", "stopped"},
    running      |-> {"stopped", "finished", "error", "rate_limited", "retrying", "awaiting",
                      "confirming", "rejected"},
    stopped      |-> {"loading", "running", "awaiting"},
    finished     |-> {"running", "loading", "stopped"},
    rejected     |-> {"running", "stopped", "error"},
    error        |-> {"running", "loading", "stopped"},
    awaiting     |-> {"running", "stopped", "error"},
    confirming   |-> {"running", "awaiting", "stopped", "error"},
    retrying     |-> {"running", "stopped", "error", "awaiting"},
    rate_limited |-> {"running", "stopped", "error", "awaiting"}]

Waiting   == {"rate_limited", "retrying"}                 \* for a retry
EndStates == {"awaiting", "finished", "error", "stopped"} \* the interface takes a message
TripKeys  == MaxErrors .. ErrorCap - 1

TypeOK ==
    /\ agent \in DOMAIN Allowed
    /\ asked \in BOOLEAN /\ pausing \in BOOLEAN /\ hit \in BOOLEAN
    /\ step \in {"none", "step", "final"}
    /\ errors \in 0 .. ErrorCap
    /\ trips \in [TripKeys -> 0 .. WarningLimit]
    /\ survived \in 0 .. MaxSurvivable
    /\ iters \in Nat /\ limit \in Nat /\ saved \in Nat /\ granted \in Nat
    /\ final \in {"off", "unused", "due", "turn", "rest", "over"}
    /\ queued \in SUBSET Tasks
    /\ attempts \in [Tasks -> 0 .. MaxRetries]
    /\ count \in 0 .. MaxRetries
    /\ pending \in BOOLEAN /\ strict \in BOOLEAN /\ revived \in BOOLEAN
    /\ outages \in 0 .. MaxOutages /\ messages \in 0 .. MaxMessages /\ faults \in 0 .. MaxFaults
    /\ fired \in 0 .. MaxRetries + 1

Init ==
    /\ agent = "loading"
    /\ asked = FALSE /\ step = "none" /\ pausing = FALSE
    /\ errors = 0 /\ trips = [k \in TripKeys |-> 0] /\ survived = 0
    /\ iters = 0 /\ limit = MaxIterations /\ hit = FALSE /\ granted = MaxIterations
    /\ final \in {IF f THEN "unused" ELSE "off" : f \in Finals} /\ saved = 0
    /\ queued = {} /\ attempts = [t \in Tasks |-> 0] /\ count = 0 /\ pending = FALSE
    /\ strict \in Stricts /\ revived = FALSE
    /\ outages = 0 /\ messages = 0 /\ faults = 0 /\ fired = 0

-----------------------------------------------------------------------------
(* set_agent_state *)

\* The watchdog's task, and what it remembers, ends when the agent leaves RUNNING.
Enter(new) ==
    /\ agent' = new
    /\ revived' = IF new = "running" /\ agent = "running" THEN revived ELSE FALSE

\* _handle_error_recovery, before RUNNING is entered: leaving ERROR grants iterations if
\* the limit was hit, here h, and leaving AWAITING_USER_INPUT resets the breaker's
\* counters, here e.
LeaveFailure(e, h) ==
    LET more == IF agent = "error" /\ h THEN Increase ELSE 0 IN
    /\ limit' = limit + more /\ granted' = granted + more
    /\ hit' = (h /\ agent # "error")
    /\ errors' = IF agent = "awaiting" THEN 0 ELSE e

ToRunning(e, h) == Enter("running") /\ LeaveFailure(e, h)

Raised(e)  == IF e < ErrorCap THEN e + 1 ELSE e
Decayed(e) == IF e > 0 THEN e - 1 ELSE 0

ResetRetryMetrics == count' = 0 /\ pending' = FALSE

\* _set_awaiting_user_input_if_allowed, in the state s.
ReturnToUser(s) ==
    IF "awaiting" \in Allowed[s]
    THEN Enter("awaiting") /\ ResetRetryMetrics
    ELSE Enter(s) /\ UNCHANGED <<count, pending>>

-----------------------------------------------------------------------------
(* The user *)

\* A message ends the turn's warnings and starts the agent, whatever ended the last one.
\* (The first one has nothing to reset.)
UserMessage ==
    /\ agent \in EndStates \cup {"loading"}
    /\ IF agent = "loading" THEN UNCHANGED messages
       ELSE messages < MaxMessages /\ messages' = messages + 1
    /\ ToRunning(0, hit)
    /\ trips' = [k \in TripKeys |-> 0]
    /\ asked' = TRUE
    /\ fired' = 0
    /\ UNCHANGED <<step, pausing, survived, iters, grace, queued, attempts, count, pending,
                   strict, outages, faults>>

\* The interrupt key: the step's task is cancelled and its requests forgotten.  A
\* recovery that sleeps and the final turn are tasks of their own.  The queue is kept.
Stop ==
    /\ agent \in {"running"} \cup Waiting
    /\ faults < MaxFaults /\ faults' = faults + 1
    /\ Enter("stopped")
    /\ asked' = FALSE
    /\ step' = IF step = "step" THEN "none" ELSE step
    /\ UNCHANGED <<pausing, guard, survived, flags, grace, retry, strict, outages, messages>>

\* The runtime reports an error (_handle_error_status).
RuntimeFails ==
    /\ agent \notin {"stopped", "finished", "loading"} /\ "error" \in Allowed[agent]
    /\ faults < MaxFaults /\ faults' = faults + 1
    /\ Enter("error")
    /\ UNCHANGED <<asked, step, pausing, guard, survived, flags, grace, retry, strict, outages,
                   messages>>

-----------------------------------------------------------------------------
(* The beginning of a step: prerequisites, step guard, control flags *)

\* The warnings given for this number of errors: each number has a key of its own, and
\* what ErrorCap stands for is always a new one.
Warnings   == IF errors = ErrorCap THEN 0 ELSE trips[errors]
Tripped    == errors >= MaxErrors
Enforced   == Tripped /\ Warnings >= WarningLimit
GuardState == IF Enforced THEN "stopped" ELSE agent

\* _check_circuit_breaker.  Its answer is ignored: the step goes on.
Guarded ==
    trips' = IF Tripped /\ errors < ErrorCap /\ ~Enforced
             THEN [trips EXCEPT ![errors] = @ + 1] ELSE trips

AtLimit == iters >= limit

\* The limit raises: the error is recorded, the final turn is scheduled once, and from
\* then on nothing else is done; without a final turn control returns to the user.
LimitRaises(phase) ==
    /\ hit' = TRUE
    /\ errors' = Raised(errors)
    /\ final' = phase
    /\ IF final = "off" THEN ReturnToUser(GuardState)
       ELSE Enter(GuardState) /\ UNCHANGED <<count, pending>>
    /\ UNCHANGED <<iters, limit, granted>>

CannotStep ==
    /\ asked /\ step = "none" /\ agent # "running"
    /\ asked' = FALSE
    /\ UNCHANGED <<agent, step, pausing, guard, survived, flags, grace, retry, strict, revived,
                   bounds>>

StepHitsLimit ==
    /\ asked /\ step = "none" /\ agent = "running" /\ AtLimit
    /\ asked' = FALSE
    /\ Guarded /\ LimitRaises(IF final = "unused" THEN "due" ELSE final)
    /\ UNCHANGED <<step, pausing, survived, saved, queued, attempts, fired, strict, bounds>>

StepBegins ==
    /\ asked /\ step = "none" /\ agent = "running" /\ ~AtLimit
    /\ asked' = FALSE /\ step' = "step"
    /\ Guarded /\ Enter(GuardState)
    /\ iters' = iters + 1 /\ hit' = FALSE
    /\ UNCHANGED <<pausing, errors, survived, limit, granted, grace, retry, strict, bounds>>

-----------------------------------------------------------------------------
(* How a step ends *)

StepEnds ==
    /\ step' = "none"
    /\ final' = IF step = "final" THEN "rest" ELSE final

\* An action was chosen: retries start from zero, and if the agent is still RUNNING it
\* is executed, its observation is counted, and the next step is requested.
StepActs ==
    /\ step # "none"
    /\ StepEnds
    /\ count' = 0
    /\ pending' = IF count > 0 THEN FALSE ELSE pending
    /\ IF agent = "running"
       THEN /\ errors' \in {Decayed(errors), errors, Raised(errors)}
            /\ survived' = 0 /\ fired' = 0 /\ asked' = TRUE
       ELSE UNCHANGED <<errors, survived, fired, asked>>
    /\ UNCHANGED <<agent, pausing, trips, flags, saved, queued, attempts, strict, revived, bounds>>

\* The answer ends the turn: a final response, or a question.
StepAnswers(new) ==
    /\ step # "none" /\ agent = "running"
    /\ StepEnds
    /\ count' = 0
    /\ pending' = IF count > 0 THEN FALSE ELSE pending
    /\ Enter(new)
    /\ survived' = 0 /\ fired' = 0
    /\ UNCHANGED <<asked, pausing, guard, flags, saved, queued, attempts, strict, bounds>>

\* No action: repairs are exhausted (ERROR), or the liveness guard asks the user.
StepYieldsNothing(new) ==
    /\ step # "none"
    /\ StepEnds
    /\ IF agent = "running" THEN Enter(new) ELSE UNCHANGED <<agent, revived>>
    /\ UNCHANGED <<asked, pausing, guard, survived, flags, saved, retry, strict, bounds>>

\* The context window is exceeded and a compaction is requested: another step with it, by
\* the recovery service only while the agent is RUNNING.
ContextOverflows ==
    /\ step # "none"
    /\ StepEnds
    /\ \/ asked' = TRUE
       \/ step = "step" /\ agent # "running" /\ UNCHANGED asked
    /\ UNCHANGED <<agent, pausing, guard, survived, flags, saved, retry, strict, revived, bounds>>

\* The other hard stops, exhausted quotas; the breaker does not count them.
HardError ==
    /\ step = "step" /\ step' = "none"
    /\ ReturnToUser(agent)
    /\ UNCHANGED <<asked, pausing, guard, survived, flags, grace, queued, attempts, fired,
                   strict, bounds>>

\* Mutant: the backstop is gone.
SurvivableError_NoBackstop ==
    /\ step = "step" /\ step' = "none"
    /\ errors' = Raised(errors)
    /\ survived' = survived + 1 /\ pausing' = TRUE
    /\ UNCHANGED <<agent, count, pending, revived>>
    /\ UNCHANGED <<asked, trips, flags, grace, queued, attempts, fired, strict, bounds>>

\* _continue_after_survivable_error: stay, pause and step again, up to a backstop.
SurvivableError ==
    /\ step = "step" /\ step' = "none"
    /\ errors' = Raised(errors)
    /\ IF survived >= MaxSurvivable
       THEN survived' = 0 /\ ReturnToUser(agent) /\ UNCHANGED pausing
       ELSE /\ survived' = survived + 1 /\ pausing' = TRUE
            /\ UNCHANGED <<agent, count, pending, revived>>
    /\ UNCHANGED <<asked, trips, flags, grace, queued, attempts, fired, strict, bounds>>

PauseEnds ==
    /\ pausing /\ pausing' = FALSE
    /\ asked' = (asked \/ agent = "running")
    /\ UNCHANGED <<agent, step, guard, survived, flags, grace, retry, strict, revived, bounds>>

\* schedule_retry_after_failure: a task unless one is pending, until retries run out.
Schedule(t, headroom) ==
    /\ t \in Tasks \ queued
    /\ queued' = queued \cup {t}
    /\ attempts' = [attempts EXCEPT ![t] = 0]
    /\ count' = count + 1 /\ pending' = TRUE
    /\ limit' = limit + headroom /\ granted' = granted + headroom

\* A rate limit, or a failure of the transport; a lost connection (headroom) grants
\* iterations.
TransientError(new, headroom) ==
    /\ step = "step" /\ step' = "none"
    /\ IF headroom > 0 THEN outages < MaxOutages /\ outages' = outages + 1
       ELSE UNCHANGED outages
    /\ \/ agent # "running"
          /\ UNCHANGED <<agent, revived, queued, attempts, count, pending, limit, granted>>
       \/ agent = "running" /\ pending
          /\ Enter(new) /\ UNCHANGED <<queued, attempts, count, pending, limit, granted>>
       \/ agent = "running" /\ ~pending /\ count < MaxRetries
          /\ Enter(new) /\ \E t \in Tasks : Schedule(t, headroom)
       \/ agent = "running" /\ ~pending /\ count >= MaxRetries
          /\ ReturnToUser(agent) /\ UNCHANGED <<queued, attempts, limit, granted>>
    /\ UNCHANGED <<asked, pausing, guard, survived, iters, hit, grace, fired, strict, messages,
                   faults>>

-----------------------------------------------------------------------------
(* The retry worker *)

\* Mutant: the flag stays up after the retry.
WorkerFires_KeepsPending(t) ==
    /\ t \in queued
    /\ queued' = queued \ {t}
    /\ attempts' = [attempts EXCEPT ![t] = 0]
    /\ count' = 0 /\ UNCHANGED pending
    /\ IF AtLimit
       THEN /\ hit' = TRUE
            /\ Enter(IF "awaiting" \in Allowed[agent] THEN "awaiting" ELSE agent)
            /\ UNCHANGED <<errors, limit, granted, asked, fired>>
       ELSE /\ ToRunning(Decayed(errors), FALSE)
            /\ asked' = TRUE
            /\ fired' = IF fired <= MaxRetries THEN fired + 1 ELSE fired
    /\ UNCHANGED <<step, pausing, trips, survived, iters, grace, strict, bounds>>

\* Mutant: at the limit the task is dropped and nobody is told.
WorkerFires_AbortsSilently(t) ==
    /\ t \in queued
    /\ queued' = queued \ {t}
    /\ attempts' = [attempts EXCEPT ![t] = 0]
    /\ ResetRetryMetrics
    /\ IF AtLimit
       THEN /\ hit' = TRUE
            /\ UNCHANGED <<agent, revived, errors, limit, granted, asked, fired>>
       ELSE /\ ToRunning(Decayed(errors), FALSE)
            /\ asked' = TRUE
            /\ fired' = IF fired <= MaxRetries THEN fired + 1 ELSE fired
    /\ UNCHANGED <<step, pausing, trips, survived, iters, grace, strict, bounds>>

\* A due task resumes the agent, whatever the agent does by then, unless the limit is
\* reached, which the question itself records; both count as a success of the retry.
WorkerFires(t) ==
    /\ t \in queued
    /\ queued' = queued \ {t}
    /\ attempts' = [attempts EXCEPT ![t] = 0]
    /\ ResetRetryMetrics
    /\ IF AtLimit
       THEN /\ hit' = TRUE
            /\ Enter(IF "awaiting" \in Allowed[agent] THEN "awaiting" ELSE agent)
            /\ UNCHANGED <<errors, limit, granted, asked, fired>>
       ELSE /\ ToRunning(Decayed(errors), FALSE)
            /\ asked' = TRUE
            /\ fired' = IF fired <= MaxRetries THEN fired + 1 ELSE fired
    /\ UNCHANGED <<step, pausing, trips, survived, iters, grace, strict, bounds>>

\* The transition is made, then saving the state fails and no step is requested.  An
\* OSError loses the task; after another error it waits for its next attempt, or the
\* agent returns to the prompt.
WorkerFails(t) ==
    /\ t \in queued /\ agent # "running" /\ ~AtLimit
    /\ faults < MaxFaults /\ faults' = faults + 1
    /\ \/ /\ queued' = queued \ {t} /\ UNCHANGED attempts
          /\ pending' = FALSE /\ UNCHANGED count
          /\ ToRunning(Decayed(errors), FALSE)
       \/ /\ attempts[t] + 1 < MaxRetries
          /\ attempts' = [attempts EXCEPT ![t] = @ + 1]
          /\ ToRunning(Decayed(errors), FALSE)
          /\ UNCHANGED <<queued, count, pending>>
       \/ /\ attempts[t] + 1 >= MaxRetries
          /\ queued' = queued \ {t} /\ UNCHANGED attempts
          /\ ResetRetryMetrics
          /\ LeaveFailure(Decayed(errors), FALSE) /\ Enter("awaiting")
    /\ UNCHANGED <<asked, step, pausing, trips, survived, iters, grace, strict, outages, messages,
                   fired>>

-----------------------------------------------------------------------------
(* The final turn *)

Unfinished == agent \notin {"finished", "error"} /\ "finished" \in Allowed[agent]

\* The limit is moved one iteration up, after a notice that asks for a step as well.
FinalPrepares ==
    /\ final = "due" /\ final' = "turn"
    /\ saved' = limit /\ limit' = iters + 1
    /\ asked' = (asked \/ agent = "running")
    /\ UNCHANGED <<agent, step, pausing, guard, survived, iters, hit, granted, retry, strict,
                   revived, bounds>>

FinalBegins ==
    /\ final = "turn" /\ step = "none"
    /\ \/ agent # "running" /\ final' = "rest"
          /\ UNCHANGED <<agent, revived, step, guard, flags, count, pending>>
       \/ agent = "running" /\ AtLimit
          /\ Guarded /\ LimitRaises("rest") /\ UNCHANGED step
       \/ agent = "running" /\ ~AtLimit
          /\ step' = "final" /\ Guarded /\ Enter(GuardState)
          /\ iters' = iters + 1 /\ hit' = FALSE
          /\ UNCHANGED <<errors, limit, granted, final, count, pending>>
    /\ UNCHANGED <<asked, pausing, survived, saved, queued, attempts, fired, strict, bounds>>

\* The exception ends the final turn only: the limit stays where it was moved.
FinalTurnRaises ==
    /\ step = "final" /\ step' = "none" /\ final' = "over"
    /\ Enter(IF Unfinished THEN "finished" ELSE agent)
    /\ UNCHANGED <<asked, pausing, guard, survived, flags, saved, retry, strict, bounds>>

\* Mutant: the final turn may be given again.
FinalRests_Reopens ==
    /\ final = "rest" /\ final' = "unused"
    /\ limit' = saved
    /\ Enter(IF Unfinished THEN "finished" ELSE agent)
    /\ UNCHANGED <<asked, step, pausing, guard, survived, iters, hit, granted, saved, retry,
                   strict, bounds>>

\* Two seconds later the limit is put back and partial completion is forced.
FinalRests ==
    /\ final = "rest" /\ final' = "over"
    /\ limit' = saved
    /\ Enter(IF Unfinished THEN "finished" ELSE agent)
    /\ UNCHANGED <<asked, step, pausing, guard, survived, iters, hit, granted, saved, retry,
                   strict, bounds>>

-----------------------------------------------------------------------------
(* The watchdog: its timeout is longer than a pause and the rest of a final turn *)

Idle == step = "none" /\ ~asked /\ ~pausing /\ final \notin {"due", "turn", "rest"}

WatchdogSeesWork ==
    /\ agent = "running" /\ step # "none" /\ revived
    /\ revived' = FALSE
    /\ UNCHANGED <<agent, asked, step, pausing, guard, survived, flags, grace, retry, strict,
                   bounds>>

\* Mutant: the request fails, and its exception is swallowed.
WatchdogFires_Swallows ==
    /\ agent = "running" /\ Idle
    /\ IF revived /\ strict THEN Enter("error") ELSE revived' = TRUE /\ UNCHANGED agent
    /\ UNCHANGED <<asked, step, pausing, guard, survived, flags, grace, retry, strict, bounds>>

\* No progress: another step is requested; a second time it is an error only if the
\* cooldown of the first recovery still lasts.
WatchdogFires ==
    /\ agent = "running" /\ Idle
    /\ IF revived /\ strict
       THEN Enter("error") /\ UNCHANGED asked
       ELSE asked' = TRUE /\ revived' = TRUE /\ UNCHANGED agent
    /\ UNCHANGED <<step, pausing, guard, survived, flags, grace, retry, strict, bounds>>

-----------------------------------------------------------------------------
StepStarts == CannotStep \/ StepHitsLimit \/ StepBegins

StepDone ==
    \/ StepActs
    \/ \E new \in {"finished", "awaiting"} : StepAnswers(new)
    \/ \E new \in {"error", "awaiting"} : StepYieldsNothing(new)
    \/ ContextOverflows \/ HardError \/ SurvivableError
    \/ \E new \in Waiting : TransientError(new, 0)
    \/ TransientError("retrying", Headroom)
    \/ FinalTurnRaises

Worker == \E t \in Tasks : WorkerFires(t)

FinalTurn == FinalPrepares \/ FinalBegins \/ FinalRests

Next ==
    \/ UserMessage \/ Stop \/ RuntimeFails
    \/ StepStarts \/ StepDone \/ PauseEnds
    \/ Worker \/ \E t \in Tasks : WorkerFails(t)
    \/ FinalTurn
    \/ WatchdogSeesWork \/ WatchdogFires

Spec == Init /\ [][Next]_vars

\* The event loop runs every ready task: a requested step starts, a call of the model
\* returns or raises, sleeps end, and the worker and the watchdog poll.  The user and the
\* faults owe nothing.
Fairness ==
    /\ WF_vars(StepStarts) /\ WF_vars(StepDone) /\ WF_vars(PauseEnds)
    /\ WF_vars(Worker) /\ WF_vars(FinalTurn) /\ WF_vars(WatchdogFires)

FairSpec == Spec /\ Fairness

-----------------------------------------------------------------------------
(* Properties *)

\* An agent that waits for a retry has one in the queue: schedule_retry_after_failure
\* answers "scheduled" from a flag that the worker, the user's turn and the steps clear at
\* other moments than they touch the queue.
NoForgottenRetry == agent \in Waiting => queued # {}

\* Iterations are spent only as granted, plus the one of the final turn, which moves the
\* limit, sleeps and puts it back while retries, errors and the user move it as well.
IterationBudget == iters <= granted + 1

\* An agent that runs within its limit gets to a step, whatever was lost: a request made
\* while the step could not start, a retry whose save failed, a turn without an action.
RunningProgresses ==
    agent = "running" /\ iters < limit ~> step # "none" \/ agent # "running" \/ iters >= limit

\* The wait for a retry ends: the worker resumes the agent or hands it back to the user,
\* the limit reached meanwhile included.
RetryResumes == agent \in Waiting ~> agent \notin Waiting

\* The retries of an episode without an action are bounded: "bounded by
\* RetryQueue.max_retries (falls back to AWAITING_USER_INPUT when ... retries are exhausted)".
RetriesBounded == fired <= MaxRetries
=============================================================================
