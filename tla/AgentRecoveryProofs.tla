------------------------ MODULE AgentRecoveryProofs ------------------------
(***************************************************************************)
(* Proofs about AgentRecovery, for every limit, any set of task ids and    *)
(* any number of errors, messages and faults: the types, that a waiting    *)
(* agent has its retry, and that the iterations stay within what was       *)
(* granted and the final turn.                                             *)
(*                                                                         *)
(* The retries and the budget do not depend on each other: each has an     *)
(* invariant of its own, inductive together with the types.                *)
(***************************************************************************)
EXTENDS AgentRecovery, TLAPS

\* The flag that suppresses a second retry is up only while one is queued.
PendingHasTask == pending => queued # {}

RetryInv == PendingHasTask /\ NoForgottenRetry

\* Until its final turn the agent is within what was granted; what the turn saves to put
\* back is so too, and the turn itself is worth one iteration.
Within == final \in {"off", "unused", "due"} => limit <= granted /\ iters <= granted

BudgetInv == IterationBudget /\ limit <= granted + 1 /\ saved <= granted /\ Within

-----------------------------------------------------------------------------
(* The state graph *)

States == {"loading", "running", "stopped", "finished", "rejected", "error", "awaiting",
           "confirming", "retrying", "rate_limited"}

\* What the proofs need to know of the graph: its states, and that each that waits for a
\* retry may return to the user.
LEMMA Graph ==
  /\ DOMAIN Allowed = States
  /\ \A s \in Waiting \cup {"running"} : "awaiting" \in Allowed[s]
BY DEF Allowed, States, Waiting

-----------------------------------------------------------------------------
(* The building blocks of the actions *)

\* A transition ends in the state it names and keeps the watchdog's flag a flag.
LEMMA EnterEffect ==
  ASSUME NEW new \in States, Enter(new), revived \in BOOLEAN
  PROVE  agent' = new /\ agent' \in DOMAIN Allowed /\ revived' \in BOOLEAN
BY Graph DEF Enter

\* Leaving a failure grants as many iterations as it moves the limit, never fewer than none.
LEMMA LeaveFailureEffect ==
  ASSUME TypeOK, NEW e \in 0 .. ErrorCap, NEW h \in BOOLEAN, LeaveFailure(e, h)
  PROVE  /\ limit' \in Nat /\ granted' \in Nat /\ hit' \in BOOLEAN /\ errors' \in 0 .. ErrorCap
         /\ limit' - limit = granted' - granted /\ granted' >= granted
BY RecoveryConstants DEF TypeOK, LeaveFailure

\* The count of errors stays below its cap.
LEMMA ErrorsType ==
  ASSUME TypeOK
  PROVE  Raised(errors) \in 0 .. ErrorCap /\ Decayed(errors) \in 0 .. ErrorCap
BY RecoveryConstants DEF TypeOK, Raised, Decayed

\* The step guard counts a warning only below the limit, and may stop the agent.
LEMMA GuardedEffect ==
  ASSUME TypeOK, Guarded
  PROVE  trips' \in [TripKeys -> 0 .. WarningLimit] /\ GuardState \in {"stopped", agent}
<1>1. CASE Tripped /\ errors < ErrorCap /\ ~Enforced
  <2>1. errors \in TripKeys /\ trips[errors] \in 0 .. WarningLimit /\ trips[errors] < WarningLimit
    BY <1>1, RecoveryConstants DEF TypeOK, TripKeys, Tripped, Enforced, Warnings
  <2>2. trips' = [trips EXCEPT ![errors] = @ + 1]
    BY <1>1 DEF Guarded
  <2> QED
    BY <2>1, <2>2, RecoveryConstants DEF TypeOK, GuardState
<1>2. CASE ~(Tripped /\ errors < ErrorCap /\ ~Enforced)
  BY <1>2 DEF Guarded, TypeOK, GuardState
<1> QED
  BY <1>1, <1>2

\* The return to the user ends in AWAITING_USER_INPUT or where it began, and never
\* raises the flag of a pending retry.
LEMMA ReturnToUserEffect ==
  ASSUME TypeOK, NEW s \in States, ReturnToUser(s)
  PROVE  /\ agent' \in {"awaiting", s} /\ agent' \in DOMAIN Allowed /\ revived' \in BOOLEAN
         /\ count' \in 0 .. MaxRetries /\ pending' \in BOOLEAN /\ (pending' => pending)
         /\ "awaiting" \in Allowed[s] => agent' = "awaiting"
<1>1. CASE "awaiting" \in Allowed[s]
  <2>1. Enter("awaiting") /\ count' = 0 /\ pending' = FALSE
    BY <1>1 DEF ReturnToUser, ResetRetryMetrics
  <2>2. agent' = "awaiting" /\ agent' \in DOMAIN Allowed /\ revived' \in BOOLEAN
    BY <2>1, EnterEffect DEF TypeOK, States
  <2>3. count' \in 0 .. MaxRetries
    BY <2>1, RecoveryConstants
  <2>4. pending' \in BOOLEAN /\ (pending' => pending)
    BY <2>1
  <2> QED
    BY <2>2, <2>3, <2>4
<1>2. CASE "awaiting" \notin Allowed[s]
  <2>1. Enter(s) /\ count' = count /\ pending' = pending
    BY <1>2 DEF ReturnToUser
  <2>2. agent' = s /\ agent' \in DOMAIN Allowed /\ revived' \in BOOLEAN
    BY <2>1, EnterEffect DEF TypeOK
  <2> QED
    BY <1>2, <2>1, <2>2 DEF TypeOK
<1> QED
  BY <1>1, <1>2

-----------------------------------------------------------------------------
(* The types *)

\* Every step keeps the types.
LEMMA TypeStep ==
  ASSUME TypeOK, [Next]_vars
  PROVE  TypeOK'
<1> USE RecoveryConstants, Graph DEF States
<1>1. CASE UserMessage
  <2>1. Enter("running") /\ LeaveFailure(0, hit) /\ 0 \in 0 .. ErrorCap
    BY <1>1 DEF UserMessage, ToRunning
  <2> QED
    BY <1>1, <2>1, EnterEffect, LeaveFailureEffect DEF UserMessage, TypeOK, grace
<1>2. CASE Stop
  <2>1. agent' \in DOMAIN Allowed /\ revived' \in BOOLEAN
    BY <1>2, EnterEffect DEF Stop, TypeOK
  <2>2. faults' \in 0 .. MaxFaults /\ step' \in {"none", "step", "final"}
    BY <1>2 DEF Stop, TypeOK
  <2> QED
    BY <1>2, <2>1, <2>2 DEF Stop, TypeOK, guard, flags, grace, retry
<1>3. CASE RuntimeFails
  BY <1>3, EnterEffect DEF RuntimeFails, TypeOK, guard, flags, grace, retry
<1>4. CASE CannotStep
  BY <1>4 DEF CannotStep, TypeOK, guard, flags, grace, retry, bounds
<1>5. CASE StepHitsLimit
  <2>1. /\ agent' \in DOMAIN Allowed /\ revived' \in BOOLEAN
        /\ count' \in 0 .. MaxRetries /\ pending' \in BOOLEAN
    <3>1. GuardState \in States
      BY <1>5, GuardedEffect DEF StepHitsLimit, TypeOK
    <3>2. CASE final = "off"
      BY <1>5, <3>1, <3>2, ReturnToUserEffect DEF StepHitsLimit, LimitRaises
    <3>3. CASE final # "off"
      BY <1>5, <3>1, <3>3, EnterEffect DEF StepHitsLimit, LimitRaises, TypeOK
    <3> QED
      BY <3>2, <3>3
  <2> QED
    BY <1>5, <2>1, GuardedEffect, ErrorsType
       DEF StepHitsLimit, LimitRaises, TypeOK, bounds
<1>6. CASE StepBegins
  <2>1. GuardState \in States
    BY <1>6, GuardedEffect DEF StepBegins, TypeOK
  <2>2. agent' \in DOMAIN Allowed /\ revived' \in BOOLEAN
    BY <1>6, <2>1, EnterEffect DEF StepBegins, TypeOK
  <2>3. iters' \in Nat /\ hit' = FALSE
    BY <1>6 DEF StepBegins, TypeOK
  <2> QED
    BY <1>6, <2>2, <2>3, GuardedEffect DEF StepBegins, TypeOK, grace, retry, bounds
<1>7. CASE StepActs
  <2>1. pending' \in BOOLEAN
    BY <1>7 DEF StepActs, TypeOK
  <2>2. final' \in {"off", "unused", "due", "turn", "rest", "over"} /\ step' = "none"
    BY <1>7 DEF StepActs, StepEnds, TypeOK
  <2>3. /\ errors' \in 0 .. ErrorCap /\ survived' \in 0 .. MaxSurvivable
        /\ fired' \in 0 .. MaxRetries + 1 /\ asked' \in BOOLEAN
    <3>1. CASE agent = "running"
      BY <1>7, <3>1, ErrorsType DEF StepActs, TypeOK
    <3>2. CASE agent # "running"
      BY <1>7, <3>2 DEF StepActs, TypeOK
    <3> QED
      BY <3>1, <3>2
  <2>4. /\ count' = 0
        /\ UNCHANGED <<agent, pausing, trips, iters, limit, hit, granted, saved, queued, attempts,
                       strict, revived, outages, messages, faults>>
    BY <1>7 DEF StepActs, flags, bounds
  <2> QED
    BY <2>1, <2>2, <2>3, <2>4 DEF TypeOK
<1>8. ASSUME NEW new \in {"finished", "awaiting"}, StepAnswers(new)
      PROVE  TypeOK'
  <2>1. pending' \in BOOLEAN
    BY <1>8 DEF StepAnswers, TypeOK
  <2>2. final' \in {"off", "unused", "due", "turn", "rest", "over"} /\ step' = "none"
    BY <1>8 DEF StepAnswers, StepEnds, TypeOK
  <2>3. agent' \in DOMAIN Allowed /\ revived' \in BOOLEAN
    BY <1>8, EnterEffect DEF StepAnswers, TypeOK
  <2>4. /\ count' = 0 /\ survived' = 0 /\ fired' = 0
        /\ UNCHANGED <<asked, pausing, errors, trips, iters, limit, hit, granted, saved, queued,
                       attempts, strict, outages, messages, faults>>
    BY <1>8 DEF StepAnswers, guard, flags, bounds
  <2> QED
    BY <2>1, <2>2, <2>3, <2>4 DEF TypeOK
<1>9. ASSUME NEW new \in {"error", "awaiting"}, StepYieldsNothing(new)
      PROVE  TypeOK'
  BY <1>9, EnterEffect
     DEF StepYieldsNothing, StepEnds, TypeOK, guard, flags, retry, bounds
<1>10. CASE HardError
  BY <1>10, ReturnToUserEffect DEF HardError, TypeOK, guard, flags, grace, bounds
<1>11. CASE SurvivableError
  <2>1. CASE survived >= MaxSurvivable
    BY <1>11, <2>1, ReturnToUserEffect, ErrorsType
       DEF SurvivableError, TypeOK, flags, grace, bounds
  <2>2. CASE ~(survived >= MaxSurvivable)
    BY <1>11, <2>2, ErrorsType DEF SurvivableError, TypeOK, flags, grace, bounds
  <2> QED
    BY <2>1, <2>2
<1>12. ASSUME NEW new \in Waiting, NEW headroom \in Nat, TransientError(new, headroom)
       PROVE  TypeOK'
  <2>1. outages' \in 0 .. MaxOutages
    BY <1>12 DEF TransientError, TypeOK
  <2>2. new \in States
    BY DEF Waiting
  <2>3. count < MaxRetries <=> ~(count >= MaxRetries)
    BY DEF TypeOK
  <2>4. /\ agent' \in DOMAIN Allowed /\ revived' \in BOOLEAN
        /\ queued' \in SUBSET Tasks /\ attempts' \in [Tasks -> 0 .. MaxRetries]
        /\ count' \in 0 .. MaxRetries /\ pending' \in BOOLEAN
        /\ limit' \in Nat /\ granted' \in Nat
    <3>1. CASE agent # "running"
      BY <1>12, <3>1 DEF TransientError, TypeOK
    <3>2. CASE agent = "running" /\ pending
      BY <1>12, <2>2, <3>2, EnterEffect DEF TransientError, TypeOK
    <3>3. CASE agent = "running" /\ ~pending /\ count < MaxRetries
      <4>1. PICK t \in Tasks : Enter(new) /\ Schedule(t, headroom)
        BY <1>12, <2>3, <3>3 DEF TransientError
      <4>2. pending' \in BOOLEAN
        BY <4>1 DEF Schedule
      <4> QED
        BY <2>2, <3>3, <4>1, <4>2, EnterEffect DEF Schedule, TypeOK
    <3>4. CASE agent = "running" /\ ~pending /\ count >= MaxRetries
      <4>1. ReturnToUser(agent) /\ UNCHANGED <<queued, attempts, limit, granted>>
        BY <1>12, <2>3, <3>4 DEF TransientError
      <4> QED
        BY <4>1, ReturnToUserEffect DEF TypeOK
    <3> QED
      BY <2>3, <3>1, <3>2, <3>3, <3>4
  <2> QED
    BY <1>12, <2>1, <2>4 DEF TransientError, TypeOK, guard, grace
<1>13. CASE FinalTurnRaises
  BY <1>13, EnterEffect DEF FinalTurnRaises, TypeOK, guard, flags, retry, bounds
<1>14. CASE PauseEnds
  BY <1>14 DEF PauseEnds, TypeOK, guard, flags, grace, retry, bounds
<1>15. ASSUME NEW t \in Tasks, WorkerFires(t)
       PROVE  TypeOK'
  <2>1. /\ agent' \in DOMAIN Allowed /\ revived' \in BOOLEAN
        /\ errors' \in 0 .. ErrorCap /\ hit' \in BOOLEAN /\ asked' \in BOOLEAN
        /\ limit' \in Nat /\ granted' \in Nat /\ fired' \in 0 .. MaxRetries + 1
    <3>1. CASE AtLimit
      BY <1>15, <3>1, EnterEffect DEF WorkerFires, TypeOK
    <3>2. CASE ~AtLimit
      <4>1. Enter("running") /\ LeaveFailure(Decayed(errors), FALSE)
        BY <1>15, <3>2 DEF WorkerFires, ToRunning
      <4>2. asked' = TRUE /\ fired' \in 0 .. MaxRetries + 1
        BY <1>15, <3>2 DEF WorkerFires, TypeOK
      <4>3. agent' \in DOMAIN Allowed /\ revived' \in BOOLEAN
        BY <4>1, EnterEffect DEF TypeOK
      <4>4. /\ errors' \in 0 .. ErrorCap /\ hit' \in BOOLEAN
            /\ limit' \in Nat /\ granted' \in Nat
        BY <4>1, LeaveFailureEffect, ErrorsType
      <4> QED
        BY <4>2, <4>3, <4>4
    <3> QED
      BY <3>1, <3>2
  <2>2. /\ count' \in 0 .. MaxRetries /\ pending' = FALSE
        /\ queued' \in SUBSET Tasks /\ attempts' \in [Tasks -> 0 .. MaxRetries]
    BY <1>15 DEF WorkerFires, ResetRetryMetrics, TypeOK
  <2> QED
    BY <1>15, <2>1, <2>2 DEF WorkerFires, TypeOK, grace, bounds
<1>16. ASSUME NEW t \in Tasks, WorkerFails(t)
       PROVE  TypeOK'
  <2>1. LeaveFailure(Decayed(errors), FALSE) /\ \E new \in {"running", "awaiting"} : Enter(new)
    BY <1>16 DEF WorkerFails, ToRunning
  <2>2. /\ agent' \in DOMAIN Allowed /\ revived' \in BOOLEAN
        /\ errors' \in 0 .. ErrorCap /\ hit' \in BOOLEAN /\ limit' \in Nat /\ granted' \in Nat
    BY <2>1, EnterEffect, LeaveFailureEffect, ErrorsType DEF TypeOK
  <2>3. queued' \in SUBSET Tasks /\ attempts' \in [Tasks -> 0 .. MaxRetries]
    <3>1. \/ queued' = queued \ {t} /\ attempts' = attempts
          \/ /\ queued' = queued
             /\ attempts[t] + 1 < MaxRetries /\ attempts' = [attempts EXCEPT ![t] = @ + 1]
      BY <1>16 DEF WorkerFails
    <3> QED
      BY <3>1 DEF TypeOK
  <2>4. count' \in 0 .. MaxRetries
    <3>1. count' = count \/ count' = 0
      BY <1>16 DEF WorkerFails, ResetRetryMetrics
    <3> QED
      BY <3>1 DEF TypeOK
  <2>5. pending' \in BOOLEAN
    BY <1>16 DEF WorkerFails, ResetRetryMetrics, TypeOK
  <2> QED
    BY <1>16, <2>2, <2>3, <2>4, <2>5 DEF WorkerFails, TypeOK, grace
<1>17. CASE FinalPrepares
  BY <1>17 DEF FinalPrepares, TypeOK, guard, retry, bounds
<1>18. CASE FinalBegins
  <2>1. CASE agent # "running"
    BY <1>18, <2>1 DEF FinalBegins, TypeOK, guard, flags, bounds
  <2>2. CASE agent = "running" /\ AtLimit
    <3>1. final = "turn" /\ Guarded /\ LimitRaises("rest")
      BY <1>18, <2>2 DEF FinalBegins
    <3>2. Enter(GuardState) /\ GuardState \in States /\ UNCHANGED <<count, pending>>
      BY <3>1, GuardedEffect DEF LimitRaises, TypeOK
    <3> QED
      BY <1>18, <2>2, <3>1, <3>2, EnterEffect, GuardedEffect, ErrorsType
         DEF FinalBegins, LimitRaises, TypeOK, bounds
  <2>3. CASE agent = "running" /\ ~AtLimit
    <3>1. GuardState \in States /\ Guarded /\ Enter(GuardState)
      BY <1>18, <2>3, GuardedEffect DEF FinalBegins, TypeOK
    <3>2. agent' \in DOMAIN Allowed /\ revived' \in BOOLEAN
      BY <3>1, EnterEffect DEF TypeOK
    <3>3. iters' \in Nat /\ hit' = FALSE
      BY <1>18, <2>3 DEF FinalBegins, TypeOK
    <3> QED
      BY <1>18, <2>3, <3>1, <3>2, <3>3, GuardedEffect DEF FinalBegins, TypeOK, bounds
  <2> QED
    BY <2>1, <2>2, <2>3
<1>19. CASE FinalRests
  BY <1>19, EnterEffect DEF FinalRests, TypeOK, guard, retry, bounds
<1>20. CASE WatchdogSeesWork
  BY <1>20 DEF WatchdogSeesWork, TypeOK, guard, flags, grace, retry, bounds
<1>21. CASE WatchdogFires
  BY <1>21, EnterEffect DEF WatchdogFires, TypeOK, guard, flags, grace, retry, bounds
<1>22. CASE UNCHANGED vars
  BY <1>22 DEF vars, TypeOK
<1>23. CASE ContextOverflows
  BY <1>23 DEF ContextOverflows, StepEnds, TypeOK, guard, flags, retry, bounds
<1> QED
  BY <1>1, <1>2, <1>3, <1>4, <1>5, <1>6, <1>7, <1>8, <1>9, <1>10, <1>11, <1>12, <1>13, <1>14,
     <1>15, <1>16, <1>17, <1>18, <1>19, <1>20, <1>21, <1>22, <1>23
     DEF Next, StepStarts, StepDone, Worker, FinalTurn, Waiting

-----------------------------------------------------------------------------
(* A waiting agent has its retry *)

\* A step that leaves the queue and the flag alone and does not send the agent to wait.
LEMMA RetryFrame ==
  ASSUME RetryInv, queued' = queued, pending' => pending,
         agent' \in Waiting => agent \in Waiting
  PROVE  RetryInv'
BY DEF RetryInv, PendingHasTask, NoForgottenRetry

\* A step after which the flag is down and the agent does not wait.
LEMMA RetryOver ==
  ASSUME ~pending', agent' \notin Waiting
  PROVE  RetryInv'
BY DEF RetryInv, PendingHasTask, NoForgottenRetry

\* A step after which something is queued.
LEMMA RetryQueued ==
  ASSUME queued' # {}
  PROVE  RetryInv'
BY DEF RetryInv, PendingHasTask, NoForgottenRetry

\* Every step keeps the flag, the queue and the waiting agent in agreement.
LEMMA RetryStep ==
  ASSUME TypeOK, RetryInv, [Next]_vars
  PROVE  RetryInv'
<1>1. CASE UserMessage
  BY <1>1, RetryFrame DEF UserMessage, ToRunning, Enter, Waiting
<1>2. CASE Stop
  BY <1>2, RetryFrame DEF Stop, Enter, Waiting, retry
<1>3. CASE RuntimeFails
  BY <1>3, RetryFrame DEF RuntimeFails, Enter, Waiting, retry
<1>4. CASE CannotStep
  BY <1>4, RetryFrame DEF CannotStep, retry
<1>5. CASE StepHitsLimit
  <2>1. queued' = queued /\ (pending' => pending) /\ agent' \notin Waiting
    <3>1. GuardState \in {"running", "stopped"} /\ queued' = queued
      BY <1>5, GuardedEffect DEF StepHitsLimit
    <3>2. CASE final = "off"
      BY <1>5, <3>1, <3>2, ReturnToUserEffect DEF StepHitsLimit, LimitRaises, States, Waiting
    <3>3. CASE final # "off"
      BY <1>5, <3>1, <3>3 DEF StepHitsLimit, LimitRaises, Enter, Waiting
    <3> QED
      BY <3>1, <3>2, <3>3
  <2> QED
    BY <2>1, RetryFrame
<1>6. CASE StepBegins
  BY <1>6, RetryFrame, GuardedEffect DEF StepBegins, Enter, Waiting, retry
<1>7. CASE StepActs
  BY <1>7, RetryFrame DEF StepActs
<1>8. ASSUME NEW new \in {"finished", "awaiting"}, StepAnswers(new)
      PROVE  RetryInv'
  BY <1>8, RetryFrame DEF StepAnswers, Enter, Waiting
<1>9. ASSUME NEW new \in {"error", "awaiting"}, StepYieldsNothing(new)
      PROVE  RetryInv'
  BY <1>9, RetryFrame DEF StepYieldsNothing, Enter, Waiting, retry
<1>10. CASE HardError
  BY <1>10, RetryFrame, ReturnToUserEffect, Graph DEF HardError, TypeOK, Waiting
<1>11. CASE SurvivableError
  <2>1. CASE survived >= MaxSurvivable
    BY <1>11, <2>1, RetryFrame, ReturnToUserEffect, Graph DEF SurvivableError, TypeOK, Waiting
  <2>2. CASE ~(survived >= MaxSurvivable)
    BY <1>11, <2>2, RetryFrame DEF SurvivableError
  <2> QED
    BY <2>1, <2>2
<1>12. ASSUME NEW new \in Waiting, NEW headroom \in Nat, TransientError(new, headroom)
       PROVE  RetryInv'
  <2>0. count < MaxRetries <=> ~(count >= MaxRetries)
    BY RecoveryConstants DEF TypeOK
  <2>1. CASE agent # "running"
    BY <1>12, <2>1, RetryFrame DEF TransientError
  <2>2. CASE agent = "running" /\ pending
    BY <1>12, <2>2, RetryQueued DEF TransientError, RetryInv, PendingHasTask
  <2>3. CASE agent = "running" /\ ~pending /\ count < MaxRetries
    <3>1. PICK t \in Tasks : Schedule(t, headroom)
      BY <1>12, <2>0, <2>3 DEF TransientError
    <3> QED
      BY <3>1, RetryQueued DEF Schedule
  <2>4. CASE agent = "running" /\ ~pending /\ count >= MaxRetries
    <3>1. ReturnToUser(agent) /\ queued' = queued
      BY <1>12, <2>0, <2>4 DEF TransientError
    <3>2. agent' = "awaiting" /\ (pending' => pending)
      BY <2>4, <3>1, ReturnToUserEffect, Graph DEF States
    <3> QED
      BY <3>1, <3>2, RetryFrame DEF Waiting
  <2> QED
    BY <2>0, <2>1, <2>2, <2>3, <2>4
<1>13. CASE FinalTurnRaises
  BY <1>13, RetryFrame DEF FinalTurnRaises, Enter, Waiting, retry
<1>14. CASE PauseEnds
  BY <1>14, RetryFrame DEF PauseEnds, retry
<1>15. ASSUME NEW t \in Tasks, WorkerFires(t)
       PROVE  RetryInv'
  <2>1. ~pending'
    BY <1>15 DEF WorkerFires, ResetRetryMetrics
  <2>2. CASE AtLimit
    <3>1. agent' = IF "awaiting" \in Allowed[agent] THEN "awaiting" ELSE agent
      BY <1>15, <2>2 DEF WorkerFires, Enter
    <3> QED
      BY <2>1, <3>1, Graph, RetryOver DEF Waiting
  <2>3. CASE ~AtLimit
    BY <1>15, <2>1, <2>3, RetryOver DEF WorkerFires, ToRunning, Enter, Waiting
  <2> QED
    BY <2>2, <2>3
<1>16. ASSUME NEW t \in Tasks, WorkerFails(t)
       PROVE  RetryInv'
  <2>1. CASE t \in queued'
    BY <2>1, RetryQueued
  <2>2. CASE t \notin queued'
    <3>1. ~pending' /\ agent' \in {"running", "awaiting"}
      BY <1>16, <2>2 DEF WorkerFails, ToRunning, Enter, ResetRetryMetrics
    <3> QED
      BY <3>1, RetryOver DEF Waiting
  <2> QED
    BY <2>1, <2>2
<1>17. CASE FinalPrepares
  BY <1>17, RetryFrame DEF FinalPrepares, retry
<1>18. CASE FinalBegins
  <2>1. queued' = queued
    BY <1>18 DEF FinalBegins
  <2>2. CASE agent # "running"
    BY <1>18, <2>1, <2>2, RetryFrame DEF FinalBegins
  <2>3. CASE agent = "running" /\ ~AtLimit
    <3>1. agent' = GuardState /\ pending' = pending /\ Guarded
      BY <1>18, <2>3 DEF FinalBegins, Enter
    <3> QED
      BY <2>1, <2>3, <3>1, RetryFrame, GuardedEffect DEF Waiting
  <2>4. CASE agent = "running" /\ AtLimit
    <3>1. final = "turn" /\ GuardState \in {"running", "stopped"} /\ LimitRaises("rest")
      BY <1>18, <2>4, GuardedEffect DEF FinalBegins
    <3>2. (pending' => pending) /\ agent' \notin Waiting
      BY <3>1 DEF LimitRaises, Enter, Waiting
    <3> QED
      BY <2>1, <3>2, RetryFrame
  <2> QED
    BY <2>2, <2>3, <2>4
<1>19. CASE FinalRests
  BY <1>19, RetryFrame DEF FinalRests, Enter, Waiting, retry
<1>20. CASE WatchdogSeesWork
  BY <1>20, RetryFrame DEF WatchdogSeesWork, retry
<1>21. CASE WatchdogFires
  BY <1>21, RetryFrame DEF WatchdogFires, Enter, Waiting, retry
<1>22. CASE UNCHANGED vars
  BY <1>22, RetryFrame DEF vars
<1>23. CASE ContextOverflows
  BY <1>23, RetryFrame DEF ContextOverflows, retry
<1> QED
  BY <1>1, <1>2, <1>3, <1>4, <1>5, <1>6, <1>7, <1>8, <1>9, <1>10, <1>11, <1>12, <1>13, <1>14,
     <1>15, <1>16, <1>17, <1>18, <1>19, <1>20, <1>21, <1>22, <1>23, RecoveryConstants
     DEF Next, StepStarts, StepDone, Worker, FinalTurn, Waiting

-----------------------------------------------------------------------------
(* The budget *)

Early == {"off", "unused", "due"}

\* A step that grants what it moves the limit by, and neither spends nor saves.
LEMMA BudgetFrame ==
  ASSUME TypeOK, BudgetInv, iters' = iters, saved' = saved,
         limit' \in Nat, granted' \in Nat, limit' - limit = granted' - granted,
         granted' >= granted, final' \in Early => final \in Early
  PROVE  BudgetInv'
<1>1. /\ iters \in Nat /\ limit \in Nat /\ saved \in Nat /\ granted \in Nat
      /\ iters' \in Nat /\ saved' \in Nat
  BY DEF TypeOK
<1>2. iters <= granted + 1 /\ limit <= granted + 1 /\ saved <= granted
  BY DEF BudgetInv, IterationBudget
<1>3. iters' <= granted' + 1 /\ limit' <= granted' + 1 /\ saved' <= granted'
  <2>1. PICK g \in Nat, l \in Nat : g = granted' /\ l = limit'
    OBVIOUS
  <2>2. g >= granted /\ l - limit = g - granted
    BY <2>1
  <2>3. iters <= g + 1 /\ l <= g + 1 /\ saved <= g
    BY <1>1, <1>2, <2>2
  <2> QED
    BY <2>1, <2>3, Zenon
<1>4. ASSUME final' \in Early PROVE limit' <= granted' /\ iters' <= granted'
  <2>1. limit <= granted /\ iters <= granted
    BY <1>4 DEF BudgetInv, Within, Early
  <2> QED
    BY <1>1, <2>1
<1> QED
  BY <1>3, <1>4 DEF BudgetInv, IterationBudget, Within, Early

\* A step that leaves the numbers alone and does not go back before the final turn.
LEMMA BudgetStutter ==
  ASSUME TypeOK, BudgetInv, UNCHANGED flags, saved' = saved, final' \in Early => final \in Early
  PROVE  BudgetInv'
BY BudgetFrame DEF TypeOK, flags

\* One iteration is spent below the limit.
LEMMA BudgetSpend ==
  ASSUME TypeOK, BudgetInv, ~AtLimit, iters' = iters + 1, limit' = limit, granted' = granted,
         saved' = saved, final' = final
  PROVE  BudgetInv'
BY DEF TypeOK, BudgetInv, IterationBudget, Within, AtLimit

\* Every step keeps the iterations within what was granted and the final turn.
LEMMA BudgetStep ==
  ASSUME TypeOK, BudgetInv, [Next]_vars
  PROVE  BudgetInv'
<1>1. CASE UserMessage
  <2>1. limit' \in Nat /\ granted' \in Nat /\ limit' - limit = granted' - granted
        /\ granted' >= granted
    BY <1>1, LeaveFailureEffect, RecoveryConstants DEF UserMessage, ToRunning, TypeOK
  <2> QED
    BY <1>1, <2>1, BudgetFrame DEF UserMessage, grace
<1>2. CASE Stop
  BY <1>2, BudgetStutter DEF Stop, grace
<1>3. CASE RuntimeFails
  BY <1>3, BudgetStutter DEF RuntimeFails, grace
<1>4. CASE CannotStep
  BY <1>4, BudgetStutter DEF CannotStep, grace
<1>5. CASE StepHitsLimit
  <2>1. iters' = iters /\ limit' = limit /\ granted' = granted /\ saved' = saved
    BY <1>5 DEF StepHitsLimit, LimitRaises
  <2>2. final' \in Early => final \in Early
    BY <1>5 DEF StepHitsLimit, LimitRaises, Early
  <2> QED
    BY <2>1, <2>2, BudgetFrame DEF TypeOK
<1>6. CASE StepBegins
  BY <1>6, BudgetSpend DEF StepBegins, grace
<1>7. CASE StepActs
  BY <1>7, BudgetStutter DEF StepActs, StepEnds, Early
<1>8. ASSUME NEW new \in {"finished", "awaiting"}, StepAnswers(new)
      PROVE  BudgetInv'
  BY <1>8, BudgetStutter DEF StepAnswers, StepEnds, Early
<1>9. ASSUME NEW new \in {"error", "awaiting"}, StepYieldsNothing(new)
      PROVE  BudgetInv'
  BY <1>9, BudgetStutter DEF StepYieldsNothing, StepEnds, Early
<1>10. CASE HardError
  BY <1>10, BudgetStutter DEF HardError, grace
<1>11. CASE SurvivableError
  BY <1>11, BudgetStutter DEF SurvivableError, grace
<1>12. ASSUME NEW new \in Waiting, NEW headroom \in Nat, TransientError(new, headroom)
       PROVE  BudgetInv'
  <2>1. iters' = iters /\ saved' = saved /\ final' = final
    BY <1>12 DEF TransientError, grace
  <2>2. \/ limit' = limit /\ granted' = granted
        \/ limit' = limit + headroom /\ granted' = granted + headroom
    BY <1>12 DEF TransientError, Schedule
  <2> QED
    BY <2>1, <2>2, BudgetFrame DEF TypeOK
<1>13. CASE FinalTurnRaises
  BY <1>13, BudgetStutter DEF FinalTurnRaises, Early
<1>14. CASE PauseEnds
  BY <1>14, BudgetStutter DEF PauseEnds, grace
<1>15. ASSUME NEW t \in Tasks, WorkerFires(t)
       PROVE  BudgetInv'
  <2>1. iters' = iters /\ saved' = saved /\ final' = final
    BY <1>15 DEF WorkerFires, grace
  <2>2. CASE AtLimit
    BY <1>15, <2>1, <2>2, BudgetFrame DEF WorkerFires, TypeOK
  <2>3. CASE ~AtLimit
    <3>1. LeaveFailure(Decayed(errors), FALSE)
      BY <1>15, <2>3 DEF WorkerFires, ToRunning
    <3> QED
      BY <2>1, <3>1, ErrorsType, LeaveFailureEffect, BudgetFrame
  <2> QED
    BY <2>2, <2>3
<1>16. ASSUME NEW t \in Tasks, WorkerFails(t)
       PROVE  BudgetInv'
  <2>1. iters' = iters /\ saved' = saved /\ final' = final
    BY <1>16 DEF WorkerFails, grace
  <2>2. LeaveFailure(Decayed(errors), FALSE)
    BY <1>16 DEF WorkerFails, ToRunning
  <2> QED
    BY <2>1, <2>2, ErrorsType, LeaveFailureEffect, BudgetFrame
<1>17. CASE FinalPrepares
  BY <1>17 DEF FinalPrepares, TypeOK, BudgetInv, IterationBudget, Within
<1>18. CASE FinalBegins
  <2>1. CASE agent # "running"
    BY <1>18, <2>1, BudgetStutter DEF FinalBegins, Early
  <2>2. CASE agent = "running" /\ AtLimit
    <3>1. iters' = iters /\ limit' = limit /\ granted' = granted /\ saved' = saved
          /\ final' = "rest"
      BY <1>18, <2>2 DEF FinalBegins, LimitRaises
    <3> QED
      BY <3>1, BudgetFrame DEF TypeOK, Early
  <2>3. CASE agent = "running" /\ ~AtLimit
    BY <1>18, <2>3, BudgetSpend DEF FinalBegins
  <2> QED
    BY <2>1, <2>2, <2>3
<1>19. CASE FinalRests
  BY <1>19 DEF FinalRests, TypeOK, BudgetInv, IterationBudget, Within
<1>20. CASE WatchdogSeesWork
  BY <1>20, BudgetStutter DEF WatchdogSeesWork, grace
<1>21. CASE WatchdogFires
  BY <1>21, BudgetStutter DEF WatchdogFires, grace
<1>22. CASE UNCHANGED vars
  BY <1>22, BudgetStutter DEF vars, flags
<1>23. CASE ContextOverflows
  BY <1>23, BudgetStutter DEF ContextOverflows, StepEnds, Early
<1> QED
  BY <1>1, <1>2, <1>3, <1>4, <1>5, <1>6, <1>7, <1>8, <1>9, <1>10, <1>11, <1>12, <1>13, <1>14,
     <1>15, <1>16, <1>17, <1>18, <1>19, <1>20, <1>21, <1>22, <1>23, RecoveryConstants
     DEF Next, StepStarts, StepDone, Worker, FinalTurn, Waiting

-----------------------------------------------------------------------------
(* Theorems *)

\* The initial states satisfy all three.
LEMMA InitInv ==
  ASSUME Init
  PROVE  TypeOK /\ RetryInv /\ BudgetInv
<1> USE RecoveryConstants
<1>1. TypeOK
  <2>1. trips \in [TripKeys -> 0 .. WarningLimit] /\ attempts \in [Tasks -> 0 .. MaxRetries]
    BY DEF Init
  <2>2. final \in {"off", "unused", "due", "turn", "rest", "over"}
    BY DEF Init
  <2>3. /\ asked \in BOOLEAN /\ pausing \in BOOLEAN /\ hit \in BOOLEAN /\ strict \in BOOLEAN
        /\ pending \in BOOLEAN /\ revived \in BOOLEAN
    BY DEF Init
  <2>4. /\ agent \in DOMAIN Allowed /\ step \in {"none", "step", "final"} /\ queued \in SUBSET Tasks
        /\ errors \in 0 .. ErrorCap /\ survived \in 0 .. MaxSurvivable /\ count \in 0 .. MaxRetries
        /\ iters \in Nat /\ limit \in Nat /\ saved \in Nat /\ granted \in Nat
        /\ outages \in 0 .. MaxOutages /\ messages \in 0 .. MaxMessages
        /\ faults \in 0 .. MaxFaults /\ fired \in 0 .. MaxRetries + 1
    BY Graph DEF Init, States
  <2> QED
    BY <2>1, <2>2, <2>3, <2>4 DEF TypeOK
<1>2. RetryInv
  BY DEF Init, RetryInv, PendingHasTask, NoForgottenRetry, Waiting
<1>3. BudgetInv
  BY DEF Init, BudgetInv, IterationBudget, Within
<1> QED
  BY <1>1, <1>2, <1>3

\* The state of the recovery keeps its types: the counters of attempts, warnings and errors
\* stay within the limits they are compared with.
THEOREM TypesHold == Spec => []TypeOK
<1>1. Init => TypeOK
  BY InitInv
<1>2. TypeOK /\ [Next]_vars => TypeOK'
  BY TypeStep
<1> QED
  BY <1>1, <1>2, PTL DEF Spec

\* An agent that waits for a retry has one in the queue, however failing steps, retries
\* that fire or fail, interrupts and messages of the user interleave.
THEOREM RetryIsQueued == Spec => []NoForgottenRetry
<1>1. Init => TypeOK /\ RetryInv
  BY InitInv
<1>2. TypeOK /\ RetryInv /\ [Next]_vars => (TypeOK /\ RetryInv)'
  BY TypeStep, RetryStep
<1>3. RetryInv => NoForgottenRetry
  BY DEF RetryInv
<1> QED
  BY <1>1, <1>2, <1>3, PTL DEF Spec

\* The iterations never exceed what was granted by more than the one of the final turn.
THEOREM BudgetHolds == Spec => []IterationBudget
<1>1. Init => TypeOK /\ BudgetInv
  BY InitInv
<1>2. TypeOK /\ BudgetInv /\ [Next]_vars => (TypeOK /\ BudgetInv)'
  BY TypeStep, BudgetStep
<1>3. BudgetInv => IterationBudget
  BY DEF BudgetInv
<1> QED
  BY <1>1, <1>2, <1>3, PTL DEF Spec

=============================================================================
