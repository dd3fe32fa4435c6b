------------------------ MODULE StepSchedulerProofs ------------------------
(***************************************************************************)
(* Proofs about StepScheduler: its types, that a step task which has yet   *)
(* to finish is the one _step_task refers to, that steps exclude each      *)
(* other, and that no request for a step is lost except at the drain       *)
(* limit.                                                                  *)
(***************************************************************************)
EXTENDS StepScheduler, SequenceTheorems, TLAPS

-----------------------------------------------------------------------------
(* The inductive invariant *)

\* A task that has not begun its drain loop has drained nothing.
DrainedNothing == \A t \in Tasks : task[t].pc \in {"new", "lock"} => task[t].n = 0

Types == TypeOK /\ DrainedNothing

\* _step_task is never a task that runs the exception handler: the `finally' has
\* cleared it.
StepTaskSteps == stepTask # NoTask => task[stepTask].pc # "handling"

Occurs(h, hs) == \E k \in DOMAIN hs : hs[k] = h
Single(h, hs) == \A i, j \in DOMAIN hs : hs[i] = h /\ hs[j] = h => i = j

\* The coroutine stop() is due to run at most once, not before it is called, and not
\* for the lock while it awaits the step task.
StopQueuedOnce ==
    /\ Single("stop", ready)
    /\ "stop" \in Controls => /\ control["stop"].pc = "idle" => ~Queued("stop")
                              /\ Occurs("stop", waiters) => control["stop"].pc \in {"lock", "done"}

\* While the controller is open only stop() cancels a step task, and then it awaits it.
CancelledByStop ==
    life = "open" =>
        \A t \in Tasks : task[t].cancelled =>
            /\ "stop" \in Controls
            /\ control["stop"].pc = "await" /\ control["stop"].on = t
            /\ ~Queued("stop")

\* The request is on its way to step task t: it will be looked at, or it is counted.
Carries(t) == /\ Before(t) /\ ~task[t].cancelled
              /\ task[t].pc \in {"new", "lock"} \/ count > 0

\* As long as the last request is open, the live step task carries it ...
TaskCarriesRequest ==
    life = "open" /\ owed = "open" =>
        \A t \in Tasks : t = stepTask /\ Before(t) /\ ~task[t].cancelled => Carries(t)

\* ... or something else is to bring it about, or is to stop the agent.
RequestOnItsWay ==
    life = "open" /\ owed = "open" =>
        \/ Queued("request") \/ Queued("create")
        \/ waking \/ state # "RUNNING"
        \/ \E t \in Tasks : Carries(t)
        \/ "stop" \in Controls /\ control["stop"].pc \in {"await", "kill"}

Steps == NoOrphanedStepTask /\ StepsAreExclusive /\ StepTaskSteps

Requests == StopQueuedOnce /\ CancelledByStop /\ TaskCarriesRequest /\ RequestOnItsWay

IInv == Types /\ Steps /\ Requests
-----------------------------------------------------------------------------
(* The queue of callbacks *)

\* A step of the loop takes the head off and adds at the end.
LEMMA RunSequence ==
  ASSUME TypeOK, NEW h, NEW hs \in Seq(Handles), Run(h, hs)
  PROVE  /\ ready' \in Seq(Handles)
         /\ Len(ready) \in Nat \ {0} /\ Len(hs) \in Nat
         /\ DOMAIN ready = 1 .. Len(ready) /\ DOMAIN hs = 1 .. Len(hs)
         /\ DOMAIN ready' = 1 .. Len(ready) - 1 + Len(hs)
         /\ ready[1] = h
         /\ \A i \in DOMAIN ready' :
              ready'[i] = IF i < Len(ready) THEN ready[i + 1] ELSE hs[i - Len(ready) + 1]
<1>1. ready \in Seq(Handles) /\ ready # <<>> /\ ready' = Tail(ready) \o hs /\ Head(ready) = h
  BY DEF TypeOK, Run
<1>2. /\ Tail(ready) \in Seq(Handles) /\ Len(Tail(ready)) = Len(ready) - 1
      /\ \A i \in 1 .. Len(Tail(ready)) : Tail(ready)[i] = ready[i + 1]
  BY <1>1, HeadTailProperties
<1>3. Len(ready) \in Nat \ {0} /\ DOMAIN ready = 1 .. Len(ready) /\ ready[1] = h
  BY <1>1, EmptySeq, LenProperties
<1>4. Len(hs) \in Nat /\ DOMAIN hs = 1 .. Len(hs)
  BY LenProperties
<1>5. /\ ready' \in Seq(Handles)
      /\ Len(ready') = Len(Tail(ready)) + Len(hs)
      /\ \A i \in 1 .. Len(Tail(ready)) + Len(hs) : ready'[i] =
           IF i <= Len(Tail(ready)) THEN Tail(ready)[i] ELSE hs[i - Len(Tail(ready))]
  BY <1>1, <1>2, ConcatProperties
<1>6. DOMAIN ready' = 1 .. Len(ready')
  BY <1>5, LenProperties
<1>7. ASSUME NEW i \in DOMAIN ready'
      PROVE  ready'[i] = IF i < Len(ready) THEN ready[i + 1] ELSE hs[i - Len(ready) + 1]
  <2>1. i \in 1 .. Len(Tail(ready)) + Len(hs)
    BY <1>5, <1>6
  <2>2. CASE i < Len(ready)
    BY <1>2, <1>3, <1>4, <1>5, <2>1, <2>2
  <2>3. CASE ~(i < Len(ready))
    <3>1. ~(i <= Len(Tail(ready))) /\ i - Len(Tail(ready)) = i - Len(ready) + 1
      BY <1>2, <1>3, <1>4, <2>1, <2>3
    <3>2. ready'[i] = hs[i - Len(Tail(ready))]
      BY <1>5, <2>1, <3>1
    <3> QED
      BY <2>3, <3>1, <3>2
  <2> QED
    BY <2>2, <2>3
<1> QED
  BY <1>2, <1>3, <1>4, <1>5, <1>6, <1>7

\* What is queued after it.
LEMMA RunQueue ==
  ASSUME TypeOK, NEW h, NEW hs \in Seq(Handles), Run(h, hs)
  PROVE  /\ ready' \in Seq(Handles)
         /\ Queued(h)
         /\ \A x : Queued(x)' => Queued(x) \/ Occurs(x, hs)
         /\ \A x : Occurs(x, hs) => Queued(x)'
         /\ \A x : x # h /\ Queued(x) => Queued(x)'
<1> USE RunSequence
<1>1. Queued(h)
  BY DEF Queued
<1>2. ASSUME NEW x, Queued(x)'
      PROVE  Queued(x) \/ Occurs(x, hs)
  <2>1. PICK k \in DOMAIN ready' : ready'[k] = x
    BY <1>2 DEF Queued
  <2>2. CASE k < Len(ready)
    <3>1. k + 1 \in DOMAIN ready /\ ready[k + 1] = x
      BY <2>1, <2>2
    <3> QED
      BY <3>1 DEF Queued
  <2>3. CASE ~(k < Len(ready))
    <3>1. k - Len(ready) + 1 \in DOMAIN hs /\ hs[k - Len(ready) + 1] = x
      BY <2>1, <2>3
    <3> QED
      BY <3>1 DEF Occurs
  <2> QED
    BY <2>2, <2>3
<1>3. ASSUME NEW x, Occurs(x, hs)
      PROVE  Queued(x)'
  <2>1. PICK k \in DOMAIN hs : hs[k] = x
    BY <1>3 DEF Occurs
  <2>2. /\ k + Len(ready) - 1 \in DOMAIN ready' /\ ~(k + Len(ready) - 1 < Len(ready))
        /\ (k + Len(ready) - 1) - Len(ready) + 1 = k
    BY <2>1
  <2>3. ready'[k + Len(ready) - 1] = x
    BY <2>1, <2>2
  <2> QED
    BY <2>2, <2>3 DEF Queued
<1>4. ASSUME NEW x, x # h, Queued(x)
      PROVE  Queued(x)'
  <2>1. PICK k \in DOMAIN ready : ready[k] = x
    BY <1>4 DEF Queued
  <2>2. k # 1 /\ k - 1 \in DOMAIN ready' /\ k - 1 < Len(ready) /\ (k - 1) + 1 = k
    BY <1>4, <2>1
  <2>3. ready'[k - 1] = x
    BY <2>1, <2>2
  <2> QED
    BY <2>2, <2>3 DEF Queued
<1> QED
  BY <1>1, <1>2, <1>3, <1>4

\* Who is queued at most once stays so, if it is added only when it is not queued any more.
LEMMA RunOnce ==
  ASSUME TypeOK, NEW h, NEW hs \in Seq(Handles), Run(h, hs), NEW x, Single(x, ready),
         Single(x, hs), Occurs(x, hs) => x = h \/ ~Queued(x)
  PROVE  /\ Single(x, ready)'
         /\ x = h /\ ~Occurs(x, hs) => ~Queued(x)'
<1> USE RunSequence
<1>1. ASSUME NEW i \in DOMAIN ready', i < Len(ready), ready'[i] = x
      PROVE  i + 1 \in DOMAIN ready /\ ready[i + 1] = x
  BY <1>1
<1>2. ASSUME NEW i \in DOMAIN ready', ~(i < Len(ready)), ready'[i] = x
      PROVE  i - Len(ready) + 1 \in DOMAIN hs /\ hs[i - Len(ready) + 1] = x /\ Occurs(x, hs)
  BY <1>2 DEF Occurs
<1>3. ASSUME NEW i \in DOMAIN ready', i < Len(ready), ready'[i] = x, x = h \/ ~Queued(x)
      PROVE  FALSE
  BY <1>1, <1>3 DEF Single, Queued
<1>4. ASSUME NEW i \in DOMAIN ready', NEW j \in DOMAIN ready', ready'[i] = x, ready'[j] = x
      PROVE  i = j
  <2>1. CASE i < Len(ready) /\ j < Len(ready)
    BY <1>1, <1>4, <2>1 DEF Single
  <2>2. CASE ~(i < Len(ready)) /\ ~(j < Len(ready))
    BY <1>2, <1>4, <2>2 DEF Single
  <2>3. CASE (i < Len(ready)) # (j < Len(ready))
    BY <1>2, <1>3, <1>4, <2>3
  <2> QED
    BY <2>1, <2>2, <2>3
<1>5. ASSUME x = h, ~Occurs(x, hs), Queued(x)'
      PROVE  FALSE
  <2>1. PICK i \in DOMAIN ready' : ready'[i] = x
    BY <1>5 DEF Queued
  <2> QED
    BY <1>2, <1>3, <1>5, <2>1
<1> QED
  BY <1>4, <1>5 DEF Single

\* The same for what is added from outside the loop.
LEMMA WakeQueue ==
  ASSUME TypeOK, NEW h \in Handles, Wake(h)
  PROVE  /\ ready' \in Seq(Handles)
         /\ Queued(h)'
         /\ \A x : Queued(x)' => Queued(x) \/ x = h
         /\ \A x : Queued(x) => Queued(x)'
         /\ \A x : Single(x, ready) /\ (x = h => ~Queued(x)) => Single(x, ready)'
<1>1. ready \in Seq(Handles) /\ ready' = Append(ready, h)
  BY DEF TypeOK, Wake
<1>2. Len(ready) \in Nat /\ DOMAIN ready = 1 .. Len(ready)
  BY <1>1, LenProperties
<1>3. /\ ready' \in Seq(Handles) /\ Len(ready') = Len(ready) + 1
      /\ \A i \in 1 .. Len(ready) : ready'[i] = ready[i]
      /\ ready'[Len(ready) + 1] = h
  BY <1>1, AppendProperties
<1>4. DOMAIN ready' = 1 .. Len(ready) + 1
  BY <1>3, LenProperties
<1>5. \A i \in DOMAIN ready' : i \in DOMAIN ready \/ i = Len(ready) + 1
  BY <1>2, <1>4
<1> QED
  BY <1>2, <1>3, <1>4, <1>5 DEF Queued, Single

\* What a step adds is put together from pieces.
LEMMA Concat ==
  ASSUME NEW S, NEW r \in Seq(S), NEW s \in Seq(S)
  PROVE  /\ r \o s \in Seq(S)
         /\ \A x : Occurs(x, r \o s) <=> Occurs(x, r) \/ Occurs(x, s)
         /\ \A x : /\ Single(x, r) /\ Single(x, s) /\ ~(Occurs(x, r) /\ Occurs(x, s))
                   => Single(x, r \o s)
<1>1. /\ r \o s \in Seq(S) /\ Len(r \o s) = Len(r) + Len(s)
      /\ \A i \in 1 .. Len(r) + Len(s) : (r \o s)[i] =
           IF i <= Len(r) THEN r[i] ELSE s[i - Len(r)]
  BY ConcatProperties
<1>2. /\ Len(r) \in Nat /\ DOMAIN r = 1 .. Len(r)
      /\ Len(s) \in Nat /\ DOMAIN s = 1 .. Len(s)
      /\ DOMAIN (r \o s) = 1 .. Len(r) + Len(s)
  BY <1>1, LenProperties
<1>3. ASSUME NEW i \in DOMAIN (r \o s)
      PROVE  \/ i \in DOMAIN r /\ (r \o s)[i] = r[i]
             \/ ~(i <= Len(r)) /\ i - Len(r) \in DOMAIN s /\ (r \o s)[i] = s[i - Len(r)]
  <2>1. CASE i <= Len(r)
    BY <1>1, <1>2, <2>1
  <2>2. CASE ~(i <= Len(r))
    BY <1>1, <1>2, <2>2
  <2> QED
    BY <2>1, <2>2
<1>4. \A i \in DOMAIN r : i \in DOMAIN (r \o s) /\ (r \o s)[i] = r[i]
  BY <1>1, <1>2
<1>5. ASSUME NEW i \in DOMAIN s
      PROVE  Len(r) + i \in DOMAIN (r \o s) /\ (r \o s)[Len(r) + i] = s[i]
  <2>1. /\ Len(r) + i \in 1 .. Len(r) + Len(s) /\ ~(Len(r) + i <= Len(r))
        /\ (Len(r) + i) - Len(r) = i
    BY <1>2
  <2> QED
    BY <1>1, <1>2, <2>1
<1>6. ASSUME NEW x
      PROVE  Occurs(x, r \o s) <=> Occurs(x, r) \/ Occurs(x, s)
  BY <1>3, <1>4, <1>5 DEF Occurs
<1>7. ASSUME NEW x, Single(x, r), Single(x, s), ~(Occurs(x, r) /\ Occurs(x, s)),
             NEW i \in DOMAIN (r \o s), NEW j \in DOMAIN (r \o s),
             (r \o s)[i] = x, (r \o s)[j] = x
      PROVE  i = j
  <2>1. CASE i <= Len(r) /\ j <= Len(r)
    BY <1>2, <1>3, <1>7, <2>1 DEF Single
  <2>2. CASE ~(i <= Len(r)) /\ ~(j <= Len(r))
    <3>1. i - Len(r) = j - Len(r)
      BY <1>2, <1>3, <1>7, <2>2 DEF Single
    <3> QED
      BY <1>2, <3>1
  <2>3. CASE (i <= Len(r)) # (j <= Len(r))
    BY <1>2, <1>3, <1>7, <2>3 DEF Occurs
  <2> QED
    BY <2>1, <2>2, <2>3
<1> QED
  BY <1>1, <1>6, <1>7 DEF Single

LEMMA Pieces ==
  ASSUME NEW S
  PROVE  /\ <<>> \in Seq(S) /\ \A x : ~Occurs(x, <<>>) /\ Single(x, <<>>)
         /\ \A y \in S : /\ <<y>> \in Seq(S)
                         /\ \A x : Single(x, <<y>>) /\ (Occurs(x, <<y>>) <=> x = y)
BY EmptySeq DEF Occurs, Single

\* A waiter that leaves the lock's queue: who is left was there.
LEMMA WithoutType ==
  ASSUME NEW S, NEW ws \in Seq(S), NEW w
  PROVE  /\ Without(ws, w) \in Seq(S)
         /\ \A x : Occurs(x, Without(ws, w)) => Occurs(x, ws)
<1>1. CASE ~\E i \in DOMAIN ws : ws[i] = w
  BY <1>1 DEF Without
<1>2. CASE \E i \in DOMAIN ws : ws[i] = w
  <2> DEFINE p == CHOOSE i \in DOMAIN ws : ws[i] = w
  <2>1. p \in DOMAIN ws /\ Without(ws, w) = SubSeq(ws, 1, p - 1) \o SubSeq(ws, p + 1, Len(ws))
    BY <1>2 DEF Without, Leave
  <2>2. Len(ws) \in Nat /\ DOMAIN ws = 1 .. Len(ws) /\ \A i \in 1 .. Len(ws) : ws[i] \in S
    BY LenProperties, ElementOfSeq
  <2> HIDE DEF p
  <2>3. ASSUME NEW m \in 1 .. Len(ws) + 1, NEW n \in 0 .. Len(ws)
        PROVE  /\ SubSeq(ws, m, n) \in Seq(S)
               /\ \A x : Occurs(x, SubSeq(ws, m, n)) => Occurs(x, ws)
    <3>1. /\ SubSeq(ws, m, n) \in Seq(S)
          /\ Len(SubSeq(ws, m, n)) = IF m <= n THEN n - m + 1 ELSE 0
          /\ \A i \in 1 .. n - m + 1 : SubSeq(ws, m, n)[i] = ws[m + i - 1]
      <4>1. m \in Int /\ n \in Int /\ \A i \in m .. n : ws[i] \in S
        BY <2>2
      <4> QED
        BY <4>1, SubSeqProperties
    <3>2. DOMAIN SubSeq(ws, m, n) = 1 .. Len(SubSeq(ws, m, n))
      BY <3>1, LenProperties
    <3>3. \A i \in DOMAIN SubSeq(ws, m, n) :
             m + i - 1 \in DOMAIN ws /\ SubSeq(ws, m, n)[i] = ws[m + i - 1]
      BY <2>2, <3>1, <3>2
    <3> QED
      BY <3>1, <3>3 DEF Occurs
  <2>4. /\ 1 \in 1 .. Len(ws) + 1 /\ p - 1 \in 0 .. Len(ws)
        /\ p + 1 \in 1 .. Len(ws) + 1 /\ Len(ws) \in 0 .. Len(ws)
    BY <2>1, <2>2
  <2>5. /\ SubSeq(ws, 1, p - 1) \in Seq(S) /\ SubSeq(ws, p + 1, Len(ws)) \in Seq(S)
        /\ \A x : Occurs(x, SubSeq(ws, 1, p - 1)) => Occurs(x, ws)
        /\ \A x : Occurs(x, SubSeq(ws, p + 1, Len(ws))) => Occurs(x, ws)
    BY <2>3, <2>4
  <2>6. /\ Without(ws, w) \in Seq(S)
        /\ \A x : \/ ~Occurs(x, Without(ws, w))
                  \/ Occurs(x, SubSeq(ws, 1, p - 1))
                  \/ Occurs(x, SubSeq(ws, p + 1, Len(ws)))
    <3> DEFINE r == SubSeq(ws, 1, p - 1)
               q == SubSeq(ws, p + 1, Len(ws))
    <3>1. r \in Seq(S) /\ q \in Seq(S)
      BY <2>5
    <3> HIDE DEF r, q
    <3>2. r \o q \in Seq(S) /\ \A x : Occurs(x, r \o q) <=> Occurs(x, r) \/ Occurs(x, q)
      BY <3>1, Concat
    <3> QED
      BY <2>1, <3>2 DEF r, q
  <2> QED
    BY <2>5, <2>6
<1> QED
  BY <1>1, <1>2

\* The lock wakes a waiter that is not due to run.
LEMMA LockWakeType ==
  ASSUME NEW ws \in Seq(Tasks \cup Controls)
  PROVE  /\ LockWake(ws) \in Seq(Handles)
         /\ \A x : Single(x, LockWake(ws))
         /\ \A x : Occurs(x, LockWake(ws)) => Occurs(x, ws) /\ ~Queued(x)
                                              /\ x \in Tasks \cup Controls
<1>1. CASE ws = <<>> \/ Queued(Head(ws))
  BY <1>1, Pieces DEF LockWake
<1>2. CASE ~(ws = <<>> \/ Queued(Head(ws)))
  <2>1. LockWake(ws) = <<Head(ws)>>
    BY <1>2 DEF LockWake
  <2>2. Head(ws) \in Tasks \cup Controls /\ 1 \in DOMAIN ws /\ ws[1] = Head(ws)
    BY <1>2, HeadTailProperties, EmptySeq, LenProperties
  <2>3. Head(ws) \in Handles /\ Occurs(Head(ws), ws)
    BY <2>2 DEF Handles, Occurs
  <2>4. /\ LockWake(ws) \in Seq(Handles)
        /\ \A x : Single(x, LockWake(ws)) /\ (Occurs(x, LockWake(ws)) <=> x = Head(ws))
    BY <2>1, <2>3, Pieces
  <2> QED
    BY <1>2, <2>2, <2>3, <2>4
<1> QED
  BY <1>1, <1>2

\* A coroutine that awaits the task is woken unless it is due to run.
LEMMA AwaitingType ==
  ASSUME NEW t
  PROVE  /\ Awaiting(t) \in Seq(Handles)
         /\ \A x : Single(x, Awaiting(t))
         /\ \A x : Occurs(x, Awaiting(t)) => x \in Controls /\ Awaits(x, t)
<1>1. ASSUME NEW c \in {"stop", "close"}
      PROVE  /\ Woken(c, t) \in Seq(Handles)
             /\ \A x : Single(x, Woken(c, t))
             /\ \A x : Occurs(x, Woken(c, t)) => x = c /\ x \in Controls /\ Awaits(x, t)
  <2>1. Awaits(c, t) => c \in Controls /\ c \in Handles
    BY DEF Awaits, Handles
  <2>2. CASE Awaits(c, t)
    <3>1. c \in Handles /\ Woken(c, t) = <<c>>
      BY <2>1, <2>2 DEF Woken
    <3>2. /\ <<c>> \in Seq(Handles)
          /\ \A x : Single(x, <<c>>) /\ (Occurs(x, <<c>>) <=> x = c)
      BY <3>1, Pieces
    <3> QED
      BY <2>1, <2>2, <3>1, <3>2
  <2>3. CASE ~Awaits(c, t)
    BY <2>3, Pieces DEF Woken
  <2> QED
    BY <2>2, <2>3
<1>2. /\ Woken("stop", t) \in Seq(Handles) /\ Woken("close", t) \in Seq(Handles)
      /\ \A x : ~(Occurs(x, Woken("stop", t)) /\ Occurs(x, Woken("close", t)))
  BY <1>1
<1> QED
  BY <1>1, <1>2, Concat DEF Awaiting

LEMMA CancelledType ==
  ASSUME NEW t \in Tasks
  PROVE  /\ Cancelled(t) \in Seq(Handles)
         /\ \A x : Single(x, Cancelled(t)) /\ (Occurs(x, Cancelled(t)) => x = t)
BY Pieces DEF Cancelled, Handles

-----------------------------------------------------------------------------
(* Types *)

\* What the `finally' of _step adds to the queue.
LEMMA TeardownQueue ==
  ASSUME TypeOK, NEW t \in Tasks, NEW c \in Nat, NEW pc, Teardown(t, c, pc)
  PROVE  \E hs \in Seq(Handles) :
           /\ Run(t, hs)
           /\ life = "open" /\ c > 0 => Occurs("create", hs)
           /\ Occurs("stop", hs) =>
                \/ Occurs("stop", waiters) /\ "stop" \in Controls /\ ~Queued("stop")
                \/ "stop" \in Controls /\ Awaits("stop", t)
           /\ (Occurs("stop", waiters) => ~Awaits("stop", t)) => Single("stop", hs)
<1> DEFINE first == IF life = "open" /\ c > 0 THEN <<"create">> ELSE <<>>
           last  == IF pc = "none" THEN Awaiting(t) ELSE <<>>
           wake  == LockWake(waiters)
<1>1. Run(t, first \o wake \o last)
  BY DEF Teardown
<1>2. /\ first \in Seq(Handles)
      /\ life = "open" /\ c > 0 => Occurs("create", first)
      /\ ~Occurs("stop", first) /\ Single("stop", first)
  <2>1. "create" \in Handles
    BY DEF Handles
  <2> QED
    BY <2>1, Pieces
<1>3. /\ wake \in Seq(Handles) /\ Single("stop", wake)
      /\ Occurs("stop", wake) =>
           Occurs("stop", waiters) /\ ~Queued("stop") /\ "stop" \in Tasks \cup Controls
  BY LockWakeType DEF TypeOK
<1>4. /\ last \in Seq(Handles) /\ Single("stop", last)
      /\ Occurs("stop", last) => "stop" \in Controls /\ Awaits("stop", t)
  BY AwaitingType, Pieces
<1> HIDE DEF first, wake, last
<1>5. /\ first \o wake \in Seq(Handles)
      /\ \A x : Occurs(x, first \o wake) <=> Occurs(x, first) \/ Occurs(x, wake)
      /\ Single("stop", first \o wake)
  BY <1>2, <1>3, Concat
<1>6. /\ first \o wake \o last \in Seq(Handles)
      /\ \A x : Occurs(x, first \o wake \o last) <=> Occurs(x, first \o wake) \/ Occurs(x, last)
      /\ ~(Occurs("stop", first \o wake) /\ Occurs("stop", last))
         => Single("stop", first \o wake \o last)
  BY <1>4, <1>5, Concat
<1>7. "stop" \notin Tasks
  BY SchedulerConstants
<1>8. /\ life = "open" /\ c > 0 => Occurs("create", first \o wake \o last)
      /\ Occurs("stop", first \o wake \o last) =>
           \/ Occurs("stop", waiters) /\ "stop" \in Controls /\ ~Queued("stop")
           \/ "stop" \in Controls /\ Awaits("stop", t)
      /\ (Occurs("stop", waiters) => ~Awaits("stop", t))
         => Single("stop", first \o wake \o last)
  BY <1>2, <1>3, <1>4, <1>5, <1>6, <1>7
<1> QED
  BY <1>1, <1>6, <1>8

\* The parts of a step task's record.
LEMMA TaskType ==
  ASSUME TypeOK, NEW t \in Tasks
  PROVE  /\ task[t].pc \in TaskPc /\ task[t].n \in 0 .. DrainLimit
         /\ task[t].cancelled \in BOOLEAN
         /\ NoStep \in [pc : TaskPc, n : 0 .. DrainLimit, cancelled : BOOLEAN]
BY SchedulerConstants DEF TypeOK, NoStep, TaskPc

LEMMA InitTypes == Init => Types
<1> SUFFICES ASSUME Init PROVE Types
  OBVIOUS
<1>1. ready \in Seq(Handles) /\ waiters \in Seq(Tasks \cup Controls)
  BY EmptySeq DEF Init
<1>2. NoStep \in [pc : TaskPc, n : 0 .. DrainLimit, cancelled : BOOLEAN]
  BY SchedulerConstants DEF NoStep, TaskPc
<1>3. control \in [Controls -> [pc : ControlPc, on : Tasks \cup {NoTask}, old : States]]
  BY DEF Init, States, ControlPc
<1>4. calls \in 0 .. MaxCalls /\ count \in Nat
  BY SchedulerConstants DEF Init
<1>5. TypeOK
  BY <1>1, <1>2, <1>3, <1>4 DEF Init, TypeOK, States
<1>6. DrainedNothing
  BY DEF Init, DrainedNothing, NoStep
<1> QED
  BY <1>5, <1>6 DEF Types

\* A new step task.
LEMMA CreateTaskTypes ==
  ASSUME Types, NEW h, CreateTask(h), UNCHANGED <<lock, waiters, life, agent, control, calls>>,
         owed' \in {"none", "open", "dropped"}
  PROVE  Types'
<1>1. PICK t \in Tasks :
        /\ task[t].pc = "none"
        /\ Run(h, <<t>>)
        /\ task' = [task EXCEPT ![t] = [NoStep EXCEPT !.pc = "new"]]
        /\ stepTask' = t
        /\ count' = 0
  BY DEF CreateTask
<1>2. ready' \in Seq(Handles)
  <2>1. <<t>> \in Seq(Handles)
    BY Pieces DEF Handles
  <2> QED
    BY <1>1, <2>1, RunQueue DEF Types
<1>3. [NoStep EXCEPT !.pc = "new"] \in [pc : TaskPc, n : 0 .. DrainLimit, cancelled : BOOLEAN]
  BY <1>1, TaskType DEF Types, TaskPc
<1>4. TypeOK'
  BY <1>1, <1>2, <1>3 DEF Types, TypeOK, agent
<1>5. DrainedNothing'
  BY <1>1 DEF Types, TypeOK, DrainedNothing, NoStep
<1> QED
  BY <1>4, <1>5 DEF Types

\* The end of a step.
LEMMA TeardownTypes ==
  ASSUME Types, NEW t \in Tasks, NEW c \in Nat, NEW pc \in {"none", "handling"}, Teardown(t, c, pc),
         UNCHANGED <<waiters, life, state, waking, watchdog, control, calls>>,
         pending' \in BOOLEAN, owed' \in {"none", "open", "dropped"}
  PROVE  Types'
<1>1. ready' \in Seq(Handles)
  BY TeardownQueue, RunQueue DEF Types
<1>2. [NoStep EXCEPT !.pc = pc] \in [pc : TaskPc, n : 0 .. DrainLimit, cancelled : BOOLEAN]
  BY TaskType DEF Types, TaskPc
<1>3. TypeOK'
  BY <1>1, <1>2 DEF Types, TypeOK, Teardown
<1>4. DrainedNothing'
  BY DEF Types, TypeOK, DrainedNothing, NoStep, Teardown
<1> QED
  BY <1>3, <1>4 DEF Types

\* An iteration of the drain loop.
LEMMA IterateTypes ==
  ASSUME Types, NEW t \in Tasks, task[t].n < DrainLimit, Iterate(t),
         UNCHANGED <<stepTask, life, agent, control, calls>>,
         count' \in Nat, lock' \in Tasks \cup {NoTask}, waiters' \in Seq(Tasks \cup Controls)
  PROVE  Types'
<1>1. ready' \in Seq(Handles)
  <2>1. (IF CanStep THEN <<>> ELSE <<t>>) \in Seq(Handles)
    BY Pieces DEF Handles
  <2> QED
    BY <2>1, RunQueue DEF Types, Iterate
<1>2. task[t].n + 1 \in 0 .. DrainLimit
  BY TaskType, SchedulerConstants DEF Types
<1>3. task' \in [Tasks -> [pc : TaskPc, n : 0 .. DrainLimit, cancelled : BOOLEAN]]
  <2> DEFINE v == [task[t] EXCEPT !.n = @ + 1, !.pc = IF CanStep THEN "work" ELSE "yield"]
  <2>1. task' = [task EXCEPT ![t] = v]
    BY DEF Iterate
  <2>2. v \in [pc : TaskPc, n : 0 .. DrainLimit, cancelled : BOOLEAN]
    BY <1>2 DEF Types, TypeOK, TaskPc
  <2> HIDE DEF v
  <2> QED
    BY <2>1, <2>2 DEF Types, TypeOK
<1>4. TypeOK'
  BY <1>1, <1>3 DEF Types, TypeOK, Iterate, agent
<1>5. DrainedNothing'
  BY DEF Types, TypeOK, DrainedNothing, Iterate
<1> QED
  BY <1>4, <1>5 DEF Types

\* stop() and close().
LEMMA ControlType ==
  ASSUME TypeOK, NEW c \in Controls
  PROVE  /\ control[c].pc \in ControlPc /\ control[c].on \in Tasks \cup {NoTask}
         /\ control[c].old \in States
BY DEF TypeOK

LEMMA CancelStepTypes ==
  ASSUME Types, NEW c \in Controls, CancelStep(c), UNCHANGED <<stepTask, lock, waking, calls, owed>>,
         count' \in Nat, life' \in {"open", "closing", "closed"}, watchdog' \in BOOLEAN
  PROVE  Types'
<1>1. stepTask \in Tasks /\ stepTask # NoTask
  BY DEF Types, TypeOK, CancelStep, Alive
<1>2. ready' \in Seq(Handles)
  BY <1>1, CancelledType, RunQueue DEF Types, CancelStep
<1>3. task' \in [Tasks -> [pc : TaskPc, n : 0 .. DrainLimit, cancelled : BOOLEAN]]
  BY <1>1 DEF Types, TypeOK, CancelStep
<1>4. control' \in [Controls -> [pc : ControlPc, on : Tasks \cup {NoTask}, old : States]]
  BY <1>1 DEF Types, TypeOK, CancelStep, ControlPc
<1>5. TypeOK'
  BY <1>2, <1>3, <1>4 DEF Types, TypeOK, CancelStep
<1>6. DrainedNothing'
  BY <1>1 DEF Types, TypeOK, DrainedNothing, CancelStep
<1> QED
  BY <1>5, <1>6 DEF Types

LEMMA SetStoppedTypes ==
  ASSUME Types, NEW c \in Controls, SetStopped(c),
         UNCHANGED <<task, stepTask, lock, waking, calls, owed>>,
         count' \in Nat, life' \in {"open", "closing", "closed"}
  PROVE  Types'
<1>1. ready' \in Seq(Handles)
  BY Pieces, RunQueue DEF Types, SetStopped
<1>2. waiters' \in Seq(Tasks \cup Controls)
  BY AppendProperties DEF Types, TypeOK, SetStopped
<1>3. control' \in [Controls -> [pc : ControlPc, on : Tasks \cup {NoTask}, old : States]]
  BY DEF Types, TypeOK, SetStopped, ControlPc
<1>4. pending' \in BOOLEAN /\ watchdog' \in BOOLEAN /\ state' \in States
  BY DEF SetStopped, States
<1>5. TypeOK'
  BY <1>1, <1>2, <1>3, <1>4 DEF Types, TypeOK
<1>6. DrainedNothing'
  BY DEF Types, DrainedNothing
<1> QED
  BY <1>5, <1>6 DEF Types

LEMMA KeepStateTypes ==
  ASSUME Types, "close" \in Controls, KeepState,
         UNCHANGED <<task, stepTask, lock, waking, calls, owed>>,
         count' \in Nat, life' \in {"open", "closing", "closed"}
  PROVE  Types'
<1>1. ready' \in Seq(Handles)
  BY Pieces, RunQueue DEF Types, KeepState
<1>2. control' \in [Controls -> [pc : ControlPc, on : Tasks \cup {NoTask}, old : States]]
  BY DEF Types, TypeOK, KeepState, ControlPc
<1>3. TypeOK'
  BY <1>1, <1>2 DEF Types, TypeOK, KeepState
<1>4. DrainedNothing'
  BY DEF Types, DrainedNothing
<1> QED
  BY <1>3, <1>4 DEF Types

LEMMA KillRuntimeTypes ==
  ASSUME Types, "stop" \in Controls, KillRuntime,
         UNCHANGED <<task, stepTask, lock, life, waking, watchdog, calls, owed>>, count' \in Nat
  PROVE  Types'
<1>1. ready' \in Seq(Handles)
  <2>1. <<"stop">> \in Seq(Handles)
    BY Pieces DEF Handles
  <2> QED
    BY <2>1, RunQueue DEF Types, KillRuntime
<1>2. control' \in [Controls -> [pc : ControlPc, on : Tasks \cup {NoTask}, old : States]]
  BY DEF Types, TypeOK, KillRuntime, ControlPc
<1>3. TypeOK'
  BY <1>1, <1>2 DEF Types, TypeOK, KillRuntime
<1>4. DrainedNothing'
  BY DEF Types, DrainedNothing
<1> QED
  BY <1>3, <1>4 DEF Types

LEMMA TaskStepTypes ==
  ASSUME Types, NEW t \in Tasks, TaskStep(t)
  PROVE  Types'
<1> USE TaskType
<1>1. CASE StartTask(t)
  <2>1. CASE LockFree
    <3>1. task[t].n < DrainLimit
      BY <1>1, SchedulerConstants DEF Types, DrainedNothing, StartTask
    <3> QED
      BY <1>1, <2>1, <3>1, IterateTypes DEF Types, TypeOK, StartTask
  <2>2. CASE ~LockFree
    <3>1. /\ waiters' = Append(waiters, t)
          /\ task' = [task EXCEPT ![t].pc = "lock"]
          /\ Run(t, <<>>)
          /\ UNCHANGED <<stepTask, count, lock, life, agent, control, calls, owed>>
      BY <1>1, <2>2 DEF StartTask, Goto
    <3>2. ready' \in Seq(Handles)
      BY <3>1, Pieces, RunQueue DEF Types
    <3>3. waiters' \in Seq(Tasks \cup Controls)
      BY <3>1, AppendProperties DEF Types, TypeOK
    <3>4. TypeOK'
      BY <3>1, <3>2, <3>3 DEF Types, TypeOK, TaskPc, agent
    <3>5. DrainedNothing'
      BY <1>1, <3>1 DEF Types, TypeOK, DrainedNothing, StartTask
    <3> QED
      BY <3>4, <3>5 DEF Types
  <2> QED
    BY <2>1, <2>2
<1>2. CASE LockedTask(t)
  <2>1. task[t].n < DrainLimit
    BY <1>2, SchedulerConstants DEF Types, DrainedNothing, LockedTask
  <2>2. waiters' \in Seq(Tasks \cup Controls)
    BY <1>2, WithoutType DEF Types, TypeOK, LockedTask
  <2> QED
    BY <1>2, <2>1, <2>2, IterateTypes DEF Types, TypeOK, LockedTask
<1>3. CASE CancelledEarly(t)
  <2>1. waiters' \in Seq(Tasks \cup Controls)
    BY <1>3, WithoutType DEF Types, TypeOK, CancelledEarly
  <2>2. LockWake(Without(waiters, t)) \in Seq(Handles)
    BY <1>3, <2>1, LockWakeType DEF CancelledEarly
  <2>3. ready' \in Seq(Handles)
    <3>1. (IF lock = NoTask THEN LockWake(Without(waiters, t)) ELSE <<>>) \in Seq(Handles)
      BY <2>2, Pieces
    <3>2. (IF lock = NoTask THEN LockWake(Without(waiters, t)) ELSE <<>>) \o Awaiting(t)
            \in Seq(Handles)
      BY <3>1, AwaitingType, ConcatProperties
    <3> QED
      BY <1>3, <3>2, RunQueue DEF Types, CancelledEarly
  <2>4. TypeOK'
    BY <1>3, <2>1, <2>3 DEF Types, TypeOK, CancelledEarly, agent
  <2>5. DrainedNothing'
    BY <1>3 DEF Types, TypeOK, DrainedNothing, CancelledEarly, NoStep
  <2> QED
    BY <2>4, <2>5 DEF Types
<1>4. CASE StepEnds(t)
  <2>1. ready' \in Seq(Handles)
    <3>1. "request" \in Handles /\ t \in Handles
      BY DEF Handles
    <3>2. <<t>> \in Seq(Handles)
      BY <3>1, Pieces
    <3>3. (IF CanStep /\ life = "open" THEN <<"request">> ELSE <<>>) \in Seq(Handles)
      BY <3>1, Pieces
    <3> QED
      BY <1>4, <3>2, <3>3, Concat, RunQueue DEF Types, StepEnds
  <2>2. TypeOK'
    BY <1>4, <2>1 DEF Types, TypeOK, StepEnds, Goto, TaskPc, agent
  <2>3. DrainedNothing'
    BY <1>4 DEF Types, TypeOK, DrainedNothing, StepEnds, Goto
  <2> QED
    BY <2>2, <2>3 DEF Types
<1>5. CASE StepHandsOver(t)
  <2>1. ready' \in Seq(Handles)
    <3>1. <<t>> \in Seq(Handles)
      BY Pieces DEF Handles
    <3> QED
      BY <1>5, <3>1, RunQueue DEF Types, StepHandsOver
  <2>2. TypeOK'
    BY <1>5, <2>1 DEF Types, TypeOK, StepHandsOver, Goto, TaskPc, States
  <2>3. DrainedNothing'
    BY <1>5 DEF Types, TypeOK, DrainedNothing, StepHandsOver, Goto
  <2> QED
    BY <2>2, <2>3 DEF Types
<1>6. CASE StepRaises(t)
  BY <1>6, TeardownTypes DEF Types, TypeOK, StepRaises
<1>7. CASE StepCancelled(t)
  BY <1>7, TeardownTypes DEF Types, TypeOK, StepCancelled, agent
<1>8. CASE DrainStops(t)
  BY <1>8, TeardownTypes DEF Types, TypeOK, DrainStops, agent
<1>9. CASE DrainAgain(t)
  BY <1>9, IterateTypes DEF Types, TypeOK, DrainAgain
<1>10. CASE DrainLimitReached(t)
  BY <1>10, TeardownTypes DEF Types, TypeOK, DrainLimitReached, agent
<1> QED
  BY <1>1, <1>2, <1>3, <1>4, <1>5, <1>6, <1>7, <1>8, <1>9, <1>10 DEF TaskStep

LEMMA ControlStepTypes ==
  ASSUME Types, NEW c \in Controls, ControlStep(c)
  PROVE  Types'
<1>1. CASE c = "stop" /\ StopStart
  BY <1>1, CancelStepTypes, KillRuntimeTypes DEF Types, TypeOK, StopStart
<1>2. CASE c = "stop" /\ StopAwaited
  BY <1>2, KillRuntimeTypes DEF Types, TypeOK, StopAwaited
<1>3. CASE c = "stop" /\ StopKilled
  BY <1>3, SetStoppedTypes DEF Types, TypeOK, StopKilled
<1>4. CASE c = "close" /\ CloseStart
  BY <1>4, CancelStepTypes, SetStoppedTypes, KeepStateTypes DEF CloseStart
<1>5. CASE c = "close" /\ CloseAwaited
  BY <1>5, SetStoppedTypes, KeepStateTypes DEF Types, TypeOK, CloseAwaited
<1>6. CASE ControlLocked(c)
  <2>1. waiters' \in Seq(Tasks \cup Controls)
    BY <1>6, WithoutType DEF Types, TypeOK, ControlLocked
  <2>2. ready' \in Seq(Handles)
    <3>1. LockWake(waiters') \in Seq(Handles)
      <4> DEFINE ws == Without(waiters, c)
      <4>1. ws \in Seq(Tasks \cup Controls) /\ waiters' = ws
        BY <1>6, WithoutType DEF Types, TypeOK, ControlLocked
      <4> HIDE DEF ws
      <4>2. LockWake(ws) \in Seq(Handles)
        BY <4>1, LockWakeType
      <4> QED
        BY <4>1, <4>2 DEF LockWake
    <3> QED
      BY <1>6, <3>1, RunQueue DEF Types, ControlLocked
  <2>3. control' \in [Controls -> [pc : ControlPc, on : Tasks \cup {NoTask}, old : States]]
    BY <1>6 DEF Types, TypeOK, ControlLocked, ControlGoto, ControlPc
  <2>4. TypeOK'
    BY <1>6, <2>1, <2>2, <2>3 DEF Types, TypeOK, ControlLocked
  <2>5. DrainedNothing'
    BY <1>6 DEF Types, DrainedNothing, ControlLocked
  <2> QED
    BY <2>4, <2>5 DEF Types
<1> QED
  BY <1>1, <1>2, <1>3, <1>4, <1>5, <1>6 DEF ControlStep

LEMMA TypesStep == Types /\ [Next]_vars => Types'
<1> SUFFICES ASSUME Types, [Next]_vars PROVE Types'
  OBVIOUS
<1>1. CASE RequestStep
  <2>1. CASE Alive(stepTask)
    <3>1. ready' \in Seq(Handles)
      BY <1>1, <2>1, Pieces, RunQueue DEF Types, RequestStep
    <3>2. TypeOK'
      BY <1>1, <2>1, <3>1 DEF Types, TypeOK, RequestStep, agent
    <3>3. DrainedNothing'
      BY <1>1, <2>1 DEF Types, DrainedNothing, RequestStep
    <3> QED
      BY <3>2, <3>3 DEF Types
  <2>2. CASE ~Alive(stepTask)
    BY <1>1, <2>2, CreateTaskTypes DEF RequestStep
  <2> QED
    BY <2>1, <2>2
<1>2. CASE RequestStepClosed
  <2>1. ready' \in Seq(Handles)
    BY <1>2, Pieces, RunQueue DEF Types, RequestStepClosed
  <2> QED
    BY <1>2, <2>1 DEF Types, TypeOK, DrainedNothing, RequestStepClosed, agent
<1>3. CASE CreateStepTask
  <2>1. CASE Alive(stepTask) /\ life = "open"
    <3>1. ready' \in Seq(Handles)
      BY <1>3, <2>1, Pieces, RunQueue DEF Types, CreateStepTask
    <3> QED
      BY <1>3, <2>1, <3>1 DEF Types, TypeOK, DrainedNothing, CreateStepTask, agent
  <2>2. CASE ~(Alive(stepTask) /\ life = "open")
    BY <1>3, <2>2, CreateTaskTypes DEF Types, TypeOK, CreateStepTask
  <2> QED
    BY <2>1, <2>2
<1>4. ASSUME NEW t \in Tasks, TaskStep(t)
      PROVE  Types'
  BY <1>4, TaskStepTypes
<1>5. ASSUME NEW c \in Controls, ControlStep(c)
      PROVE  Types'
  BY <1>5, ControlStepTypes
<1>6. ASSUME NEW t \in Tasks, WorkDone(t)
      PROVE  Types'
  <2>1. ready' \in Seq(Handles)
    BY <1>6, WakeQueue DEF Types, WorkDone, Handles
  <2> QED
    BY <1>6, <2>1 DEF Types, TypeOK, DrainedNothing, WorkDone, agent
<1>7. ASSUME NEW t \in Tasks, HandlerDone(t)
      PROVE  Types'
  <2>1. ready' \in Seq(Handles)
    BY <1>7, WakeQueue DEF Types, TypeOK, HandlerDone, Handles
  <2>2. state' \in States /\ watchdog' \in BOOLEAN
    BY <1>7 DEF Types, TypeOK, HandlerDone, States
  <2>3. TypeOK'
    BY <1>7, <2>1, <2>2, TaskType DEF Types, TypeOK, HandlerDone
  <2>4. DrainedNothing'
    BY <1>7 DEF Types, TypeOK, DrainedNothing, HandlerDone, NoStep
  <2> QED
    BY <2>3, <2>4 DEF Types
<1>8. CASE CloseEnds
  <2>1. control' \in [Controls -> [pc : ControlPc, on : Tasks \cup {NoTask}, old : States]]
    BY <1>8 DEF Types, TypeOK, CloseEnds, ControlGoto, ControlPc
  <2> QED
    BY <1>8, <2>1 DEF Types, TypeOK, DrainedNothing, CloseEnds, agent
<1>9. CASE WakerSteps
  <2>1. ready' \in Seq(Handles)
    BY <1>9, WakeQueue DEF Types, TypeOK, WakerSteps, Handles
  <2> QED
    BY <1>9, <2>1 DEF Types, TypeOK, DrainedNothing, WakerSteps
<1>10. CASE StepCall
  <2>1. ready' \in Seq(Handles)
    BY <1>10, WakeQueue DEF Types, StepCall, Handles
  <2>2. calls' \in 0 .. MaxCalls
    BY <1>10, SchedulerConstants DEF Types, TypeOK, StepCall
  <2> QED
    BY <1>10, <2>1, <2>2 DEF Types, TypeOK, DrainedNothing, StepCall, agent
<1>11. CASE UserMessage
  <2>1. calls' \in 0 .. MaxCalls
    BY <1>11, SchedulerConstants DEF Types, TypeOK, UserMessage
  <2> QED
    BY <1>11, <2>1 DEF Types, TypeOK, DrainedNothing, UserMessage, States
<1>12. CASE PendingTimesOut \/ ObservationArrives \/ (\E t \in Tasks : ArmPending(t))
  BY <1>12 DEF Types, TypeOK, DrainedNothing, PendingTimesOut, ObservationArrives, ArmPending
<1>13. ASSUME NEW c \in Controls, ControlCall(c)
      PROVE  Types'
  <2>1. ready' \in Seq(Handles)
    BY <1>13, WakeQueue DEF Types, ControlCall, Handles
  <2>2. control' \in [Controls -> [pc : ControlPc, on : Tasks \cup {NoTask}, old : States]]
    BY <1>13 DEF Types, TypeOK, ControlCall, ControlGoto, ControlPc
  <2> QED
    BY <1>13, <2>1, <2>2 DEF Types, TypeOK, DrainedNothing, ControlCall, agent
<1>14. CASE WatchdogFires
  <2>1. ready' \in Seq(Handles)
    BY <1>14, WakeQueue DEF Types, WatchdogFires, Handles
  <2> QED
    BY <1>14, <2>1 DEF Types, TypeOK, DrainedNothing, WatchdogFires, agent
<1>15. CASE WatchdogGivesUp
  BY <1>15 DEF Types, TypeOK, DrainedNothing, WatchdogGivesUp, States
<1>16. CASE UNCHANGED vars
  BY <1>16 DEF Types, TypeOK, DrainedNothing, vars
<1> QED
  BY <1>1, <1>2, <1>3, <1>4, <1>5, <1>6, <1>7, <1>8, <1>9, <1>10, <1>11, <1>12, <1>13,
     <1>14, <1>15, <1>16 DEF Next, LoopStep, Completion, Environment

\* Every value the scheduler computes is of its type; in particular the drain loop never
\* goes beyond DEFAULT_AGENT_STEP_DRAIN_LIMIT (_drain_steps).
THEOREM SchedulerTypes == Spec => []TypeOK
<1>1. Types => TypeOK
  BY DEF Types
<1> QED
  BY <1>1, InitTypes, TypesStep, PTL DEF Spec

-----------------------------------------------------------------------------
(* Step tasks *)

LEMMA CreateTaskSteps ==
  ASSUME Types, Steps, NEW h, CreateTask(h), ~Alive(stepTask) \/ life # "open",
         UNCHANGED <<lock, life>>
  PROVE  Steps'
<1>1. PICK t \in Tasks : /\ task[t].pc = "none"
                         /\ task' = [task EXCEPT ![t] = [NoStep EXCEPT !.pc = "new"]]
                         /\ stepTask' = t
  BY DEF CreateTask
<1>2. \A u \in Tasks : task'[u].pc = IF u = t THEN "new" ELSE task[u].pc
  BY <1>1 DEF Types, TypeOK, NoStep
<1>3. NoOrphanedStepTask'
  <2> SUFFICES ASSUME life = "open", NEW u \in Tasks, Before(u)', u # t PROVE FALSE
    BY <1>1 DEF NoOrphanedStepTask
  <2>1. Before(u)
    BY <1>2 DEF Before
  <2>2. u = stepTask /\ u # NoTask
    BY <2>1, SchedulerConstants DEF Steps, NoOrphanedStepTask
  <2> QED
    BY <2>1, <2>2 DEF Alive, Before
<1>4. StepsAreExclusive'
  BY <1>1, <1>2 DEF Steps, StepsAreExclusive
<1>5. StepTaskSteps'
  BY <1>1, <1>2 DEF StepTaskSteps
<1> QED
  BY <1>3, <1>4, <1>5 DEF Steps

\* The task that holds the lock gives it back, and is not referred to any more.
LEMMA TeardownSteps ==
  ASSUME Types, Steps, NEW t \in Tasks, NEW c, NEW pc \in {"none", "handling"}, Teardown(t, c, pc),
         task[t].pc \in {"work", "yield"}, UNCHANGED life
  PROVE  Steps'
<1>1. \A u \in Tasks : task'[u].pc = IF u = t THEN pc ELSE task[u].pc
  BY DEF Types, TypeOK, NoStep, Teardown
<1>2. lock = t /\ lock' = NoTask /\ stepTask' = NoTask /\ NoTask \notin Tasks
  BY SchedulerConstants DEF Steps, StepsAreExclusive, Teardown
<1>3. NoOrphanedStepTask'
  <2> SUFFICES ASSUME life = "open", NEW u \in Tasks, Before(u)' PROVE FALSE
    BY DEF NoOrphanedStepTask
  <2>1. Before(u) /\ u # t
    BY <1>1 DEF Before
  <2>2. Before(t)
    BY DEF Before
  <2> QED
    BY <2>1, <2>2 DEF Steps, NoOrphanedStepTask
<1>4. StepsAreExclusive'
  BY <1>1, <1>2 DEF Steps, StepsAreExclusive
<1>5. StepTaskSteps'
  BY <1>2 DEF StepTaskSteps
<1> QED
  BY <1>3, <1>4, <1>5 DEF Steps

\* A task moves on before its teardown; it has the lock if it is in the drain loop.
LEMMA MoveSteps ==
  ASSUME Types, Steps, NEW t \in Tasks, Before(t), NEW pc \in {"lock", "work", "yield", "none"},
         \A u \in Tasks : task'[u].pc = IF u = t THEN pc ELSE task[u].pc,
         \/ task[t].pc \in {"work", "yield"} /\ pc \in {"work", "yield"} /\ lock' = lock
         \/ task[t].pc \in {"new", "lock"} /\ pc \in {"lock", "none"} /\ lock' = lock
         \/ task[t].pc \in {"new", "lock"} /\ pc \in {"work", "yield"} /\ lock = NoTask /\ lock' = t,
         UNCHANGED <<stepTask, life>>
  PROVE  Steps'
<1>1. NoOrphanedStepTask'
  BY DEF Steps, NoOrphanedStepTask, Before
<1>2. StepsAreExclusive'
  BY SchedulerConstants DEF Steps, StepsAreExclusive
<1>3. StepTaskSteps'
  BY DEF Types, TypeOK, Steps, StepTaskSteps
<1> QED
  BY <1>1, <1>2, <1>3 DEF Steps

\* Nothing a task's identity or position depends on changes.
LEMMA SameSteps ==
  ASSUME Types, Steps, \A u \in Tasks : task'[u].pc = task[u].pc,
         UNCHANGED <<stepTask, lock>>, life' = "open" => life = "open"
  PROVE  Steps'
BY DEF Types, TypeOK, Steps, NoOrphanedStepTask, StepsAreExclusive, StepTaskSteps, Before

LEMMA IterateEffect ==
  ASSUME Types, NEW t \in Tasks, Iterate(t)
  PROVE  /\ \A u \in Tasks :
              task'[u].pc = IF u # t THEN task[u].pc ELSE IF CanStep THEN "work" ELSE "yield"
         /\ \A u \in Tasks : task'[u].cancelled = task[u].cancelled
         /\ owed' = "none"
BY DEF Types, TypeOK, Iterate

LEMMA TaskStepSteps ==
  ASSUME Types, Steps, NEW t \in Tasks, TaskStep(t)
  PROVE  Steps'
<1>1. CASE StartTask(t)
  <2>1. CASE LockFree
    BY <1>1, <2>1, IterateEffect, MoveSteps DEF StartTask, LockFree, Before
  <2>2. CASE ~LockFree
    <3>1. task' = [task EXCEPT ![t].pc = "lock"] /\ UNCHANGED <<stepTask, lock, life>>
      BY <1>1, <2>2 DEF StartTask, Goto
    <3>2. \A u \in Tasks : task'[u].pc = IF u = t THEN "lock" ELSE task[u].pc
      BY <3>1 DEF Types, TypeOK
    <3> QED
      BY <1>1, <3>1, <3>2, MoveSteps DEF StartTask, Before
  <2> QED
    BY <2>1, <2>2
<1>2. CASE LockedTask(t)
  BY <1>2, IterateEffect, MoveSteps DEF LockedTask, Before
<1>3. CASE CancelledEarly(t)
  <2>1. \A u \in Tasks : task'[u].pc = IF u = t THEN "none" ELSE task[u].pc
    BY <1>3 DEF Types, TypeOK, CancelledEarly, NoStep
  <2> QED
    BY <1>3, <2>1, MoveSteps DEF CancelledEarly, Before
<1>4. CASE StepEnds(t) \/ StepHandsOver(t)
  <2>1. \A u \in Tasks : task'[u].pc = IF u = t THEN "yield" ELSE task[u].pc
    BY <1>4 DEF Types, TypeOK, StepEnds, StepHandsOver, Goto
  <2> QED
    BY <1>4, <2>1, MoveSteps DEF StepEnds, StepHandsOver, Before
<1>5. CASE StepRaises(t)
  BY <1>5, TeardownSteps DEF StepRaises
<1>6. CASE StepCancelled(t)
  BY <1>6, TeardownSteps DEF StepCancelled
<1>7. CASE DrainStops(t)
  BY <1>7, TeardownSteps DEF DrainStops
<1>8. CASE DrainAgain(t)
  BY <1>8, IterateEffect, MoveSteps DEF DrainAgain, Before
<1>9. CASE DrainLimitReached(t)
  BY <1>9, TeardownSteps DEF DrainLimitReached
<1> QED
  BY <1>1, <1>2, <1>3, <1>4, <1>5, <1>6, <1>7, <1>8, <1>9 DEF TaskStep

LEMMA ControlStepSteps ==
  ASSUME Types, Steps, NEW c \in Controls, ControlStep(c)
  PROVE  Steps'
<1>1. ASSUME NEW d, CancelStep(d)
      PROVE  \A u \in Tasks : task'[u].pc = task[u].pc
  BY <1>1 DEF Types, TypeOK, CancelStep, Alive
<1>2. CASE StopStart
  BY <1>1, <1>2, SameSteps DEF StopStart
<1>3. CASE CloseStart
  BY <1>1, <1>3, SameSteps DEF CloseStart
<1>4. CASE StopAwaited \/ StopKilled \/ CloseAwaited \/ ControlLocked(c)
  BY <1>4, SameSteps DEF StopAwaited, StopKilled, CloseAwaited, ControlLocked
<1> QED
  BY <1>2, <1>3, <1>4 DEF ControlStep

LEMMA StepsStep == Types /\ Steps /\ [Next]_vars => Steps'
<1> SUFFICES ASSUME Types, Steps, [Next]_vars PROVE Steps'
  OBVIOUS
<1>1. CASE RequestStep
  BY <1>1, CreateTaskSteps, SameSteps DEF RequestStep
<1>2. CASE CreateStepTask
  BY <1>2, CreateTaskSteps, SameSteps DEF CreateStepTask
<1>3. ASSUME NEW t \in Tasks, TaskStep(t)
      PROVE  Steps'
  BY <1>3, TaskStepSteps
<1>4. ASSUME NEW c \in Controls, ControlStep(c)
      PROVE  Steps'
  BY <1>4, ControlStepSteps
<1>5. ASSUME NEW t \in Tasks, HandlerDone(t)
      PROVE  Steps'
  <2>1. \A u \in Tasks : task'[u].pc = IF u = t THEN "none" ELSE task[u].pc
    BY <1>5 DEF Types, TypeOK, HandlerDone, NoStep
  <2>2. UNCHANGED <<stepTask, lock, life>> /\ task[t].pc = "handling"
    BY <1>5 DEF HandlerDone
  <2> QED
    BY <2>1, <2>2 DEF Types, TypeOK, Steps, NoOrphanedStepTask, StepsAreExclusive, StepTaskSteps,
                      Before
<1>6. CASE CloseEnds
  BY <1>6, SameSteps DEF CloseEnds
<1>7. CASE \/ RequestStepClosed \/ WakerSteps \/ StepCall \/ UserMessage
           \/ PendingTimesOut \/ ObservationArrives \/ WatchdogFires \/ WatchdogGivesUp
           \/ \E t \in Tasks : WorkDone(t) \/ ArmPending(t)
           \/ \E c \in Controls : ControlCall(c)
  BY <1>7, SameSteps DEF RequestStepClosed, WakerSteps, StepCall, UserMessage, PendingTimesOut,
                         ObservationArrives, WatchdogFires, WatchdogGivesUp, WorkDone, ArmPending,
                         ControlCall
<1>8. CASE UNCHANGED vars
  BY <1>8, SameSteps DEF vars
<1> QED
  BY <1>1, <1>2, <1>3, <1>4, <1>5, <1>6, <1>7, <1>8 DEF Next, LoopStep, Completion, Environment

LEMMA InitSteps == Init => Steps
BY SchedulerConstants
   DEF Init, Steps, NoOrphanedStepTask, StepsAreExclusive, StepTaskSteps, Before, NoStep

LEMMA StepsInvariant == Spec => [](Types /\ Steps)
BY InitTypes, InitSteps, TypesStep, StepsStep, PTL DEF Spec

\* While the controller is open, every task that has yet to run or to finish its step is
\* the one _step_task refers to: stop() and close() can reach it, and no second one is made
\* (_request_step, _create_step_task, the `finally' of _step).
THEOREM NoStepTaskIsOrphaned == Spec => []NoOrphanedStepTask
<1>1. Steps => NoOrphanedStepTask
  BY DEF Steps
<1> QED
  BY <1>1, StepsInvariant, PTL

\* One task at a time is inside the drain loop, and it is the one that holds _step_lock.
THEOREM StepsExclude == Spec => []StepsAreExclusive
<1>1. Steps => StepsAreExclusive
  BY DEF Steps
<1> QED
  BY <1>1, StepsInvariant, PTL

-----------------------------------------------------------------------------
(* The coroutine stop() in the queues *)

StopWaits == "stop" \in Controls /\ control["stop"].pc \in {"lock", "done"}

\* stop() keeps its place when a step of somebody else adds to the queue of callbacks.
LEMMA RunKeepsStop ==
  ASSUME Types, StopQueuedOnce, NEW h, h # "stop", NEW hs \in Seq(Handles), Run(h, hs),
         Single("stop", hs),
         Occurs("stop", hs) => /\ "stop" \in Controls /\ control["stop"].pc # "idle"
                               /\ ~Queued("stop"),
         "stop" \in Controls => control'["stop"] = control["stop"],
         Occurs("stop", waiters)' => Occurs("stop", waiters)
  PROVE  StopQueuedOnce'
<1>1. Single("stop", ready)'
  BY RunOnce DEF Types, StopQueuedOnce
<1>2. Queued("stop")' => Queued("stop") \/ Occurs("stop", hs)
  BY RunQueue DEF Types
<1> QED
  BY <1>1, <1>2 DEF StopQueuedOnce

LEMMA WakeKeepsStop ==
  ASSUME Types, StopQueuedOnce, UNCHANGED ready \/ \E h \in Handles \ {"stop"} : Wake(h),
         "stop" \in Controls => control'["stop"] = control["stop"], UNCHANGED waiters
  PROVE  StopQueuedOnce' /\ (Queued("stop")' => Queued("stop"))
<1>1. CASE UNCHANGED ready
  BY <1>1 DEF StopQueuedOnce, Single, Queued, Occurs
<1>2. ASSUME NEW h \in Handles \ {"stop"}, Wake(h)
      PROVE  Single("stop", ready)' /\ (Queued("stop")' => Queued("stop"))
  BY <1>2, WakeQueue DEF Types, StopQueuedOnce
<1> QED
  BY <1>1, <1>2 DEF StopQueuedOnce, Occurs

LEMMA AppendOccurs ==
  ASSUME NEW S, NEW ws \in Seq(S), NEW e \in S
  PROVE  \A x : Occurs(x, Append(ws, e)) => Occurs(x, ws) \/ x = e
<1>1. Append(ws, e) = ws \o <<e>> /\ <<e>> \in Seq(S) /\ \A x : Occurs(x, <<e>>) => x = e
  BY AppendIsConcat, Pieces
<1>2. \A x : Occurs(x, ws \o <<e>>) <=> Occurs(x, ws) \/ Occurs(x, <<e>>)
  BY <1>1, Concat
<1> QED
  BY <1>1, <1>2

\* What the step of a task does to the queues: it wakes stop() only if that waits for the
\* lock, or for this very task.
LEMMA TaskQueue ==
  ASSUME Types, StopQueuedOnce, NEW t \in Tasks, TaskStep(t)
  PROVE  /\ \A x : x # t /\ Queued(x) => Queued(x)'
         /\ StopQueuedOnce'
         /\ Queued("stop")' =>
              Queued("stop") \/ StopWaits \/ ("stop" \in Controls /\ Awaits("stop", t))
<1> USE SchedulerConstants
<1>1. ASSUME NEW hs \in Seq(Handles), Run(t, hs), Single("stop", hs),
             Occurs("stop", hs) => /\ "stop" \in Controls /\ ~Queued("stop")
                                   /\ StopWaits \/ Awaits("stop", t),
             UNCHANGED control, Occurs("stop", waiters)' => Occurs("stop", waiters)
      PROVE  /\ \A x : x # t /\ Queued(x) => Queued(x)'
             /\ StopQueuedOnce'
             /\ Queued("stop")' =>
                  Queued("stop") \/ StopWaits \/ ("stop" \in Controls /\ Awaits("stop", t))
  <2>1. Occurs("stop", hs) => /\ "stop" \in Controls /\ control["stop"].pc # "idle"
                              /\ ~Queued("stop")
    BY <1>1 DEF StopWaits, Awaits
  <2>2. StopQueuedOnce'
    BY <1>1, <2>1, RunKeepsStop
  <2> QED
    BY <1>1, <2>2, RunQueue DEF Types
<1>2. ASSUME NEW c \in Nat, NEW pc, Teardown(t, c, pc), UNCHANGED <<waiters, control>>
      PROVE  /\ \A x : x # t /\ Queued(x) => Queued(x)'
             /\ StopQueuedOnce'
             /\ Queued("stop")' =>
                  Queued("stop") \/ StopWaits \/ ("stop" \in Controls /\ Awaits("stop", t))
  <2>1. PICK hs \in Seq(Handles) :
           /\ Run(t, hs)
           /\ Occurs("stop", hs) =>
                \/ Occurs("stop", waiters) /\ "stop" \in Controls /\ ~Queued("stop")
                \/ "stop" \in Controls /\ Awaits("stop", t)
           /\ (Occurs("stop", waiters) => ~Awaits("stop", t)) => Single("stop", hs)
    BY <1>2, TeardownQueue DEF Types
  <2>2. Occurs("stop", waiters) /\ "stop" \in Controls => StopWaits
    BY DEF StopQueuedOnce, StopWaits
  <2>3. Awaits("stop", t) => ~StopWaits /\ ~Queued("stop") /\ "stop" \in Controls
    BY DEF Awaits, StopWaits
  <2>4. Occurs("stop", waiters)' => Occurs("stop", waiters)
    BY <1>2 DEF Occurs
  <2> QED
    BY <1>1, <1>2, <2>1, <2>2, <2>3, <2>4
<1>3. ASSUME NEW b \in BOOLEAN, Run(t, IF b THEN <<>> ELSE <<t>>), UNCHANGED control,
             Occurs("stop", waiters)' => Occurs("stop", waiters)
      PROVE  /\ \A x : x # t /\ Queued(x) => Queued(x)'
             /\ StopQueuedOnce'
             /\ Queued("stop")' =>
                  Queued("stop") \/ StopWaits \/ ("stop" \in Controls /\ Awaits("stop", t))
  <2> DEFINE hs == IF b THEN <<>> ELSE <<t>>
  <2>1. hs \in Seq(Handles) /\ Single("stop", hs) /\ ~Occurs("stop", hs)
    BY Pieces DEF Handles
  <2>2. Run(t, hs)
    BY <1>3, Zenon
  <2> HIDE DEF hs
  <2> QED
    BY <1>1, <1>3, <2>1, <2>2
<1>4. \A x : Occurs(x, Without(waiters, t)) => Occurs(x, waiters)
  BY WithoutType DEF Types, TypeOK
<1>5. Occurs("stop", waiters)' <=> Occurs("stop", waiters')
  BY DEF Occurs
<1>6. CASE StartTask(t)
  <2>1. CASE LockFree
    BY <1>3, <1>5, <1>6, <2>1 DEF StartTask, Iterate, CanStep
  <2>2. CASE ~LockFree
    <3>1. Occurs("stop", waiters') => Occurs("stop", waiters)
      <4>1. waiters' = Append(waiters, t) /\ t # "stop"
        BY <1>6, <2>2 DEF StartTask
      <4>2. waiters \in Seq(Tasks \cup Controls) /\ t \in Tasks \cup Controls
        BY DEF Types, TypeOK
      <4>3. Occurs("stop", Append(waiters, t)) => Occurs("stop", waiters)
        BY <4>1, <4>2, AppendOccurs
      <4> QED
        BY <4>1, <4>3
    <3>2. Run(t, IF TRUE THEN <<>> ELSE <<t>>)
      BY <1>6, <2>2 DEF StartTask
    <3> QED
      BY <1>3, <1>5, <1>6, <3>1, <3>2 DEF StartTask
  <2> QED
    BY <2>1, <2>2
<1>7. CASE LockedTask(t)
  BY <1>3, <1>4, <1>5, <1>7 DEF LockedTask, Iterate, CanStep
<1>8. CASE CancelledEarly(t)
  <2> DEFINE wake == IF lock = NoTask THEN LockWake(Without(waiters, t)) ELSE <<>>
  <2>1. Without(waiters, t) \in Seq(Tasks \cup Controls)
    BY WithoutType DEF Types, TypeOK
  <2>2. /\ LockWake(Without(waiters, t)) \in Seq(Handles)
        /\ \A x : Single(x, LockWake(Without(waiters, t)))
        /\ \A x : Occurs(x, LockWake(Without(waiters, t))) =>
                    Occurs(x, Without(waiters, t)) /\ ~Queued(x) /\ x \in Tasks \cup Controls
    BY <2>1, LockWakeType
  <2>3. /\ wake \in Seq(Handles) /\ Single("stop", wake)
        /\ Occurs("stop", wake) => StopWaits /\ ~Queued("stop")
    BY <1>4, <2>2, Pieces DEF StopQueuedOnce, StopWaits
  <2> HIDE DEF wake
  <2>4. /\ wake \o Awaiting(t) \in Seq(Handles)
        /\ Occurs("stop", wake \o Awaiting(t)) <=> Occurs("stop", wake) \/ Occurs("stop", Awaiting(t))
        /\ ~(Occurs("stop", wake) /\ Occurs("stop", Awaiting(t)))
           => Single("stop", wake \o Awaiting(t))
    BY <2>3, AwaitingType, Concat
  <2>5. Occurs("stop", Awaiting(t)) => "stop" \in Controls /\ Awaits("stop", t)
    BY AwaitingType
  <2>6. Awaits("stop", t) => ~StopWaits /\ ~Queued("stop")
    BY DEF Awaits, StopWaits
  <2>7. StopWaits => "stop" \in Controls
    BY DEF StopWaits
  <2>8. Run(t, wake \o Awaiting(t)) /\ UNCHANGED control /\ waiters' = Without(waiters, t)
    BY <1>8 DEF CancelledEarly, wake
  <2> QED
    BY <1>1, <1>4, <1>5, <2>3, <2>4, <2>5, <2>6, <2>7, <2>8
<1>9. CASE StepEnds(t)
  <2> DEFINE first == IF CanStep /\ life = "open" THEN <<"request">> ELSE <<>>
  <2>1. first \in Seq(Handles) /\ Single("stop", first) /\ ~Occurs("stop", first)
    <3>1. "request" \in Handles
      BY DEF Handles
    <3>2. /\ <<"request">> \in Seq(Handles) /\ Single("stop", <<"request">>)
          /\ ~Occurs("stop", <<"request">>)
      BY <3>1, Pieces
    <3>3. <<>> \in Seq(Handles) /\ Single("stop", <<>>) /\ ~Occurs("stop", <<>>)
      BY Pieces
    <3> QED
      BY <3>2, <3>3
  <2>2. <<t>> \in Seq(Handles) /\ Single("stop", <<t>>) /\ ~Occurs("stop", <<t>>)
    BY Pieces DEF Handles
  <2>3. Run(t, first \o <<t>>)
    BY <1>9 DEF StepEnds
  <2> HIDE DEF first
  <2>4. /\ first \o <<t>> \in Seq(Handles) /\ Single("stop", first \o <<t>>)
        /\ ~Occurs("stop", first \o <<t>>)
    BY <2>1, <2>2, Concat
  <2> QED
    BY <1>1, <1>5, <1>9, <2>3, <2>4 DEF StepEnds
<1>10. CASE StepHandsOver(t)
  <2>1. Run(t, IF FALSE THEN <<>> ELSE <<t>>)
    BY <1>10 DEF StepHandsOver
  <2> QED
    BY <1>3, <1>5, <1>10, <2>1 DEF StepHandsOver
<1>11. CASE StepRaises(t)
  BY <1>2, <1>11 DEF Types, TypeOK, StepRaises
<1>12. CASE StepCancelled(t)
  BY <1>2, <1>12 DEF Types, TypeOK, StepCancelled
<1>13. CASE DrainStops(t)
  BY <1>2, <1>13 DEF Types, TypeOK, DrainStops
<1>14. CASE DrainAgain(t)
  BY <1>3, <1>5, <1>14 DEF DrainAgain, Iterate, CanStep
<1>15. CASE DrainLimitReached(t)
  BY <1>2, <1>15 DEF Types, TypeOK, DrainLimitReached
<1> QED
  BY <1>6, <1>7, <1>8, <1>9, <1>10, <1>11, <1>12, <1>13, <1>14, <1>15 DEF TaskStep

\* What a step of stop() or close() does to them.
LEMMA ControlQueue ==
  ASSUME Types, StopQueuedOnce, NEW c \in Controls, ControlStep(c)
  PROVE  /\ \A x : x # c /\ Queued(x) => Queued(x)'
         /\ StopQueuedOnce'
         /\ c = "close" => (Queued("stop")' => Queued("stop") \/ StopWaits)
         /\ c = "stop" /\ CancelStep("stop") => ~Queued("stop")'
         /\ Queued(c)
<1> USE SchedulerConstants
<1>1. ASSUME NEW hs \in Seq(Handles), Run(c, hs), Single("stop", hs),
             c = "close",
             Occurs("stop", hs) => StopWaits /\ ~Queued("stop"),
             "stop" \in Controls => control'["stop"] = control["stop"],
             Occurs("stop", waiters') => Occurs("stop", waiters)
      PROVE  /\ \A x : x # c /\ Queued(x) => Queued(x)'
             /\ StopQueuedOnce'
             /\ Queued("stop")' => Queued("stop") \/ StopWaits
             /\ Queued(c)
  <2>1. Occurs("stop", hs) => /\ "stop" \in Controls /\ control["stop"].pc # "idle"
                              /\ ~Queued("stop")
    BY <1>1 DEF StopWaits
  <2>2. Occurs("stop", waiters)' => Occurs("stop", waiters)
    BY <1>1 DEF Occurs
  <2>3. StopQueuedOnce'
    BY <1>1, <2>1, <2>2, RunKeepsStop
  <2> QED
    BY <1>1, <2>3, RunQueue DEF Types
<1>2. ASSUME NEW hs \in Seq(Handles), Run(c, hs), Single("stop", hs),
             c = "stop", control["stop"].pc \in {"start", "await", "kill", "lock"},
             control'["stop"].pc # "idle",
             Occurs("stop", waiters') => \/ control'["stop"].pc = "lock"
                                         \/ Occurs("stop", waiters) /\ control'["stop"].pc = "done"
                                         \/ /\ Occurs("stop", waiters)
                                            /\ control["stop"].pc # "lock"
      PROVE  /\ \A x : x # c /\ Queued(x) => Queued(x)'
             /\ StopQueuedOnce'
             /\ ~Occurs("stop", hs) => ~Queued("stop")'
             /\ Queued(c)
  <2>1. /\ Single("stop", ready)'
        /\ ~Occurs("stop", hs) => ~Queued("stop")'
    BY <1>2, RunOnce DEF Types, StopQueuedOnce
  <2>2. Occurs("stop", waiters)' => control'["stop"].pc \in {"lock", "done"}
    BY <1>2 DEF StopQueuedOnce, Occurs
  <2>3. StopQueuedOnce'
    BY <1>2, <2>1, <2>2 DEF StopQueuedOnce
  <2> QED
    BY <1>2, <2>1, <2>3, RunQueue DEF Types
<1>3. /\ <<>> \in Seq(Handles) /\ Single("stop", <<>>) /\ ~Occurs("stop", <<>>)
  BY Pieces
<1>4. ASSUME CancelStep(c)
      PROVE  /\ Cancelled(stepTask) \in Seq(Handles) /\ Run(c, Cancelled(stepTask))
             /\ Single("stop", Cancelled(stepTask)) /\ ~Occurs("stop", Cancelled(stepTask))
  <2>1. stepTask \in Tasks
    BY <1>4 DEF Types, TypeOK, CancelStep, Alive
  <2> QED
    BY <1>4, <2>1, CancelledType DEF CancelStep
<1>5. ASSUME c = "stop", CancelStep(c), control["stop"].pc = "start"
      PROVE  /\ \A x : x # c /\ Queued(x) => Queued(x)'
             /\ StopQueuedOnce' /\ ~Queued("stop")' /\ Queued(c)
  <2>1. control'["stop"].pc = "await" /\ waiters' = waiters
    BY <1>5 DEF Types, TypeOK, CancelStep
  <2> QED
    BY <1>2, <1>4, <1>5, <2>1
<1>6. ASSUME c = "stop", KillRuntime, control["stop"].pc \in {"start", "await"}
      PROVE  /\ \A x : x # c /\ Queued(x) => Queued(x)'
             /\ StopQueuedOnce' /\ Queued(c)
  <2>1. control'["stop"].pc = "kill" /\ waiters' = waiters /\ Run(c, <<"stop">>)
    BY <1>6 DEF Types, TypeOK, KillRuntime
  <2>2. <<"stop">> \in Seq(Handles) /\ Single("stop", <<"stop">>)
    <3>1. "stop" \in Handles
      BY <1>6 DEF Handles
    <3> QED
      BY <3>1, Pieces
  <2> QED
    BY <1>2, <1>6, <2>1, <2>2
<1>7. ASSUME SetStopped(c)
      PROVE  /\ Run(c, <<>>)
             /\ control'[c].pc # "idle" /\ (c = "stop" => control'["stop"].pc \in {"lock", "done"})
             /\ c = "close" /\ "stop" \in Controls => control'["stop"] = control["stop"]
             /\ Occurs("stop", waiters') => Occurs("stop", waiters) \/ c = "stop"
  <2>1. Occurs("stop", waiters') => Occurs("stop", waiters) \/ c = "stop"
    <3>1. waiters \in Seq(Tasks \cup Controls) /\ c \in Tasks \cup Controls
      BY DEF Types, TypeOK
    <3>2. Occurs("stop", Append(waiters, c)) => Occurs("stop", waiters) \/ c = "stop"
      BY <3>1, AppendOccurs
    <3>3. waiters' = waiters \/ waiters' = Append(waiters, c)
      BY <1>7 DEF SetStopped
    <3> QED
      BY <3>2, <3>3
  <2>2. control' = [control EXCEPT ![c] =
          [pc |-> IF state # "STOPPED" /\ ~LockFree THEN "lock"
                  ELSE IF c = "close" THEN "end" ELSE "done",
           on |-> NoTask, old |-> state]]
    BY <1>7 DEF SetStopped
  <2> QED
    BY <1>7, <2>1, <2>2 DEF Types, TypeOK, SetStopped
<1>8. ASSUME c = "stop", SetStopped(c), control["stop"].pc = "kill"
      PROVE  /\ \A x : x # c /\ Queued(x) => Queued(x)'
             /\ StopQueuedOnce' /\ Queued(c)
  <2>1. ~Occurs("stop", waiters)
    BY <1>8 DEF StopQueuedOnce
  <2>2. Occurs("stop", waiters') => control'["stop"].pc = "lock"
    <3>1. CASE state # "STOPPED" /\ ~LockFree
      BY <1>8, <3>1 DEF Types, TypeOK, SetStopped
    <3>2. CASE ~(state # "STOPPED" /\ ~LockFree)
      BY <1>8, <2>1, <3>2 DEF SetStopped
    <3> QED
      BY <3>1, <3>2
  <2> QED
    BY <1>2, <1>3, <1>7, <1>8, <2>2
<1>9. ASSUME c = "close", SetStopped(c) \/ KeepState \/ CancelStep(c)
      PROVE  /\ \A x : x # c /\ Queued(x) => Queued(x)'
             /\ StopQueuedOnce' /\ (Queued("stop")' => Queued("stop") \/ StopWaits) /\ Queued(c)
  <2>1. CASE SetStopped(c)
    BY <1>1, <1>3, <1>7, <1>9, <2>1
  <2>2. CASE KeepState
    <3>1. Run(c, <<>>) /\ waiters' = waiters
          /\ ("stop" \in Controls => control'["stop"] = control["stop"])
      BY <1>9, <2>2 DEF Types, TypeOK, KeepState
    <3> QED
      BY <1>1, <1>3, <1>9, <3>1
  <2>3. CASE CancelStep(c)
    <3>1. waiters' = waiters /\ ("stop" \in Controls => control'["stop"] = control["stop"])
      BY <1>9, <2>3 DEF Types, TypeOK, CancelStep
    <3> QED
      BY <1>1, <1>4, <1>9, <2>3, <3>1
  <2> QED
    BY <1>9, <2>1, <2>2, <2>3
<1>10. ASSUME ControlLocked(c)
       PROVE  /\ \A x : x # c /\ Queued(x) => Queued(x)'
              /\ StopQueuedOnce'
              /\ c = "close" => (Queued("stop")' => Queued("stop") \/ StopWaits)
              /\ Queued(c)
  <2> DEFINE ws == Without(waiters, c)
  <2>1. /\ ws \in Seq(Tasks \cup Controls) /\ waiters' = ws
        /\ \A x : Occurs(x, ws) => Occurs(x, waiters)
    BY <1>10, WithoutType DEF Types, TypeOK, ControlLocked
  <2> HIDE DEF ws
  <2>2. /\ LockWake(ws) \in Seq(Handles) /\ Single("stop", LockWake(ws))
        /\ Occurs("stop", LockWake(ws)) =>
             Occurs("stop", ws) /\ ~Queued("stop") /\ "stop" \in Tasks \cup Controls
    BY <2>1, LockWakeType
  <2>3. Run(c, LockWake(ws))
    BY <1>10, <2>1 DEF ControlLocked, LockWake
  <2>4. CASE c = "close"
    <3>1. Occurs("stop", LockWake(ws)) => StopWaits
      <4>1. Occurs("stop", LockWake(ws)) => Occurs("stop", waiters) /\ "stop" \in Controls
        BY <2>1, <2>2
      <4> QED
        BY <4>1 DEF StopQueuedOnce, StopWaits
    <3>2. "stop" \in Controls => control'["stop"] = control["stop"]
      BY <1>10, <2>4 DEF Types, TypeOK, ControlLocked, ControlGoto
    <3> QED
      BY <1>1, <2>1, <2>2, <2>3, <2>4, <3>1, <3>2
  <2>5. CASE c = "stop"
    <3>1. control["stop"].pc = "lock" /\ control'["stop"].pc = "done"
      BY <1>10, <2>5 DEF Types, TypeOK, ControlLocked, ControlGoto
    <3> QED
      BY <1>2, <2>1, <2>2, <2>3, <2>5, <3>1
  <2> QED
    BY <2>4, <2>5
<1>11. CASE c = "stop" /\ (StopStart \/ StopAwaited \/ StopKilled)
  <2>1. CASE StopStart
    <3>1. CASE CancelStep("stop")
      BY <1>5, <1>11, <2>1, <3>1 DEF StopStart
    <3>2. CASE ~CancelStep("stop")
      BY <1>6, <1>11, <2>1, <3>2 DEF StopStart
    <3> QED
      BY <3>1, <3>2
  <2>2. CASE StopAwaited
    <3>1. control'["stop"].pc = "kill" /\ control["stop"].pc = "await"
      BY <1>11, <2>2 DEF Types, TypeOK, StopAwaited, KillRuntime
    <3>2. ~CancelStep("stop")
      BY <1>11, <3>1 DEF Types, TypeOK, CancelStep
    <3> QED
      BY <1>6, <1>11, <2>2, <3>1, <3>2 DEF StopAwaited
  <2>3. CASE StopKilled
    <3>1. control'["stop"].pc \in {"lock", "done"} /\ control["stop"].pc = "kill"
      BY <1>7, <1>11, <2>3 DEF StopKilled
    <3>2. ~CancelStep("stop")
      BY <1>11, <3>1 DEF Types, TypeOK, CancelStep
    <3> QED
      BY <1>8, <1>11, <2>3, <3>1, <3>2 DEF StopKilled
  <2> QED
    BY <1>11, <2>1, <2>2, <2>3
<1>12. CASE c = "close" /\ (CloseStart \/ CloseAwaited)
  BY <1>9, <1>12 DEF CloseStart, CloseAwaited
<1>13. CASE ControlLocked(c)
  <2>1. ~(c = "stop" /\ CancelStep("stop"))
    BY <1>13 DEF Types, TypeOK, ControlLocked, ControlGoto, CancelStep
  <2> QED
    BY <1>10, <1>13, <2>1
<1> QED
  BY <1>11, <1>12, <1>13 DEF ControlStep

-----------------------------------------------------------------------------
(* Requests *)

\* What every step of a task leaves alone; while the controller is open it is _step_task's.
LEMMA TaskStepEffect ==
  ASSUME Types, Steps, NEW t \in Tasks, TaskStep(t)
  PROVE  /\ UNCHANGED <<control, life, waking>>
         /\ state' = state \/ state' # "RUNNING"
         /\ \A u \in Tasks : u # t => task'[u] = task[u]
         /\ ~task'[t].cancelled
         /\ Before(t)
         /\ owed' # "open" \/ owed' = owed
         /\ life = "open" => t = stepTask
<1>1. /\ UNCHANGED <<control, life, waking>>
      /\ state' = state \/ state' # "RUNNING"
      /\ Before(t)
      /\ owed' # "open" \/ owed' = owed
  BY DEF TaskStep, StartTask, LockedTask, CancelledEarly, StepEnds, StepHandsOver, StepRaises,
         StepCancelled, DrainStops, DrainAgain, DrainLimitReached, Iterate, Before, agent
<1>2. /\ \A u \in Tasks : u # t => task'[u] = task[u]
      /\ ~task'[t].cancelled
  <2>1. CASE StartTask(t) \/ LockedTask(t) \/ DrainAgain(t) \/ StepEnds(t) \/ StepHandsOver(t)
    <3>1. Iterate(t) \/ \E pc \in TaskPc : Goto(t, pc)
      BY <2>1 DEF StartTask, LockedTask, DrainAgain, StepEnds, StepHandsOver, TaskPc
    <3>2. ~task[t].cancelled
      BY <2>1 DEF StartTask, LockedTask, DrainAgain, StepEnds, StepHandsOver
    <3>3. CASE Iterate(t)
      BY <3>2, <3>3 DEF Types, TypeOK, Iterate
    <3>4. ASSUME NEW pc \in TaskPc, Goto(t, pc)
          PROVE  (\A u \in Tasks : u # t => task'[u] = task[u]) /\ ~task'[t].cancelled
      BY <3>2, <3>4 DEF Types, TypeOK, Goto
    <3> QED
      BY <3>1, <3>3, <3>4
  <2>2. CASE CancelledEarly(t)
    BY <2>2 DEF Types, TypeOK, CancelledEarly, NoStep
  <2>3. ASSUME NEW c, NEW pc, Teardown(t, c, pc)
        PROVE  (\A u \in Tasks : u # t => task'[u] = task[u]) /\ ~task'[t].cancelled
    BY <2>3 DEF Types, TypeOK, Teardown, NoStep
  <2>4. CASE StepRaises(t) \/ StepCancelled(t) \/ DrainStops(t) \/ DrainLimitReached(t)
    BY <2>3, <2>4 DEF StepRaises, StepCancelled, DrainStops, DrainLimitReached
  <2> QED
    BY <2>1, <2>2, <2>4 DEF TaskStep
<1>3. life = "open" => t = stepTask
  BY <1>1 DEF Steps, NoOrphanedStepTask
<1> QED
  BY <1>1, <1>2, <1>3

\* The `finally' of _step hands requests that are left over to the next task.
LEMMA TeardownHandsOver ==
  ASSUME Types, NEW t \in Tasks, NEW c \in Nat, NEW pc, Teardown(t, c, pc)
  PROVE  life = "open" /\ c > 0 => Queued("create")'
BY TeardownQueue, RunQueue DEF Types

\* Nobody is cancelled but by a stop() that waits for it.
LEMMA TaskStepCancelled ==
  ASSUME Types, Steps, Requests, NEW t \in Tasks, TaskStep(t)
  PROVE  StopQueuedOnce' /\ CancelledByStop'
<1>1. /\ StopQueuedOnce'
      /\ Queued("stop")' => Queued("stop") \/ StopWaits \/ ("stop" \in Controls /\ Awaits("stop", t))
  BY TaskQueue DEF Requests
<1>2. ASSUME life' = "open", NEW u \in Tasks, task'[u].cancelled
      PROVE  /\ "stop" \in Controls
             /\ control'["stop"].pc = "await" /\ control'["stop"].on = u
             /\ ~Queued("stop")'
  <2>1. u # t /\ task[u].cancelled /\ life = "open" /\ control' = control
    BY <1>2, TaskStepEffect
  <2>2. /\ "stop" \in Controls
        /\ control["stop"].pc = "await" /\ control["stop"].on = u
        /\ ~Queued("stop")
    BY <2>1 DEF Requests, CancelledByStop
  <2> QED
    BY <1>1, <2>1, <2>2 DEF StopWaits, Awaits
<1> QED
  BY <1>1, <1>2 DEF CancelledByStop

\* A step task that carries the request passes it on, or the request is answered.
LEMMA TaskStepCarries ==
  ASSUME Types, Steps, Requests, NEW t \in Tasks, TaskStep(t), life = "open", owed' = "open"
  PROVE  /\ TaskCarriesRequest'
         /\ Carries(t) => Carries(t)' \/ Queued("create")'
<1> USE SchedulerConstants
<1>1. owed = "open" /\ t = stepTask /\ \A u \in Tasks : u # t => task'[u] = task[u]
  BY TaskStepEffect
<1>2. ASSUME stepTask' = stepTask, Before(t)' => Carries(t)', ~Carries(t) \/ Before(t)'
      PROVE  /\ TaskCarriesRequest'
             /\ Carries(t) => Carries(t)' \/ Queued("create")'
  BY <1>1, <1>2 DEF TaskCarriesRequest
<1>3. ASSUME NEW c \in Nat, NEW pc, Teardown(t, c, pc), Carries(t) => c > 0
      PROVE  /\ TaskCarriesRequest'
             /\ Carries(t) => Carries(t)' \/ Queued("create")'
  <2>1. stepTask' = NoTask
    BY <1>3 DEF Teardown
  <2> QED
    BY <1>3, <2>1, TeardownHandsOver DEF TaskCarriesRequest
<1>4. CASE StartTask(t)
  <2>1. ~LockFree
    BY <1>4 DEF StartTask, Iterate
  <2>2. stepTask' = stepTask /\ task'[t].pc = "lock" /\ ~task'[t].cancelled
    <3>1. stepTask' = stepTask /\ Goto(t, "lock") /\ ~task[t].cancelled
      BY <1>4, <2>1 DEF StartTask
    <3> QED
      BY <3>1 DEF Types, TypeOK, Goto
  <2> QED
    BY <1>2, <2>2 DEF Carries, Before
<1>5. CASE LockedTask(t) \/ DrainAgain(t)
  BY <1>5 DEF LockedTask, DrainAgain, Iterate
<1>6. CASE CancelledEarly(t)
  <2>1. stepTask' = stepTask /\ task'[t].pc = "none" /\ task[t].cancelled
    BY <1>6 DEF Types, TypeOK, CancelledEarly, NoStep
  <2> QED
    BY <1>2, <2>1 DEF Carries, Before
<1>7. CASE StepEnds(t) \/ StepHandsOver(t)
  <2>1. /\ stepTask' = stepTask /\ count' = count
        /\ task[t].pc = "work" /\ ~task[t].cancelled
        /\ task'[t].pc = "yield" /\ ~task'[t].cancelled
    BY <1>7 DEF Types, TypeOK, StepEnds, StepHandsOver, Goto
  <2>2. Carries(t)
    BY <1>1, <2>1 DEF Requests, TaskCarriesRequest, Before
  <2> QED
    BY <1>2, <2>1, <2>2 DEF Carries, Before
<1>8. CASE StepRaises(t)
  <2>1. Teardown(t, count, "handling") /\ (Carries(t) => count > 0) /\ count \in Nat
    BY <1>8 DEF Types, TypeOK, StepRaises, Carries
  <2> QED
    BY <1>3, <2>1
<1>9. CASE StepCancelled(t)
  <2>1. Teardown(t, count, "none") /\ ~Carries(t) /\ count \in Nat
    BY <1>9 DEF Types, TypeOK, StepCancelled, Carries
  <2> QED
    BY <1>3, <2>1
<1>10. CASE DrainStops(t)
  <2>1. Teardown(t, 0, "none") /\ ~Carries(t)
    BY <1>10 DEF DrainStops, Carries
  <2> QED
    BY <1>3, <2>1
<1>11. CASE DrainLimitReached(t)
  <2>1. Teardown(t, count - 1, "none") /\ count - 1 > 0 /\ count - 1 \in Nat
    BY <1>11 DEF Types, TypeOK, DrainLimitReached
  <2> QED
    BY <1>3, <2>1
<1> QED
  BY <1>4, <1>5, <1>6, <1>7, <1>8, <1>9, <1>10, <1>11 DEF TaskStep

LEMMA TaskStepRequests ==
  ASSUME Types, Steps, Requests, NEW t \in Tasks, TaskStep(t)
  PROVE  Requests'
<1> USE SchedulerConstants
<1>1. StopQueuedOnce' /\ CancelledByStop'
  BY TaskStepCancelled
<1>2. life' = life
  BY TaskStepEffect
<1>3. CASE ~(life = "open" /\ owed' = "open")
  BY <1>1, <1>2, <1>3 DEF Requests, TaskCarriesRequest, RequestOnItsWay
<1>4. CASE life = "open" /\ owed' = "open"
  <2>1. TaskCarriesRequest' /\ (Carries(t) => Carries(t)' \/ Queued("create")')
    BY <1>4, TaskStepCarries
  <2>2. /\ Queued("request") => Queued("request")'
        /\ Queued("create") => Queued("create")'
    BY TaskQueue DEF Requests
  <2>3. /\ owed = "open" /\ t = stepTask
        /\ control' = control /\ waking' = waking /\ (state' = state \/ state' # "RUNNING")
    BY <1>4, TaskStepEffect
  <2>4. ASSUME NEW u \in Tasks, Carries(u)
        PROVE  u = t
    BY <1>4, <2>3, <2>4 DEF Steps, NoOrphanedStepTask, Carries
  <2>5. RequestOnItsWay'
    BY <1>4, <2>1, <2>2, <2>3, <2>4 DEF Requests, RequestOnItsWay
  <2> QED
    BY <1>1, <2>1, <2>5 DEF Requests
<1> QED
  BY <1>3, <1>4

\* stop() forgets the requests, but it ends in a state without steps; close() answers none.
LEMMA ControlStepRequests ==
  ASSUME Types, Steps, Requests, NEW c \in Controls, ControlStep(c)
  PROVE  Requests'
<1> USE SchedulerConstants
<1>1. /\ StopQueuedOnce'
      /\ Queued("request") => Queued("request")'
      /\ Queued("create") => Queued("create")'
      /\ c = "close" => (Queued("stop")' => Queued("stop") \/ StopWaits)
      /\ c = "stop" /\ CancelStep("stop") => ~Queued("stop")'
      /\ Queued(c)
  BY ControlQueue DEF Requests
<1>2. CASE c = "stop" /\ StopStart /\ CancelStep("stop")
  <2>1. /\ stepTask \in Tasks /\ stepTask' = stepTask /\ life' = life /\ control["stop"].pc = "start"
        /\ control'["stop"].pc = "await" /\ control'["stop"].on = stepTask
        /\ task'[stepTask].cancelled
        /\ \A u \in Tasks : u # stepTask => task'[u] = task[u]
    BY <1>2 DEF Types, TypeOK, StopStart, CancelStep, Alive
  <2>2. CancelledByStop'
    BY <1>1, <1>2, <2>1 DEF Requests, CancelledByStop
  <2>3. TaskCarriesRequest' /\ RequestOnItsWay'
    BY <1>2, <2>1 DEF TaskCarriesRequest, RequestOnItsWay
  <2> QED
    BY <1>1, <2>2, <2>3 DEF Requests
<1>3. CASE c = "stop" /\ StopStart /\ ~CancelStep("stop")
  <2>1. /\ UNCHANGED <<task, stepTask, life>> /\ ~Alive(stepTask) /\ control["stop"].pc = "start"
        /\ control'["stop"].pc = "kill"
    BY <1>3 DEF Types, TypeOK, StopStart, KillRuntime
  <2>2. CancelledByStop'
    BY <2>1 DEF Requests, CancelledByStop
  <2>3. TaskCarriesRequest'
    BY <2>1 DEF TaskCarriesRequest, Before, Alive
  <2>4. RequestOnItsWay'
    BY <1>3, <2>1 DEF RequestOnItsWay
  <2> QED
    BY <1>1, <2>2, <2>3, <2>4 DEF Requests
<1>4. ASSUME UNCHANGED <<task, stepTask, count, life, owed>>, CancelledByStop',
             life = "open" => \/ state' # "RUNNING"
                              \/ "stop" \in Controls /\ control'["stop"].pc \in {"await", "kill"}
                              \/ /\ UNCHANGED <<state, waking>>
                                 /\ "stop" \in Controls /\ control["stop"].pc \in {"await", "kill"}
                                    => control'["stop"].pc \in {"await", "kill"}
      PROVE  Requests'
  <2>1. TaskCarriesRequest'
    BY <1>4 DEF Requests, TaskCarriesRequest, Carries, Before
  <2>2. RequestOnItsWay'
    BY <1>1, <1>4 DEF Requests, RequestOnItsWay, Carries, Before
  <2> QED
    BY <1>1, <1>4, <2>1, <2>2 DEF Requests
<1>5. CASE c = "stop" /\ (StopAwaited \/ StopKilled \/ ControlLocked("stop"))
  <2>1. /\ UNCHANGED <<task, stepTask, count, life, owed, waking>>
        /\ \/ control["stop"].pc = "await" /\ control'["stop"].pc = "kill"
           \/ control["stop"].pc = "kill" /\ state' = "STOPPED"
           \/ control["stop"].pc = "lock" /\ state' = state
    BY <1>5 DEF Types, TypeOK, StopAwaited, StopKilled, ControlLocked, KillRuntime, SetStopped
  <2>2. CancelledByStop'
    BY <1>1, <1>5, <2>1 DEF Requests, CancelledByStop
  <2> QED
    BY <1>4, <1>5, <2>1, <2>2
<1>6. CASE c = "close" /\ (CloseAwaited \/ ControlLocked("close"))
  <2>1. /\ UNCHANGED <<task, stepTask, count, life, owed, waking>>
        /\ state' \in {state, "STOPPED"}
        /\ "stop" \in Controls => control'["stop"] = control["stop"]
    BY <1>6 DEF Types, TypeOK, CloseAwaited, ControlLocked, KeepState, SetStopped, ControlGoto
  <2>2. CancelledByStop'
    BY <1>1, <1>6, <2>1 DEF Requests, CancelledByStop, StopWaits
  <2> QED
    BY <1>4, <1>6, <2>1, <2>2
<1>7. CASE c = "close" /\ CloseStart
  <2>1. life' = "closing"
    BY <1>7 DEF CloseStart
  <2> QED
    BY <1>1, <2>1 DEF Requests, CancelledByStop, TaskCarriesRequest, RequestOnItsWay
<1>8. c \in {"stop", "close"}
  OBVIOUS
<1> QED
  BY <1>2, <1>3, <1>5, <1>6, <1>7, <1>8 DEF ControlStep

\* A request that reaches the controller is counted or has a step task of its own.
LEMMA CreateTaskRequests ==
  ASSUME Types, Steps, Requests, NEW h \in {"request", "create"}, CreateTask(h),
         UNCHANGED <<waiters, life, control>>
  PROVE  Requests'
<1> USE SchedulerConstants
<1>1. PICK t \in Tasks : /\ task[t].pc = "none"
                         /\ Run(h, <<t>>)
                         /\ task' = [task EXCEPT ![t] = [NoStep EXCEPT !.pc = "new"]]
                         /\ stepTask' = t
  BY DEF CreateTask
<1>2. <<t>> \in Seq(Handles) /\ Single("stop", <<t>>) /\ ~Occurs("stop", <<t>>)
  BY Pieces DEF Handles
<1>3. /\ task'[t].pc = "new" /\ ~task'[t].cancelled
      /\ \A u \in Tasks : u # t => task'[u] = task[u]
  BY <1>1 DEF Types, TypeOK, NoStep
<1>4. StopQueuedOnce'
  <2>1. Occurs("stop", waiters)' => Occurs("stop", waiters)
    BY DEF Occurs
  <2> QED
    BY <1>1, <1>2, <2>1, RunKeepsStop DEF Requests
<1>5. CancelledByStop'
  <2>1. Queued("stop")' => Queued("stop")
    BY <1>1, <1>2, RunQueue DEF Types
  <2> QED
    BY <1>3, <2>1 DEF Requests, CancelledByStop
<1>6. Carries(t)'
  BY <1>3 DEF Carries, Before
<1>7. TaskCarriesRequest' /\ RequestOnItsWay'
  BY <1>1, <1>6 DEF TaskCarriesRequest, RequestOnItsWay
<1> QED
  BY <1>4, <1>5, <1>7 DEF Requests

\* A callback that finds a step task alive, or the controller closed, does no more than
\* count.
LEMMA RefusedRequests ==
  ASSUME Types, Steps, Requests, NEW h \in {"request", "create"}, Run(h, <<>>),
         UNCHANGED <<task, stepTask, waiters, life, state, waking, control>>,
         life = "open" => /\ Alive(stepTask)
                          /\ \/ count' = count /\ owed' = owed
                             \/ count' = count + 1
  PROVE  Requests'
<1> USE SchedulerConstants
<1>1. <<>> \in Seq(Handles) /\ Single("stop", <<>>) /\ ~Occurs("stop", <<>>)
  BY Pieces
<1>2. StopQueuedOnce' /\ (Queued("stop")' => Queued("stop"))
  <2>1. Occurs("stop", waiters)' => Occurs("stop", waiters)
    BY DEF Occurs
  <2> QED
    BY <1>1, <2>1, RunKeepsStop, RunQueue DEF Types, Requests
<1>3. CancelledByStop'
  BY <1>2 DEF Requests, CancelledByStop
<1>4. ASSUME life = "open", owed' = "open"
      PROVE  TaskCarriesRequest' /\ RequestOnItsWay'
  <2>1. stepTask \in Tasks /\ Before(stepTask)
    BY <1>4 DEF Types, TypeOK, TaskPc, Alive, Before, Steps, StepTaskSteps
  <2>2. ~task[stepTask].cancelled => Carries(stepTask)'
    BY <1>4, <2>1 DEF Types, TypeOK, Requests, TaskCarriesRequest, Carries, Before
  <2>3. task[stepTask].cancelled => "stop" \in Controls /\ control["stop"].pc = "await"
    BY <1>4, <2>1 DEF Requests, CancelledByStop
  <2>4. TaskCarriesRequest'
    BY <2>2 DEF TaskCarriesRequest, Carries
  <2>5. RequestOnItsWay'
    BY <2>1, <2>2, <2>3 DEF RequestOnItsWay
  <2> QED
    BY <2>4, <2>5
<1> QED
  BY <1>2, <1>3, <1>4 DEF Requests, TaskCarriesRequest, RequestOnItsWay

\* What happens outside the loop's callbacks takes nothing off the queue.
LEMMA OutsideRequests ==
  ASSUME Types, Steps, Requests, UNCHANGED ready \/ \E h \in Handles \ {"stop"} : Wake(h),
         UNCHANGED <<stepTask, count, life, owed, waiters>>,
         "stop" \in Controls => control'["stop"] = control["stop"],
         \A t \in Tasks : \/ task'[t] = task[t]
                          \/ task[t].pc = "handling" /\ task'[t] = NoStep,
         life = "open" => \/ UNCHANGED <<state, waking>>
                          \/ Queued("request")' \/ waking' \/ state' # "RUNNING"
  PROVE  Requests'
<1>1. StopQueuedOnce' /\ (Queued("stop")' => Queued("stop"))
  BY WakeKeepsStop DEF Requests
<1>2. \A x : Queued(x) => Queued(x)'
  <2>1. CASE UNCHANGED ready
    BY <2>1 DEF Queued
  <2>2. CASE \E h \in Handles \ {"stop"} : Wake(h)
    BY <2>2, WakeQueue DEF Types
  <2> QED
    BY <2>1, <2>2
<1>3. \A t \in Tasks : task'[t].cancelled => task[t].cancelled
  BY DEF NoStep
<1>4. CancelledByStop'
  BY <1>1, <1>3 DEF Requests, CancelledByStop
<1>5. \A t \in Tasks : Before(t)' => task'[t] = task[t]
  BY DEF NoStep, Before
<1>6. \A t \in Tasks : Carries(t) => task'[t] = task[t]
  BY DEF Carries, Before
<1>7. \A t \in Tasks : task'[t] = task[t] => (Carries(t)' <=> Carries(t)) /\ (Before(t)' <=> Before(t))
  BY DEF Carries, Before
<1>8. TaskCarriesRequest'
  BY <1>5, <1>7 DEF Requests, TaskCarriesRequest
<1>9. RequestOnItsWay'
  BY <1>2, <1>6, <1>7 DEF Requests, RequestOnItsWay
<1> QED
  BY <1>1, <1>4, <1>8, <1>9 DEF Requests

LEMMA ControlCallRequests ==
  ASSUME Types, Steps, Requests, NEW c \in Controls, ControlCall(c)
  PROVE  Requests'
<1> USE SchedulerConstants
<1>1. Wake(c) /\ c \in Handles
  BY DEF ControlCall, Handles
<1>2. CASE c = "close"
  <2>1. "stop" \in Controls => control'["stop"] = control["stop"]
    BY <1>2 DEF Types, TypeOK, ControlCall, ControlGoto
  <2> QED
    BY <1>1, <1>2, <2>1, OutsideRequests DEF ControlCall, agent
<1>3. CASE c = "stop"
  <2>1. control["stop"].pc = "idle" /\ control'["stop"].pc = "start"
    BY <1>3 DEF Types, TypeOK, ControlCall, ControlGoto
  <2>2. ~Queued("stop") /\ ~Occurs("stop", waiters) /\ Single("stop", ready)
    BY <1>3, <2>1 DEF Requests, StopQueuedOnce
  <2>3. Single("stop", ready') /\ \A x : Queued(x) => Queued(x)'
    BY <1>1, <1>3, <2>2, WakeQueue DEF Types, Single
  <2>4. StopQueuedOnce'
    BY <2>1, <2>2, <2>3 DEF ControlCall, StopQueuedOnce, Single, Occurs
  <2>5. \A t \in Tasks : life = "open" => ~task[t].cancelled
    BY <2>1, TaskType DEF Types, Requests, CancelledByStop
  <2>6. CancelledByStop'
    BY <2>5 DEF ControlCall, CancelledByStop
  <2>7. TaskCarriesRequest' /\ RequestOnItsWay'
    BY <2>1, <2>3 DEF ControlCall, agent, Requests, TaskCarriesRequest, RequestOnItsWay, Carries,
                      Before
  <2> QED
    BY <2>4, <2>6, <2>7 DEF Requests
<1> QED
  BY <1>2, <1>3

LEMMA RequestsStep == Types /\ Steps /\ Requests /\ [Next]_vars => Requests'
<1> SUFFICES ASSUME Types, Steps, Requests, [Next]_vars PROVE Requests'
  OBVIOUS
<1> USE SchedulerConstants
<1>1. CASE RequestStep
  <2>1. CASE Alive(stepTask)
    BY <1>1, <2>1, RefusedRequests DEF RequestStep, agent
  <2>2. CASE ~Alive(stepTask)
    BY <1>1, <2>2, CreateTaskRequests DEF RequestStep
  <2> QED
    BY <2>1, <2>2
<1>2. CASE RequestStepClosed
  BY <1>2, RefusedRequests DEF RequestStepClosed, agent
<1>3. CASE CreateStepTask
  <2>1. CASE Alive(stepTask) /\ life = "open"
    BY <1>3, <2>1, RefusedRequests DEF CreateStepTask, agent
  <2>2. CASE ~(Alive(stepTask) /\ life = "open")
    BY <1>3, <2>2, CreateTaskRequests DEF CreateStepTask
  <2> QED
    BY <2>1, <2>2
<1>4. ASSUME NEW t \in Tasks, TaskStep(t)
      PROVE  Requests'
  BY <1>4, TaskStepRequests
<1>5. ASSUME NEW c \in Controls, ControlStep(c)
      PROVE  Requests'
  BY <1>5, ControlStepRequests
<1>6. "request" \in Handles \ {"stop"} /\ \A t \in Tasks : t \in Handles \ {"stop"}
  BY DEF Handles
<1>7. Wake("request") => Queued("request")'
  BY <1>6, WakeQueue DEF Types
<1>8. ASSUME NEW t \in Tasks, HandlerDone(t)
      PROVE  Requests'
  <2>1. \A u \in Tasks : u # t => task'[u] = task[u]
    BY <1>8 DEF Types, TypeOK, HandlerDone
  <2>2. task[t].pc = "handling" /\ task'[t] = NoStep
    BY <1>8 DEF Types, TypeOK, HandlerDone
  <2>3. /\ UNCHANGED ready \/ Wake("request")
        /\ UNCHANGED <<stepTask, count, life, owed, waiters, control, waking>>
        /\ state' = state \/ state' # "RUNNING"
    BY <1>8 DEF HandlerDone
  <2> QED
    BY <1>6, <2>1, <2>2, <2>3, OutsideRequests
<1>9. CASE CloseEnds
  <2>1. life' = "closed" /\ UNCHANGED <<ready, waiters>>
    BY <1>9 DEF CloseEnds
  <2>2. "stop" \in Controls => control'["stop"] = control["stop"]
    BY <1>9 DEF Types, TypeOK, CloseEnds, ControlGoto
  <2>3. StopQueuedOnce'
    BY <2>1, <2>2, WakeKeepsStop DEF Requests
  <2> QED
    BY <2>1, <2>3 DEF Requests, CancelledByStop, TaskCarriesRequest, RequestOnItsWay
<1>10. CASE WakerSteps
  BY <1>6, <1>7, <1>10, OutsideRequests DEF WakerSteps
<1>11. CASE StepCall \/ WatchdogFires
  BY <1>6, <1>7, <1>11, OutsideRequests DEF StepCall, WatchdogFires, agent
<1>12. CASE UserMessage \/ ObservationArrives
  BY <1>12, OutsideRequests DEF UserMessage, ObservationArrives
<1>13. CASE PendingTimesOut \/ WatchdogGivesUp
  BY <1>13, OutsideRequests DEF PendingTimesOut, WatchdogGivesUp
<1>14. ASSUME NEW t \in Tasks, WorkDone(t) \/ ArmPending(t)
       PROVE  Requests'
  BY <1>6, <1>14, OutsideRequests DEF WorkDone, ArmPending, agent
<1>15. ASSUME NEW c \in Controls, ControlCall(c)
       PROVE  Requests'
  BY <1>15, ControlCallRequests
<1>16. CASE UNCHANGED vars
  BY <1>16, OutsideRequests DEF vars
<1> QED
  BY <1>1, <1>2, <1>3, <1>4, <1>5, <1>8, <1>9, <1>10, <1>11, <1>12, <1>13, <1>14, <1>15, <1>16
     DEF Next, LoopStep, Completion, Environment

LEMMA InitRequests == Init => Requests
<1> SUFFICES ASSUME Init PROVE Requests
  OBVIOUS
<1>1. \A x : ~Occurs(x, <<>>) /\ Single(x, <<>>)
  BY Pieces
<1>2. StopQueuedOnce
  BY <1>1 DEF Init, StopQueuedOnce, Queued, Occurs
<1> QED
  BY <1>2 DEF Init, Requests, CancelledByStop, TaskCarriesRequest, RequestOnItsWay, NoStep

LEMMA SchedulerInvariant == Spec => []IInv
<1>1. Init => IInv
  BY InitTypes, InitSteps, InitRequests DEF IInv
<1>2. IInv /\ [Next]_vars => IInv'
  BY TypesStep, StepsStep, RequestsStep DEF IInv
<1> QED
  BY <1>1, <1>2, PTL DEF Spec

\* No lost wakeup: when nothing runs or is due to run and the agent may step, the last request
\* for a step was answered, or dropped by the last iteration of the drain loop
\* (_request_step, _create_step_task, _drain_steps, the `finally' of _step, stop, close).
THEOREM NoRequestIsLost == Spec => []RequestLostOnlyAtDrainLimit
<1>1. IInv => RequestLostOnlyAtDrainLimit
  <2> SUFFICES ASSUME IInv, Quiet, life = "open", CanStep, owed = "open" PROVE FALSE
    BY DEF RequestLostOnlyAtDrainLimit
  <2>1. ~Queued("request") /\ ~Queued("create")
    BY Pieces DEF Quiet, Queued, Occurs
  <2>2. ~waking /\ state = "RUNNING"
    BY DEF Quiet, CanStep
  <2>3. \A t \in Tasks : ~Carries(t)
    BY DEF Quiet, Carries, Before
  <2>4. ~("stop" \in Controls /\ control["stop"].pc \in {"await", "kill"})
    BY DEF Quiet
  <2> QED
    BY <2>1, <2>2, <2>3, <2>4 DEF IInv, Requests, RequestOnItsWay
<1> QED
  BY <1>1, SchedulerInvariant, PTL
=============================================================================
