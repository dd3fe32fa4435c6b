------------------------- MODULE EventDeliveryProofs -------------------------
(***************************************************************************)
(* Proofs about EventDelivery, for any number of producers, workers, pool  *)
(* threads, subscribers and places, and any drop policy.                   *)
(*                                                                         *)
(* First that no event is lost in silence, from an invariant of the open   *)
(* stream: once close() has begun, events are dropped without a count.     *)
(* Then, from an invariant of every phase, that no subscriber is called    *)
(* twice with an event and that callbacks are called in the queue's order: *)
(* what is before an event in the queue, among the jobs or among what a    *)
(* subscriber was called with entered the queue before it.                 *)
(***************************************************************************)
EXTENDS EventDelivery, FiniteSetTheorems, SequenceTheorems, TLAPS

-----------------------------------------------------------------------------
(* The invariant of the open stream *)

\* A caller that is in add_event has its event; one that delivers inline has a subscriber left.
CallTyped(f) ==
    /\ f \in [Callers -> [pc : {"idle", "sent", "inline"},
                          ev : 0 .. MaxEvents, left : Seq(Subs)]]
    /\ \A c \in Callers : /\ f[c].pc # "idle" => f[c].ev \in Events
                          /\ f[c].pc = "inline" => f[c].left # <<>>

\* The types of what an event passes through.
Shape ==
    /\ nextId \in Nat
    /\ kind \in [Events -> {"none", "user", "plain", "critical"}]
    /\ CallTyped(call)
    /\ enq \in [Events -> EnqPc]
    /\ queue \in Seq(Events)
    /\ worker \in [Dispatchers -> Events \cup {Idle, Gone}]
    /\ jobs \in Seq(Job)
    /\ got \in [Subs -> Seq(Events)]

\* A worker's event has, for every subscriber, been delivered or a job that will.
Dispatching ==
    \A w \in Dispatchers : worker[w] \in Events => \A s \in Subs :
        \/ Reached(s, worker[w])
        \/ \E k \in DOMAIN jobs : jobs[k] = [ev |-> worker[w], sub |-> s, by |-> w]

\* An event delivered inline has been delivered to every subscriber that is not left.
Inlining ==
    \A c \in Callers : call[c].pc = "inline" => \A s \in Subs :
        \/ Reached(s, call[c].ev)
        \/ \E k \in DOMAIN call[c].left : call[c].left[k] = s

\* Where NoSilentLoss looks for an event: on its way into the queue, or dropped and counted,
\* by the state of its coroutine, ...
Safe == {"new", "put", "woken"} \cup Dropped

\* ... and everywhere else.
Accounted(e) ==
    CallHas(e) \/ enq[e] \in Safe \/ Held(e) \/ \A s \in Subs : Reached(s, e)

IInv == phase = "open" =>
            /\ Shape /\ Dispatching /\ Inlining
            /\ \A e \in Events : kind[e] # "none" => Accounted(e)

-----------------------------------------------------------------------------
(* Sequences *)

LEMMA SubscribersSeq == Subscribers \in Seq(Subs)
BY DeliveryConstants DEF Subs

\* What is appended is in the sequence, and so is what was there.
LEMMA Appended ==
  ASSUME NEW S, NEW q \in Seq(S), NEW x \in S
  PROVE  /\ Append(q, x) \in Seq(S)
         /\ \E k \in DOMAIN Append(q, x) : Append(q, x)[k] = x
         /\ \A k \in DOMAIN q : k \in DOMAIN Append(q, x) /\ Append(q, x)[k] = q[k]
<1>1. /\ Append(q, x) \in Seq(S) /\ Len(q) \in Nat /\ Len(Append(q, x)) = Len(q) + 1
      /\ \A k \in 1 .. Len(q) : Append(q, x)[k] = q[k]
      /\ Append(q, x)[Len(q) + 1] = x
  BY AppendProperties, LenProperties
<1>2. DOMAIN q = 1 .. Len(q) /\ DOMAIN Append(q, x) = 1 .. Len(q) + 1
  BY <1>1, LenProperties
<1> QED
  BY <1>1, <1>2

\* Of a queue, what is not its head stays when the head is taken.
LEMMA Taken ==
  ASSUME NEW S, NEW q \in Seq(S), q # <<>>
  PROVE  /\ Head(q) \in S /\ Tail(q) \in Seq(S)
         /\ Len(q) = 1 => Tail(q) = <<>>
         /\ Len(q) # 1 => Tail(q) # <<>>
         /\ \A k \in DOMAIN q : q[k] = Head(q) \/ \E j \in DOMAIN Tail(q) : Tail(q)[j] = q[k]
<1>1. /\ Len(q) \in Nat \ {0} /\ DOMAIN q = 1 .. Len(q) /\ Head(q) = q[1]
      /\ Head(q) \in S /\ Tail(q) \in Seq(S) /\ Len(Tail(q)) = Len(q) - 1
      /\ \A i \in 1 .. Len(Tail(q)) : Tail(q)[i] = q[i + 1]
  BY HeadTailProperties, EmptySeq, LenProperties
<1>2. DOMAIN Tail(q) = 1 .. Len(q) - 1
  BY <1>1, LenProperties
<1>3. ASSUME NEW k \in DOMAIN q, k # 1
      PROVE  \E j \in DOMAIN Tail(q) : Tail(q)[j] = q[k]
  <2>1. k - 1 \in DOMAIN Tail(q) /\ k - 1 \in 1 .. Len(Tail(q)) /\ (k - 1) + 1 = k
    BY <1>1, <1>2, <1>3
  <2>2. Tail(q)[k - 1] = q[(k - 1) + 1]
    BY <1>1, <2>1
  <2> QED
    BY <2>1, <2>2
<1>4. Len(q) = 1 <=> Tail(q) = <<>>
  <2>1. (Tail(q) # <<>> => Len(Tail(q)) \in Nat \ {0}) /\ Len(<<>>) = 0
    BY <1>1, EmptySeq
  <2>2. Tail(q) # <<>> => Len(q) # 1
    BY <1>1, <2>1
  <2>3. Tail(q) = <<>> => Len(q) - 1 = 0
    BY <1>1, <2>1
  <2>4. Len(q) \in Int
    BY <1>1
  <2> QED
    BY <2>2, <2>3, <2>4
<1> QED
  BY <1>1, <1>3, <1>4

-----------------------------------------------------------------------------
(* What the steps share *)

\* A callback's call delivers its event, and what was delivered stays so.
LEMMA CalledEffect ==
  ASSUME Shape, NEW s \in Subs, NEW e \in Events, Called(s, e)
  PROVE  /\ got' \in [Subs -> Seq(Events)]
         /\ Reached(s, e)'
         /\ \A t \in Subs, x \in Events : Reached(t, x) => Reached(t, x)'
<1>1. /\ got \in [Subs -> Seq(Events)] /\ got' = [got EXCEPT ![s] = Append(got[s], e)]
  BY DEF Shape, CallTyped, Called
<1>2. /\ Append(got[s], e) \in Seq(Events)
      /\ \E k \in DOMAIN Append(got[s], e) : Append(got[s], e)[k] = e
      /\ \A k \in DOMAIN got[s] :
           k \in DOMAIN Append(got[s], e) /\ Append(got[s], e)[k] = got[s][k]
  BY <1>1, Appended
<1>3. got'[s] = Append(got[s], e) /\ \A t \in Subs : t # s => got'[t] = got[t]
  BY <1>1
<1> QED
  BY <1>1, <1>2, <1>3 DEF Reached

\* The caller whose event has entered the queue, or was dropped, returns.
LEMMA CallTypedReturned ==
  ASSUME CallTyped(call), NEW e \in Events, call' = Returned(e)
  PROVE  /\ CallTyped(call')
         /\ \A c \in Callers : call'[c] = call[c] \/ (call[c].ev = e /\ call'[c].pc = "idle")
<1>1. NoCall \in [pc : {"idle", "sent", "inline"}, ev : 0 .. MaxEvents, left : Seq(Subs)]
      /\ NoCall.pc = "idle"
  BY DeliveryConstants, EmptySeq DEF NoCall
<1> HIDE DEF NoCall
<1>2. \A c \in Callers : call'[c] = call[c] \/ (call[c].ev = e /\ call'[c] = NoCall)
  BY DEF Returned
<1>3. call' \in [Callers -> [pc : {"idle", "sent", "inline"},
                             ev : 0 .. MaxEvents, left : Seq(Subs)]]
  BY <1>1 DEF CallTyped, Returned
<1> QED
  BY <1>1, <1>2, <1>3 DEF CallTyped

\* Steps of the queue loop: an event leaves the puts only for the queue, or counted; and the
\* queue only for a worker, or counted.
LEMMA LoopStep ==
  ASSUME IInv, phase = "open", NEW e \in Events, call' = Returned(e) \/ call' = call,
         phase' = phase,
         UNCHANGED <<nextId, kind, worker, jobs, got>>,
         enq' \in [Events -> EnqPc], queue' \in Seq(Events),
         enq'[e] \in Safe \/ Held(e)',
         \A x \in Events \ {e} : enq[x] \in Safe => enq'[x] \in Safe,
         \A k \in DOMAIN queue : \/ \E j \in DOMAIN queue' : queue'[j] = queue[k]
                                 \/ enq'[queue[k]] \in Safe
  PROVE  IInv'
<1>1. /\ Shape /\ Dispatching /\ Inlining
      /\ \A x \in Events : kind[x] # "none" => Accounted(x)
  BY DEF IInv
<1>2. /\ CallTyped(call')
      /\ \A c \in Callers : call'[c] = call[c] \/ (call[c].ev = e /\ call'[c].pc = "idle")
  BY <1>1, CallTypedReturned DEF Shape
<1>3. Shape'
  BY <1>1, <1>2 DEF Shape
<1>4. Dispatching' /\ Inlining'
  <2>1. Dispatching'
    BY <1>1 DEF Dispatching, Reached
  <2>2. ASSUME NEW c \in Callers, call'[c].pc = "inline"
        PROVE  call'[c] = call[c]
    BY <1>2, <2>2
  <2>3. Inlining'
    BY <1>1, <2>2 DEF Inlining, Reached
  <2> QED
    BY <2>1, <2>3
<1>5. ASSUME NEW x \in Events, kind'[x] # "none"
      PROVE  Accounted(x)'
  <2>1. CASE x = e
    BY <2>1 DEF Accounted
  <2>2. CASE x # e
    <3>1. Accounted(x)
      BY <1>1, <1>5
    <3>2. CallHas(x) => CallHas(x)'
      BY <1>2, <2>2 DEF CallHas
    <3>3. Held(x) => Held(x)' \/ enq'[x] \in Safe
      BY DEF Held
    <3>4. \A s \in Subs : Reached(s, x) => Reached(s, x)'
      BY DEF Reached
    <3> QED
      BY <2>2, <3>1, <3>2, <3>3, <3>4 DEF Accounted
  <2> QED
    BY <2>1, <2>2
<1> QED
  BY <1>3, <1>4, <1>5 DEF IInv

-----------------------------------------------------------------------------
(* The callers of add_event *)

\* A caller that delivers inline has all the subscribers before it.
LEMMA SubscribersAll == \A s \in Subs : \E k \in DOMAIN Subscribers : Subscribers[k] = s
BY DEF Subs, Range

LEMMA InlineCall ==
  ASSUME NEW e \in Events
  PROVE  /\ Inline(e) \in [pc : {"idle", "sent", "inline"}, ev : 0 .. MaxEvents, left : Seq(Subs)]
         /\ Inline(e).pc # "sent"
         /\ Inline(e).pc = "inline" =>
              /\ Inline(e).ev = e
              /\ Inline(e).left = Subscribers /\ Subscribers # <<>>
         /\ Inline(e).pc = "idle" => Subs = {}
<1>1. CASE Subscribers = <<>>
  <2>1. Subs = {}
    <3>1. DOMAIN Subscribers = {}
      BY <1>1, EmptySeq, LenProperties
    <3> QED
      BY <3>1 DEF Subs, Range
  <2> QED
    BY <1>1, <2>1, DeliveryConstants, EmptySeq DEF Inline, NoCall
<1>2. CASE Subscribers # <<>>
  <2>1. Inline(e) = [pc |-> "inline", ev |-> e, left |-> Subscribers]
    BY <1>2 DEF Inline
  <2> QED
    BY <1>2, <2>1, SubscribersSeq, DeliveryConstants DEF Events
<1> QED
  BY <1>1, <1>2

\* A caller's next state, in AddEvent and CallerGivesUp.
LEMMA CallTypedSet ==
  ASSUME CallTyped(call), NEW c \in Callers,
         NEW new \in [pc : {"idle", "sent", "inline"}, ev : 0 .. MaxEvents, left : Seq(Subs)],
         new.pc # "idle" => new.ev \in Events, new.pc = "inline" => new.left # <<>>,
         call' = [call EXCEPT ![c] = new]
  PROVE  CallTyped(call') /\ \A d \in Callers : call'[d] = IF d = c THEN new ELSE call[d]
<1>1. call' \in [Callers -> [pc : {"idle", "sent", "inline"},
                             ev : 0 .. MaxEvents, left : Seq(Subs)]]
  BY DEF CallTyped
<1>2. \A d \in Callers : call'[d] = IF d = c THEN new ELSE call[d]
  BY DEF CallTyped
<1> QED
  BY <1>1, <1>2 DEF CallTyped

\* A caller that delivers inline calls one subscriber and keeps the rest.
LEMMA InlineNextEffect ==
  ASSUME CallTyped(call), NEW c \in Callers, InlineNext(c)
  PROVE  /\ call[c].pc = "inline" /\ call[c].ev \in Events
         /\ call[c].left \in Seq(Subs) /\ call[c].left # <<>>
         /\ Called(Head(call[c].left), call[c].ev)
         /\ CallTyped(call')
         /\ \A d \in Callers : d # c => call'[d] = call[d]
         /\ call'[c].pc # "idle" => /\ call'[c].pc = "inline"
                                    /\ call'[c].ev = call[c].ev
                                    /\ call'[c].left = Tail(call[c].left)
         /\ call'[c].pc = "idle" => Tail(call[c].left) = <<>>
<1>1. /\ call[c].pc = "inline" /\ call[c].ev \in Events
      /\ call[c].left \in Seq(Subs) /\ call[c].left # <<>>
      /\ Called(Head(call[c].left), call[c].ev)
  BY DEF InlineNext, CallTyped
<1>2. PICK e0 \in Events, left \in Seq(Subs) : e0 = call[c].ev /\ left = call[c].left
  BY <1>1
<1>3. call' = [call EXCEPT ![c] = IF Len(left) = 1 THEN NoCall ELSE [@ EXCEPT !.left = Tail(left)]]
  BY <1>2 DEF InlineNext
<1>4. Tail(left) \in Seq(Subs) /\ (Len(left) = 1 <=> Tail(left) = <<>>)
  BY <1>1, <1>2, Taken
<1>5. NoCall \in [pc : {"idle", "sent", "inline"}, ev : 0 .. MaxEvents, left : Seq(Subs)]
      /\ NoCall.pc = "idle"
  BY DeliveryConstants, EmptySeq DEF NoCall
<1> DEFINE v == [call[c] EXCEPT !.left = Tail(left)]
<1>6. /\ v \in [pc : {"idle", "sent", "inline"}, ev : 0 .. MaxEvents, left : Seq(Subs)]
      /\ v.pc = "inline" /\ v.ev = e0 /\ v.left = Tail(left)
  BY <1>1, <1>2, <1>4 DEF CallTyped
<1>7. PICK new : new = IF Len(left) = 1 THEN NoCall ELSE v
  OBVIOUS
<1>8. call' = [call EXCEPT ![c] = new]
  BY <1>3, <1>7
<1> HIDE DEF v
<1>9. /\ new \in [pc : {"idle", "sent", "inline"}, ev : 0 .. MaxEvents, left : Seq(Subs)]
      /\ new.pc # "idle" => new.pc = "inline" /\ new.ev = e0 /\ new.left = Tail(left)
      /\ new.pc = "inline" => new.left # <<>>
      /\ new.pc = "idle" => Tail(left) = <<>>
  BY <1>4, <1>5, <1>6, <1>7
<1>10. CallTyped(call') /\ \A d \in Callers : call'[d] = IF d = c THEN new ELSE call[d]
  BY <1>2, <1>8, <1>9, CallTypedSet
<1> QED
  BY <1>1, <1>2, <1>9, <1>10

\* A caller's event, when it is added and when the caller gives up.
LEMMA AddEventEffect ==
  ASSUME CallTyped(call), NEW c \in Callers, NEW k \in {"user", "plain", "critical"}, AddEvent(c, k)
  PROVE  /\ CallTyped(call') /\ nextId \in Events /\ call[c].pc = "idle"
         /\ \A d \in Callers : d # c => call'[d] = call[d]
         /\ call'[c].pc # "idle" => call'[c].ev = nextId
         /\ call'[c].pc = "inline" => call'[c].left = Subscribers /\ enq' = enq
         /\ call'[c].pc = "idle" => Subs = {}
<1>1. nextId \in Events /\ call[c].pc = "idle"
  BY DEF AddEvent, MayCall
<1>2. PICK new \in [pc : {"idle", "sent", "inline"}, ev : 0 .. MaxEvents, left : Seq(Subs)] :
        /\ call' = [call EXCEPT ![c] = new]
        /\ new.pc # "idle" => new.ev = nextId
        /\ new.pc = "inline" => new.left # <<>> /\ new.left = Subscribers /\ enq' = enq
        /\ new.pc = "idle" => Subs = {}
  <2>1. CASE k = "user"
    BY <1>1, <2>1, InlineCall DEF AddEvent
  <2>2. CASE k # "user"
    <3> DEFINE new == [pc |-> "sent", ev |-> nextId, left |-> <<>>]
    <3>1. new \in [pc : {"idle", "sent", "inline"}, ev : 0 .. MaxEvents, left : Seq(Subs)]
      BY <1>1, DeliveryConstants, EmptySeq DEF Events
    <3> QED
      BY <2>2, <3>1 DEF AddEvent
  <2> QED
    BY <2>1, <2>2
<1>3. (new.pc # "idle" => new.ev \in Events) /\ (new.pc = "inline" => new.left # <<>>)
  BY <1>1, <1>2
<1>4. CallTyped(call') /\ \A d \in Callers : call'[d] = IF d = c THEN new ELSE call[d]
  BY <1>2, <1>3, CallTypedSet
<1> QED
  BY <1>1, <1>2, <1>4

LEMMA GivesUpEffect ==
  ASSUME CallTyped(call), NEW c \in Callers, CallerGivesUp(c)
  PROVE  /\ CallTyped(call') /\ call[c].ev \in Events /\ call[c].pc = "sent"
         /\ \A d \in Callers : d # c => call'[d] = call[d]
         /\ call'[c].pc # "idle" => call'[c].pc = "inline" /\ call'[c].ev = call[c].ev
         /\ call'[c].pc = "inline" => call'[c].left = Subscribers
         /\ phase = "open" /\ call'[c].pc = "idle" => Subs = {}
<1>1. call[c].ev \in Events /\ call[c].pc = "sent"
  BY DEF CallerGivesUp, CallTyped
<1>2. NoCall \in [pc : {"idle", "sent", "inline"}, ev : 0 .. MaxEvents, left : Seq(Subs)]
      /\ NoCall.pc = "idle"
  BY DeliveryConstants, EmptySeq DEF NoCall
<1>3. PICK new \in [pc : {"idle", "sent", "inline"}, ev : 0 .. MaxEvents, left : Seq(Subs)] :
        /\ call' = [call EXCEPT ![c] = new]
        /\ new.pc # "idle" => new.pc = "inline" /\ new.ev = call[c].ev
        /\ new.pc = "inline" => new.left # <<>> /\ new.left = Subscribers
        /\ phase = "open" /\ new.pc = "idle" => Subs = {}
  BY <1>1, <1>2, InlineCall DEF CallerGivesUp
<1>4. CallTyped(call') /\ \A d \in Callers : call'[d] = IF d = c THEN new ELSE call[d]
  BY <1>1, <1>3, CallTypedSet
<1> QED
  BY <1>1, <1>3, <1>4

LEMMA AddEventStep ==
  ASSUME IInv, NEW c \in Callers, NEW k \in {"user", "plain", "critical"}, AddEvent(c, k)
  PROVE  IInv'
<1>1. /\ Shape /\ Dispatching /\ Inlining
      /\ \A e \in Events : kind[e] # "none" => Accounted(e)
      /\ nextId \in Events /\ call[c].pc = "idle"
      /\ kind' = [kind EXCEPT ![nextId] = k] /\ nextId' = nextId + 1
      /\ UNCHANGED <<queue, worker, jobs, got>>
  BY DEF AddEvent, MayCall, IInv, pools
<1>2. enq' = enq \/ enq' = [enq EXCEPT ![nextId] = "new"]
  BY DEF AddEvent
<1>3. /\ CallTyped(call')
      /\ \A d \in Callers : d # c => call'[d] = call[d]
      /\ call'[c].pc # "idle" => call'[c].ev = nextId
      /\ call'[c].pc = "inline" => call'[c].left = Subscribers
      /\ call'[c].pc = "idle" => Subs = {}
  BY <1>1, AddEventEffect DEF Shape
<1>4. Shape'
  <2>1. /\ nextId' \in Nat /\ kind' \in [Events -> {"none", "user", "plain", "critical"}]
        /\ enq' \in [Events -> EnqPc]
    <3>1. /\ nextId \in Nat /\ kind \in [Events -> {"none", "user", "plain", "critical"}]
          /\ enq \in [Events -> EnqPc]
      BY <1>1 DEF Shape
    <3> QED
      BY <1>1, <1>2, <3>1 DEF EnqPc
  <2> QED
    BY <1>1, <1>3, <2>1 DEF Shape
<1>5. Dispatching'
  BY <1>1 DEF Dispatching, Reached
<1>6. Inlining'
  BY <1>1, <1>3, SubscribersAll DEF Inlining, Reached
<1>7. ASSUME NEW e \in Events, kind'[e] # "none"
      PROVE  Accounted(e)'
  <2>1. CASE e = nextId
    BY <1>3, <2>1 DEF Accounted, CallHas
  <2>2. CASE e # nextId
    <3>1. Accounted(e)
      BY <1>1, <1>7, <2>2 DEF Shape, CallTyped
    <3>2. CallHas(e) => CallHas(e)'
      BY <1>1, <1>3 DEF CallHas
    <3>3. enq'[e] = enq[e]
      BY <1>1, <1>2, <2>2 DEF Shape, CallTyped
    <3>4. (Held(e) => Held(e)') /\ \A s \in Subs : Reached(s, e) => Reached(s, e)'
      BY <1>1 DEF Held, Reached
    <3> QED
      BY <3>1, <3>2, <3>3, <3>4 DEF Accounted
  <2> QED
    BY <2>1, <2>2
<1> QED
  BY <1>4, <1>5, <1>6, <1>7 DEF IInv

LEMMA GivesUpStep ==
  ASSUME IInv, phase = "open", NEW c \in Callers, CallerGivesUp(c)
  PROVE  IInv'
<1>1. /\ Shape /\ Dispatching /\ Inlining
      /\ \A e \in Events : kind[e] # "none" => Accounted(e)
      /\ UNCHANGED <<nextId, kind, enq, queue, worker, jobs, got>>
  BY DEF CallerGivesUp, IInv, pools, loop
<1>2. /\ CallTyped(call')
      /\ \A d \in Callers : d # c => call'[d] = call[d]
      /\ call'[c].pc # "idle" => call'[c].pc = "inline" /\ call'[c].ev = call[c].ev
      /\ call'[c].pc = "inline" => call'[c].left = Subscribers
      /\ call'[c].pc = "idle" => Subs = {}
  BY <1>1, GivesUpEffect DEF Shape
<1>3. Shape'
  BY <1>1, <1>2 DEF Shape
<1>4. Dispatching'
  BY <1>1 DEF Dispatching, Reached
<1>5. Inlining'
  BY <1>1, <1>2, SubscribersAll DEF Inlining, Reached
<1>6. ASSUME NEW e \in Events, kind'[e] # "none"
      PROVE  Accounted(e)'
  <2>1. Accounted(e)
    BY <1>1, <1>6
  <2>2. CallHas(e) => CallHas(e)' \/ Subs = {}
    BY <1>2 DEF CallHas
  <2>3. (Held(e) => Held(e)') /\ \A s \in Subs : Reached(s, e) => Reached(s, e)'
    BY <1>1 DEF Held, Reached
  <2> QED
    BY <1>1, <2>1, <2>2, <2>3 DEF Accounted
<1> QED
  BY <1>3, <1>4, <1>5, <1>6 DEF IInv

LEMMA InlineStep ==
  ASSUME IInv, phase = "open", NEW c \in Callers, InlineNext(c)
  PROVE  IInv'
<1>1. /\ Shape /\ Dispatching /\ Inlining
      /\ \A e \in Events : kind[e] # "none" => Accounted(e)
      /\ UNCHANGED <<nextId, kind, enq, queue, worker, jobs>>
  BY DEF InlineNext, IInv, loop
<1>2. PICK e0 \in Events, left \in Seq(Subs) :
        /\ call[c].pc = "inline" /\ e0 = call[c].ev /\ left = call[c].left /\ left # <<>>
        /\ Called(Head(left), e0) /\ CallTyped(call')
        /\ \A d \in Callers : d # c => call'[d] = call[d]
        /\ call'[c].pc # "idle" => /\ call'[c].pc = "inline"
                                   /\ call'[c].ev = e0 /\ call'[c].left = Tail(left)
        /\ call'[c].pc = "idle" => Tail(left) = <<>>
  BY <1>1, InlineNextEffect DEF Shape
<1>3. /\ Head(left) \in Subs /\ Tail(left) \in Seq(Subs)
      /\ \A k \in DOMAIN left :
           left[k] = Head(left) \/ \E j \in DOMAIN Tail(left) : Tail(left)[j] = left[k]
  BY <1>2, Taken
<1>4. /\ got' \in [Subs -> Seq(Events)]
      /\ Reached(Head(left), e0)'
      /\ \A t \in Subs, x \in Events : Reached(t, x) => Reached(t, x)'
  BY <1>1, <1>2, <1>3, CalledEffect
<1>5. Shape'
  BY <1>1, <1>4, <1>2 DEF Shape, CallTyped
<1>6. Dispatching'
  BY <1>1, <1>4 DEF Dispatching, Shape, CallTyped
<1>7. \A s \in Subs : Reached(s, e0)' \/ \E k \in DOMAIN Tail(left) : Tail(left)[k] = s
  <2> SUFFICES ASSUME NEW s \in Subs
               PROVE  Reached(s, e0)' \/ \E k \in DOMAIN Tail(left) : Tail(left)[k] = s
    OBVIOUS
  <2>1. Reached(s, e0) \/ \E k \in DOMAIN left : left[k] = s
    BY <1>1, <1>2 DEF Inlining
  <2>2. CASE Reached(s, e0)
    BY <1>4, <2>2
  <2>3. CASE \E k \in DOMAIN left : left[k] = s
    BY <1>3, <1>4, <2>3
  <2> QED
    BY <2>1, <2>2, <2>3
<1>8. Inlining'
  <2> SUFFICES ASSUME NEW d \in Callers, call'[d].pc = "inline", NEW s \in Subs
               PROVE  \/ \E k \in DOMAIN got'[s] : got'[s][k] = call'[d].ev
                      \/ \E k \in DOMAIN call'[d].left : call'[d].left[k] = s
    BY DEF Inlining, Reached
  <2>1. CASE d = c
    <3>1. call'[d].ev = e0 /\ call'[d].left = Tail(left)
      BY <1>2, <2>1
    <3> QED
      BY <1>7, <3>1 DEF Reached
  <2>2. CASE d # c
    <3>1. call'[d] = call[d] /\ call[d].ev \in Events
      BY <1>1, <1>2, <2>2 DEF Shape, CallTyped
    <3>2. \/ Reached(s, call[d].ev)
          \/ \E k \in DOMAIN call[d].left : call[d].left[k] = s
      BY <1>1, <3>1 DEF Inlining
    <3>3. \A x \in Events : Reached(s, x) => \E k \in DOMAIN got'[s] : got'[s][k] = x
      BY <1>4 DEF Reached
    <3> QED
      BY <3>1, <3>2, <3>3
  <2> QED
    BY <2>1, <2>2
<1>9. ASSUME NEW e \in Events, kind'[e] # "none"
       PROVE  Accounted(e)'
  <2>1. Accounted(e)
    BY <1>1, <1>9
  <2>2. CallHas(e) => CallHas(e)' \/ \A s \in Subs : Reached(s, e)'
    <3>1. /\ \A d \in Callers : d # c => call'[d] = call[d]
          /\ call'[c].pc = "inline" => call'[c].ev = e0
          /\ call[c].ev = e0
      BY <1>2, <1>2
    <3>2. CallHas(e) => CallHas(e)' \/ e = e0
      BY <3>1 DEF CallHas
    <3>3. CASE call'[c].pc = "idle"
      <4>1. DOMAIN Tail(left) = {}
        BY <1>2, <3>3, EmptySeq, LenProperties
      <4>2. \A s \in Subs : Reached(s, e0)'
        BY <1>7, <4>1
      <4> QED
        BY <3>2, <4>2
    <3>4. CASE call'[c].pc = "inline"
      <4>1. CallHas(e0)'
        BY <3>1, <3>4 DEF CallHas
      <4> QED
        BY <3>2, <4>1
    <3> QED
      BY <1>2, <3>3, <3>4
  <2>3. (Held(e) => Held(e)') /\ \A s \in Subs : Reached(s, e) => Reached(s, e)'
    BY <1>1, <1>4 DEF Held
  <2> QED
    BY <1>1, <2>1, <2>2, <2>3 DEF Accounted
<1> QED
  BY <1>5, <1>6, <1>8, <1>9 DEF IInv

-----------------------------------------------------------------------------
(* The queue loop *)

\* A put that is woken is on its way into the queue.
LEMMA WokenEffect ==
  ASSUME NEW e0 \in [Events -> EnqPc]
  PROVE  /\ Woken(e0) \in [Events -> EnqPc]
         /\ \A x \in Events : e0[x] \in Safe => Woken(e0)[x] \in Safe
BY DEF Woken, EnqPc, Safe

LEMMA EnterStep ==
  ASSUME IInv, phase = "open", phase' = phase, UNCHANGED <<nextId, kind, worker, jobs, got>>,
         NEW e \in Events, NEW e0 \in [Events -> EnqPc], NEW q \in Seq(Events),
         queue' = Append(q, e), enq' = [e0 EXCEPT ![e] = "entered"], call' = Returned(e),
         \A x \in Events : enq[x] \in Safe => e0[x] \in Safe,
         \A k \in DOMAIN queue : \/ \E j \in DOMAIN q : q[j] = queue[k]
                                 \/ e0[queue[k]] \in Safe
  PROVE  IInv'
<1>1. /\ queue' \in Seq(Events)
      /\ \E k \in DOMAIN queue' : queue'[k] = e
      /\ \A k \in DOMAIN q : k \in DOMAIN queue' /\ queue'[k] = q[k]
  BY Appended
<1>2. enq' \in [Events -> EnqPc] /\ \A x \in Events : x # e => enq'[x] = e0[x]
  BY DEF EnqPc
<1>3. Held(e)'
  BY <1>1 DEF Held
<1>4. ASSUME NEW k \in DOMAIN queue
      PROVE  (\E j \in DOMAIN queue' : queue'[j] = queue[k]) \/ enq'[queue[k]] \in Safe
  <2>1. queue[k] \in Events
    BY LenProperties DEF IInv, Shape, CallTyped
  <2>2. CASE queue[k] = e
    BY <1>1, <2>2
  <2>3. CASE queue[k] # e
    BY <1>1, <1>2, <2>1, <2>3
  <2> QED
    BY <2>2, <2>3
<1> QED
  BY <1>1, <1>2, <1>3, <1>4, LoopStep

LEMMA PutStepStep ==
  ASSUME IInv, phase = "open", NEW e \in Events, PutStep(e) \/ PutTimesOut(e)
  PROVE  IInv'
<1>1. /\ phase' = phase /\ UNCHANGED <<nextId, kind, worker, jobs, got>>
      /\ enq \in [Events -> EnqPc] /\ queue \in Seq(Events) /\ enq[e] \in EnqPc
  BY DEF PutStep, Enqueue, Resume, PutTimesOut, IInv, Shape, CallTyped, pools, closing
<1>2. CASE ~Full /\ Enter(e, enq, queue)
  BY <1>1, <1>2, EnterStep DEF Enter
<1>3. CASE Full /\ DropOldest(e)
  <2>1. queue # <<>>
    BY <1>3, DeliveryConstants, EmptySeq DEF Full
  <2>2. /\ Head(queue) \in Events /\ Tail(queue) \in Seq(Events)
        /\ \A k \in DOMAIN queue :
             queue[k] = Head(queue) \/ \E j \in DOMAIN Tail(queue) : Tail(queue)[j] = queue[k]
    BY <1>1, <2>1, Taken
  <2>3. PICK e1 \in [Events -> EnqPc] : e1 = [enq EXCEPT ![Head(queue)] = "evicted"]
    BY <1>1 DEF EnqPc, Dropped
  <2>4. e1[Head(queue)] \in Safe /\ \A x \in Events : enq[x] \in Safe => e1[x] \in Safe
    BY <1>1, <2>2, <2>3 DEF Safe, Dropped
  <2>5. PICK e0 \in [Events -> EnqPc] : e0 = Woken(e1)
    BY WokenEffect
  <2>6. \A x \in Events : e1[x] \in Safe => e0[x] \in Safe
    BY <2>5, WokenEffect
  <2>7. /\ queue' = Append(Tail(queue), e) /\ enq' = [e0 EXCEPT ![e] = "entered"]
        /\ call' = Returned(e)
    BY <1>3, <2>3, <2>5 DEF DropOldest, Enter
  <2>8. PICK q \in Seq(Events) : q = Tail(queue)
    BY <2>2
  <2> QED
    BY <1>1, <2>2, <2>4, <2>6, <2>7, <2>8, EnterStep
<1>4. ASSUME NEW e0 \in [Events -> EnqPc], enq' = e0 \/ enq' = Woken(e0), e0[e] \in Safe,
             \A x \in Events : x # e => e0[x] = enq[x], queue' = queue,
             call' = Returned(e) \/ call' = call
      PROVE  IInv'
  <2>1. enq' \in [Events -> EnqPc] /\ \A x \in Events : e0[x] \in Safe => enq'[x] \in Safe
    BY <1>4, WokenEffect
  <2> QED
    BY <1>1, <1>4, <2>1, LoopStep
<1>5. CASE Wait(e)
  <2>1. PICK e0 \in [Events -> EnqPc] : e0 = [enq EXCEPT ![e] = "put"]
    BY <1>1 DEF EnqPc
  <2>2. enq' = e0 /\ queue' = queue /\ call' = call
    BY <1>5, <2>1 DEF Wait
  <2>3. e0[e] \in Safe /\ \A x \in Events : x # e => e0[x] = enq[x]
    BY <1>1, <2>1 DEF Safe
  <2> QED
    BY <1>4, <2>2, <2>3
<1>6. CASE DropNewest(e)
  <2>1. PICK e0 \in [Events -> EnqPc] : e0 = [enq EXCEPT ![e] = "refused"]
    BY <1>1 DEF EnqPc, Dropped
  <2>2. enq' = e0 /\ queue' = queue /\ call' = Returned(e)
    BY <1>6, <2>1 DEF DropNewest
  <2>3. e0[e] \in Safe /\ \A x \in Events : x # e => e0[x] = enq[x]
    BY <1>1, <2>1 DEF Safe, Dropped
  <2> QED
    BY <1>4, <2>2, <2>3
<1>7. CASE PutTimesOut(e)
  <2>1. PICK fate \in {"lapsed", "refused"} :
             fate = IF kind[e] = "critical" THEN "lapsed" ELSE "refused"
    OBVIOUS
  <2>2. PICK e0 \in [Events -> EnqPc] : e0 = [enq EXCEPT ![e] = fate]
    BY <1>1 DEF EnqPc, Dropped
  <2>3. (enq' = e0 \/ enq' = Woken(e0)) /\ queue' = queue /\ call' = Returned(e)
    BY <1>7, <2>1, <2>2 DEF PutTimesOut
  <2>4. e0[e] \in Safe /\ \A x \in Events : x # e => e0[x] = enq[x]
    BY <1>1, <2>2 DEF Safe, Dropped
  <2> QED
    BY <1>4, <2>3, <2>4
<1> QED
  BY <1>2, <1>3, <1>5, <1>6, <1>7 DEF PutStep, Enqueue, Resume

-----------------------------------------------------------------------------
(* The workers and the pool *)

\* An event that is dispatched is one job per subscriber.
LEMMA JobsAdded ==
  ASSUME NEW w \in Dispatchers, NEW e \in Events, jobs \in Seq(Job),
         jobs' = jobs \o JobsOf(w, e)
  PROVE  /\ jobs' \in Seq(Job)
         /\ \A k \in DOMAIN jobs : \E j \in DOMAIN jobs' : jobs'[j] = jobs[k]
         /\ \A s \in Subs : \E j \in DOMAIN jobs' : jobs'[j] = [ev |-> e, sub |-> s, by |-> w]
<1>1. Len(Subscribers) \in Nat /\ DOMAIN Subscribers = 1 .. Len(Subscribers)
      /\ \A k \in DOMAIN Subscribers : Subscribers[k] \in Subs
  BY SubscribersSeq, LenProperties
<1>2. PICK n \in Nat : n = Len(Subscribers)
  BY <1>1
<1>3. PICK new : new = JobsOf(w, e)
  OBVIOUS
<1>4. /\ new \in [1 .. n -> Job]
      /\ \A k \in 1 .. n : new[k] = [ev |-> e, sub |-> Subscribers[k], by |-> w]
  BY <1>1, <1>2, <1>3 DEF JobsOf, Job
<1>5. new \in Seq(Job)
  BY <1>4, SeqDef
<1>6. Len(new) = n /\ DOMAIN new = 1 .. n
  BY <1>4, <1>5, LenProperties
<1>7. \A s \in Subs : \E k \in 1 .. n : new[k] = [ev |-> e, sub |-> s, by |-> w]
  BY <1>1, <1>2, <1>4 DEF Subs, Range
<1>8. /\ jobs \o new \in Seq(Job) /\ Len(jobs) \in Nat /\ DOMAIN jobs = 1 .. Len(jobs)
      /\ Len(jobs \o new) = Len(jobs) + n
      /\ DOMAIN (jobs \o new) = 1 .. Len(jobs) + n
      /\ \A i \in 1 .. Len(jobs) + n :
           (jobs \o new)[i] = IF i <= Len(jobs) THEN jobs[i] ELSE new[i - Len(jobs)]
  <2>1. Len(jobs) \in Nat /\ DOMAIN jobs = 1 .. Len(jobs)
    BY LenProperties
  <2>2. /\ jobs \o new \in Seq(Job) /\ Len(jobs \o new) = Len(jobs) + n
        /\ \A i \in 1 .. Len(jobs) + n :
             (jobs \o new)[i] = IF i <= Len(jobs) THEN jobs[i] ELSE new[i - Len(jobs)]
    BY <1>5, <1>6, ConcatProperties
  <2>3. DOMAIN (jobs \o new) = 1 .. Len(jobs \o new)
    BY <2>2, LenProperties
  <2> QED
    BY <2>1, <2>2, <2>3
<1>9. \A k \in 1 .. n : /\ Len(jobs) + k \in 1 .. Len(jobs) + n
                        /\ (jobs \o new)[Len(jobs) + k] = new[k]
  BY <1>8
<1>10. \A k \in DOMAIN jobs : k \in 1 .. Len(jobs) + n /\ (jobs \o new)[k] = jobs[k]
  BY <1>8
<1>11. \A s \in Subs : \E j \in DOMAIN (jobs \o new) :
              (jobs \o new)[j] = [ev |-> e, sub |-> s, by |-> w]
  <2> SUFFICES ASSUME NEW s \in Subs
               PROVE  \E j \in DOMAIN (jobs \o new) :
                        (jobs \o new)[j] = [ev |-> e, sub |-> s, by |-> w]
    OBVIOUS
  <2>1. PICK k \in 1 .. n : new[k] = [ev |-> e, sub |-> s, by |-> w]
    BY <1>7
  <2>2. Len(jobs) + k \in DOMAIN (jobs \o new) /\ (jobs \o new)[Len(jobs) + k] = new[k]
    BY <1>8, <1>9
  <2> QED
    BY <2>1, <2>2
<1>12. \A k \in DOMAIN jobs : \E j \in DOMAIN (jobs \o new) : (jobs \o new)[j] = jobs[k]
  BY <1>8, <1>10
<1>13. jobs' = jobs \o new
  BY <1>3
<1> QED
  BY <1>8, <1>11, <1>12, <1>13

LEMMA TakeStep ==
  ASSUME IInv, phase = "open", NEW w \in Workers, TakeEvent(w)
  PROVE  IInv'
<1>1. /\ Shape /\ Dispatching /\ Inlining
      /\ \A x \in Events : kind[x] # "none" => Accounted(x)
      /\ UNCHANGED <<nextId, kind, call, got>> /\ enq' = Woken(enq)
      /\ worker[w] = Idle /\ queue # <<>> /\ queue' = Tail(queue)
      /\ worker' = [worker EXCEPT ![w] = Head(queue)]
      /\ jobs' = jobs \o JobsOf(w, Head(queue))
      /\ enq \in [Events -> EnqPc] /\ queue \in Seq(Events) /\ w \in Dispatchers
      /\ worker \in [Dispatchers -> Events \cup {Idle, Gone}] /\ jobs \in Seq(Job)
  BY DEF TakeEvent, IInv, Shape, CallTyped, callers, Dispatchers
<1>2. /\ Head(queue) \in Events /\ Tail(queue) \in Seq(Events)
      /\ \A k \in DOMAIN queue :
           queue[k] = Head(queue) \/ \E j \in DOMAIN Tail(queue) : Tail(queue)[j] = queue[k]
  BY <1>1, Taken
<1>3. PICK e \in Events : e = Head(queue)
  BY <1>2
<1>4. /\ jobs' \in Seq(Job)
      /\ \A k \in DOMAIN jobs : \E j \in DOMAIN jobs' : jobs'[j] = jobs[k]
      /\ \A s \in Subs : \E j \in DOMAIN jobs' : jobs'[j] = [ev |-> e, sub |-> s, by |-> w]
  <2>1. jobs' = jobs \o JobsOf(w, e)
    BY <1>1, <1>3
  <2> QED
    BY <1>1, <2>1, JobsAdded
<1>5. enq' \in [Events -> EnqPc] /\ \A x \in Events : enq[x] \in Safe => enq'[x] \in Safe
  BY <1>1, WokenEffect
<1>6. worker'[w] = e /\ \A v \in Dispatchers : v # w => worker'[v] = worker[v]
  BY <1>1, <1>3
<1>7. Shape'
  BY <1>1, <1>2, <1>4, <1>5 DEF Shape, CallTyped
<1>8. Dispatching'
  <2> SUFFICES ASSUME NEW v \in Dispatchers, worker'[v] \in Events, NEW s \in Subs
               PROVE  \/ \E k \in DOMAIN got'[s] : got'[s][k] = worker'[v]
                      \/ \E k \in DOMAIN jobs' :
                           jobs'[k] = [ev |-> worker'[v], sub |-> s, by |-> v]
    BY DEF Dispatching, Reached
  <2>1. CASE v = w
    BY <1>4, <1>6, <2>1
  <2>2. CASE v # w
    <3>1. worker'[v] = worker[v]
      BY <1>6, <2>2
    <3> DEFINE job == [ev |-> worker[v], sub |-> s, by |-> v]
    <3>2. \/ \E k \in DOMAIN got[s] : got[s][k] = worker[v]
          \/ \E k \in DOMAIN jobs : jobs[k] = job
      BY <1>1, <3>1 DEF Dispatching, Reached
    <3>3. job = [ev |-> worker'[v], sub |-> s, by |-> v]
      BY <3>1
    <3> HIDE DEF job
    <3>4. (\E k \in DOMAIN jobs : jobs[k] = job) => \E k \in DOMAIN jobs' : jobs'[k] = job
      BY <1>4
    <3> QED
      BY <1>1, <3>1, <3>2, <3>3, <3>4
  <2> QED
    BY <2>1, <2>2
<1>9. Inlining'
  BY <1>1 DEF Inlining, Reached
<1>10. ASSUME NEW x \in Events, kind'[x] # "none"
       PROVE  Accounted(x)'
  <2>1. Accounted(x)
    BY <1>1, <1>10
  <2>2. CallHas(x) => CallHas(x)'
    BY <1>1 DEF CallHas
  <2>3. Held(x) => Held(x)'
    <3>1. \A v \in Dispatchers : worker[v] = x => v # w
      BY <1>1 DEF Idle, Events
    <3> QED
      BY <1>1, <1>2, <1>3, <1>6, <3>1 DEF Held
  <2>4. \A s \in Subs : Reached(s, x) => Reached(s, x)'
    BY <1>1 DEF Reached
  <2> QED
    BY <1>5, <2>1, <2>2, <2>3, <2>4 DEF Accounted
<1> QED
  BY <1>7, <1>8, <1>9, <1>10 DEF IInv

\* A worker is done only when no job of its event is left: all have been delivered.
LEMMA DoneStep ==
  ASSUME IInv, phase = "open", NEW w \in Dispatchers, DispatchDone(w)
  PROVE  IInv'
<1>1. /\ Shape /\ Dispatching /\ Inlining
      /\ \A x \in Events : kind[x] # "none" => Accounted(x)
      /\ UNCHANGED <<nextId, kind, call, enq, queue, jobs, got>>
      /\ worker' = [worker EXCEPT ![w] = Idle] /\ worker[w] \in Events
      /\ worker \in [Dispatchers -> Events \cup {Idle, Gone}]
      /\ \A k \in DOMAIN jobs : jobs[k].by # w
  BY DEF DispatchDone, Finished, IInv, Shape, CallTyped, callers, pools, loop
<1>2. \A s \in Subs : Reached(s, worker[w])
  BY <1>1 DEF Dispatching
<1>3. worker'[w] = Idle /\ Idle \notin Events /\ \A v \in Dispatchers : v # w => worker'[v] = worker[v]
  BY <1>1 DEF Idle, Events
<1>4. Shape'
  BY <1>1 DEF Shape, CallTyped
<1>5. Dispatching'
  BY <1>1, <1>3 DEF Dispatching, Reached
<1>6. Inlining'
  BY <1>1 DEF Inlining, Reached
<1>7. ASSUME NEW x \in Events, kind'[x] # "none"
      PROVE  Accounted(x)'
  <2>1. Accounted(x)
    BY <1>1, <1>7
  <2>2. (CallHas(x) => CallHas(x)') /\ \A s \in Subs : Reached(s, x) => Reached(s, x)'
    BY <1>1 DEF CallHas, Reached
  <2>3. Held(x) => Held(x)' \/ \A s \in Subs : Reached(s, x)
    BY <1>1, <1>2, <1>3 DEF Held
  <2> QED
    BY <1>1, <2>1, <2>2, <2>3 DEF Accounted
<1> QED
  BY <1>4, <1>5, <1>6, <1>7 DEF IInv

LEMMA StartStep ==
  ASSUME IInv, phase = "open", NEW t \in Pool, StartJob(t)
  PROVE  IInv'
<1>1. /\ Shape /\ Dispatching /\ Inlining
      /\ \A x \in Events : kind[x] # "none" => Accounted(x)
      /\ UNCHANGED <<nextId, kind, call, enq, queue, worker>>
      /\ jobs \in Seq(Job) /\ jobs # <<>> /\ jobs' = Tail(jobs)
      /\ Called(Head(jobs).sub, Head(jobs).ev)
  BY DEF StartJob, IInv, Shape, CallTyped, callers, loop
<1>2. /\ Head(jobs) \in Job /\ Tail(jobs) \in Seq(Job)
      /\ \A k \in DOMAIN jobs :
           jobs[k] = Head(jobs) \/ \E j \in DOMAIN Tail(jobs) : Tail(jobs)[j] = jobs[k]
  BY <1>1, Taken
<1>3. PICK job \in Job : job = Head(jobs)
  BY <1>2
<1>4. job.sub \in Subs /\ job.ev \in Events
  BY DEF Job
<1>5. /\ got' \in [Subs -> Seq(Events)]
      /\ Reached(job.sub, job.ev)'
      /\ \A s \in Subs, x \in Events : Reached(s, x) => Reached(s, x)'
  BY <1>1, <1>3, <1>4, CalledEffect
<1>6. Shape'
  BY <1>1, <1>2, <1>5 DEF Shape, CallTyped
<1>7. Dispatching'
  <2> SUFFICES ASSUME NEW w \in Dispatchers, worker'[w] \in Events, NEW s \in Subs
               PROVE  \/ \E k \in DOMAIN got'[s] : got'[s][k] = worker'[w]
                      \/ \E k \in DOMAIN jobs' :
                           jobs'[k] = [ev |-> worker'[w], sub |-> s, by |-> w]
    BY DEF Dispatching, Reached
  <2>1. PICK e \in Events : e = worker[w] /\ e = worker'[w]
    BY <1>1
  <2>2. Reached(s, e) \/ \E k \in DOMAIN jobs : jobs[k] = [ev |-> e, sub |-> s, by |-> w]
    BY <1>1, <2>1 DEF Dispatching
  <2>3. CASE Reached(s, e)
    BY <1>5, <2>1, <2>3 DEF Reached
  <2>4. CASE job = [ev |-> e, sub |-> s, by |-> w]
    <3>1. job.sub = s /\ job.ev = e
      BY <2>4
    <3> QED
      BY <1>5, <2>1, <3>1 DEF Reached
  <2>5. CASE \E k \in DOMAIN Tail(jobs) : Tail(jobs)[k] = [ev |-> e, sub |-> s, by |-> w]
    BY <1>1, <2>1, <2>5
  <2> QED
    BY <1>2, <1>3, <2>2, <2>3, <2>4, <2>5
<1>8. Inlining'
  <2> SUFFICES ASSUME NEW c \in Callers, call'[c].pc = "inline", NEW s \in Subs
               PROVE  \/ \E k \in DOMAIN got'[s] : got'[s][k] = call'[c].ev
                      \/ \E k \in DOMAIN call'[c].left : call'[c].left[k] = s
    BY DEF Inlining, Reached
  <2>1. PICK e \in Events : e = call[c].ev
    BY <1>1 DEF Shape, CallTyped
  <2>2. Reached(s, e) \/ \E k \in DOMAIN call[c].left : call[c].left[k] = s
    BY <1>1, <2>1 DEF Inlining
  <2>3. Reached(s, e) => \E k \in DOMAIN got'[s] : got'[s][k] = e
    BY <1>5 DEF Reached
  <2> QED
    BY <1>1, <2>1, <2>2, <2>3
<1>9. ASSUME NEW x \in Events, kind'[x] # "none"
      PROVE  Accounted(x)'
  <2>1. Accounted(x)
    BY <1>1, <1>9
  <2>2. (CallHas(x) => CallHas(x)') /\ (Held(x) => Held(x)')
    BY <1>1 DEF CallHas, Held
  <2> QED
    BY <1>1, <1>5, <2>1, <2>2 DEF Accounted
<1> QED
  BY <1>6, <1>7, <1>8, <1>9 DEF IInv

-----------------------------------------------------------------------------
(* No event is lost *)

LEMMA InitIInv == Init => IInv
<1> SUFFICES ASSUME Init PROVE IInv
  OBVIOUS
<1>1. <<>> \in Seq(Events) /\ <<>> \in Seq(Job) /\ <<>> \in Seq(Subs)
  BY EmptySeq
<1>2. NoCall \in [pc : {"idle", "sent", "inline"}, ev : 0 .. MaxEvents, left : Seq(Subs)]
      /\ NoCall.pc = "idle"
  BY <1>1, DeliveryConstants DEF NoCall
<1>3. Shape
  BY <1>1, <1>2 DEF Init, Shape, CallTyped, EnqPc
<1>4. Dispatching
  BY DEF Init, Dispatching, Idle, Events
<1>5. Inlining
  BY <1>2 DEF Init, Inlining
<1> QED
  BY <1>3, <1>4, <1>5 DEF Init, IInv

LEMMA NextIInv == IInv /\ [Next]_vars => IInv'
<1> SUFFICES ASSUME IInv, [Next]_vars, phase' = "open" PROVE IInv'
  BY DEF IInv
<1>1. CASE UNCHANGED vars
  <2>1. /\ UNCHANGED <<nextId, kind, call, enq, queue>>
        /\ UNCHANGED <<worker, jobs, got, phase>>
    BY <1>1 DEF vars
  <2> QED
    BY <2>1 DEF IInv, Shape, CallTyped, Dispatching, Inlining, Accounted, CallHas, Held, Reached
<1>2. ASSUME phase # "open", Next
      PROVE  FALSE
  BY <1>2 DEF Next, AddEvent, InlineNext, CallerGivesUp, PutStep, Enqueue, Resume, PutTimesOut,
              WorkerStep, TakeEvent, DispatchDone, StartJob, EndJob, CloseBegin, CloseStep,
              ShutdownBegin, DrainStep, DrainTake, DrainEnd, CloseEnd, DrainTimesOut, closing
<1>3. CASE phase = "open" /\ Next
  <2>1. ASSUME NEW c \in Callers, NEW k \in {"user", "plain", "critical"}, AddEvent(c, k)
        PROVE  IInv'
    BY <2>1, AddEventStep
  <2>2. ASSUME NEW c \in Callers, InlineNext(c) \/ CallerGivesUp(c)
        PROVE  IInv'
    BY <1>3, <2>2, InlineStep, GivesUpStep
  <2>3. ASSUME NEW e \in Events, PutStep(e) \/ PutTimesOut(e)
        PROVE  IInv'
    BY <1>3, <2>3, PutStepStep
  <2>4. ASSUME NEW w \in Workers, WorkerStep(w)
        PROVE  IInv'
    BY <1>3, <2>4, TakeStep, DoneStep DEF WorkerStep, Dispatchers
  <2>5. ASSUME NEW t \in Pool, StartJob(t)
        PROVE  IInv'
    BY <1>3, <2>5, StartStep
  <2>6. ASSUME NEW t \in Pool, EndJob(t)
        PROVE  IInv'
    <3>1. /\ UNCHANGED <<nextId, kind, call, enq, queue>>
          /\ UNCHANGED <<worker, jobs, got, phase>>
      BY <2>6 DEF EndJob, callers, loop, closing
    <3> QED
      BY <3>1 DEF IInv, Shape, CallTyped, Dispatching, Inlining, Accounted, CallHas, Held, Reached
  <2>7. CASE DispatchDone(Closer)
    BY <1>3, <2>7, DoneStep DEF Dispatchers
  <2>8. ASSUME CloseBegin \/ ShutdownBegin \/ DrainTake \/ DrainEnd \/ CloseEnd \/ DrainTimesOut
        PROVE  FALSE
    BY <1>3, <2>8 DEF CloseBegin, ShutdownBegin, DrainTake, DrainEnd, CloseEnd, DrainTimesOut
  <2> QED
    BY <1>3, <2>1, <2>2, <2>3, <2>4, <2>5, <2>6, <2>7, <2>8 DEF Next, CloseStep, DrainStep
<1> QED
  BY <1>1, <1>2, <1>3

\* While the stream is open an event that was added is with its caller, on its way into the
\* queue, in it or being dispatched, or it was dropped and counted, or it has been delivered
\* to every subscriber: neither a full queue under any policy, nor a put that is woken,
\* overtaken or timed out, nor a caller that gives up loses one in silence.
THEOREM NoEventIsLost == Spec => []NoSilentLoss
<1>1. IInv => NoSilentLoss
  BY DEF IInv, NoSilentLoss, Accounted, Safe, PutWaits
<1> QED
  BY <1>1, InitIInv, NextIInv, PTL DEF Spec
-----------------------------------------------------------------------------
(* Every step, in every phase: types *)

Typed == TypeOK /\ CallTyped(call)

-----------------------------------------------------------------------------
(* Every step, in every phase: order.  Events enter the queue one after the other, and    *)
(* what has entered moves on, from the queue to a job and from there to a subscriber,     *)
(* without overtaking: the history of the queue, h, orders the queue q, the jobs J, and   *)
(* what a subscriber was called with, g, but for the events in X.                         *)

\* a is before b in h.
Earlier(h, a, b) == \E j, k \in DOMAIN h : j < k /\ h[j] = a /\ h[k] = b

QueueInOrder(h, q) ==
    /\ \A k \in DOMAIN q : q[k] \in Range(h)
    /\ \A j, k \in DOMAIN q : j < k => Earlier(h, q[j], q[k])

JobsInOrder(h, q, J) ==
    /\ \A k \in DOMAIN J : J[k].ev \in Range(h) /\ \A i \in DOMAIN q : Earlier(h, J[k].ev, q[i])
    /\ \A j, k \in DOMAIN J : j < k /\ J[j].sub = J[k].sub => Earlier(h, J[j].ev, J[k].ev)

GotInOrder(h, q, J, g, s, X) ==
    \A k \in DOMAIN g : g[k] \in Range(h) \ X =>
        /\ \A i \in DOMAIN q : Earlier(h, g[k], q[i])
        /\ \A i \in DOMAIN J : J[i].sub = s => Earlier(h, g[k], J[i].ev)
        /\ \A l \in DOMAIN g : k < l /\ g[l] \in Range(h) \ X => Earlier(h, g[k], g[l])

InOrder(h, q, J, G, X) ==
    /\ IsInjective(h)
    /\ QueueInOrder(h, q)
    /\ JobsInOrder(h, q, J)
    /\ \A s \in Subs : GotInOrder(h, q, J, G[s], s, X)

\* A put waits once; who has entered is not put again.
Puts ==
    /\ IsInjective(putters)
    /\ \A k \in DOMAIN putters : enq[putters[k]] = "put"
    /\ \A e \in Range(entered) : enq[e] \in {"entered", "evicted"}

\* The coroutine has not let the event into the queue.
Outside == {"new", "put", "woken", "refused", "lapsed"}

NotYet(e) == \A s \in Subs : ~ Reached(s, e)

\* An event of the queue loop reaches nobody before it is in the queue, unless its caller
\* gave up; and an event to come is not there at all.
Fresh ==
    \A e \in Events :
        /\ enq[e] \in Outside /\ e \notin stalled => NotYet(e)
        /\ e >= nextId => /\ enq[e] = "none" /\ e \notin stalled /\ NotYet(e)
                          /\ \A c \in Callers : call[c].pc # "idle" => call[c].ev # e

\* An event of the user is with one caller, who has yet to call the subscribers left.
InlineOnce ==
    \A c \in Callers : call[c].pc = "inline" /\ call[c].ev \notin stalled =>
        /\ enq[call[c].ev] = "none"
        /\ IsInjective(call[c].left)
        /\ \A k \in DOMAIN call[c].left : ~ Reached(call[c].left[k], call[c].ev)
        /\ \A d \in Callers : call[d].pc # "idle" /\ call[d].ev = call[c].ev => d = c

Sound ==
    /\ Typed
    /\ InOrder(entered, queue, jobs, got, stalled)
    /\ Puts /\ Fresh /\ InlineOnce /\ DeliveredOnce


\* p is what is left of q when some elements are taken out.
Thinned(p, q) ==
    \E f \in [DOMAIN p -> DOMAIN q] :
        \A i \in DOMAIN p : p[i] = q[f[i]] /\ \A j \in DOMAIN p : i < j => f[i] < f[j]

LEMMA ThinnedSelf ==
  ASSUME NEW q
  PROVE  Thinned(q, q)
<1> DEFINE f == [i \in DOMAIN q |-> i]
<1>1. f \in [DOMAIN q -> DOMAIN q] /\ \A i \in DOMAIN q : f[i] = i
  OBVIOUS
<1> QED
  BY <1>1 DEF Thinned

\* A queue without its head.
LEMMA ThinnedTail ==
  ASSUME NEW S, NEW q \in Seq(S), q # <<>>
  PROVE  /\ Head(q) \in S /\ Tail(q) \in Seq(S) /\ Len(Tail(q)) = Len(q) - 1
         /\ 1 \in DOMAIN q /\ q[1] = Head(q)
         /\ \A i \in DOMAIN Tail(q) : i + 1 \in DOMAIN q /\ 1 < i + 1 /\ Tail(q)[i] = q[i + 1]
         /\ Thinned(Tail(q), q)
<1>1. /\ Len(q) \in Nat \ {0} /\ DOMAIN q = 1 .. Len(q) /\ Head(q) = q[1]
      /\ Head(q) \in S /\ Tail(q) \in Seq(S) /\ Len(Tail(q)) = Len(q) - 1
      /\ \A i \in 1 .. Len(Tail(q)) : Tail(q)[i] = q[i + 1]
  BY HeadTailProperties, EmptySeq, LenProperties
<1>2. DOMAIN Tail(q) = 1 .. Len(q) - 1
  BY <1>1, LenProperties
<1> DEFINE p == Tail(q)
           f == [i \in DOMAIN p |-> i + 1]
<1>3. /\ 1 \in DOMAIN q
      /\ \A i \in DOMAIN p : i + 1 \in DOMAIN q /\ 1 < i + 1 /\ p[i] = q[i + 1]
      /\ \A i, j \in DOMAIN p : i < j => i + 1 < j + 1
  BY <1>1, <1>2
<1>4. f \in [DOMAIN p -> DOMAIN q] /\ \A i \in DOMAIN p : f[i] = i + 1
  BY <1>3
<1> HIDE DEF p, f
<1>5. Thinned(p, q)
  BY <1>3, <1>4 DEF Thinned
<1> QED
  BY <1>1, <1>3, <1>5 DEF p

\* Kept keeps the order: the j-th element is the one at the j-th place of K.
LEMMA KeptThinned ==
  ASSUME NEW S, NEW q \in Seq(S), NEW K \in SUBSET DOMAIN q
  PROVE  /\ Kept(q, K) \in Seq(S)
         /\ Thinned(Kept(q, K), q)
         /\ \A j \in DOMAIN Kept(q, K) : \E k \in K : Kept(q, K)[j] = q[k]
<1> DEFINE rank(k) == Cardinality({i \in K : i <= k})
           n == Cardinality(K)
<1>1. Len(q) \in Nat /\ DOMAIN q = 1 .. Len(q) /\ \A k \in DOMAIN q : q[k] \in S
  BY LenProperties
<1>2. IsFiniteSet(K) /\ n \in Nat /\ K \subseteq Nat
  <2>1. IsFiniteSet(1 .. Len(q)) /\ K \subseteq 1 .. Len(q)
    BY <1>1, FS_Interval
  <2>2. IsFiniteSet(K)
    BY <2>1, FS_Subset
  <2>3. n \in Nat
    BY <2>2, FS_CardinalityType
  <2> QED
    BY <1>1, <2>1, <2>2, <2>3
<1>3. \A k \in K : IsFiniteSet({i \in K : i <= k}) /\ rank(k) \in 1 .. n
  <2> TAKE k \in K
  <2> DEFINE below == {i \in K : i <= k}
  <2>1. below \subseteq K /\ {k} \subseteq below
    BY <1>2
  <2>2. IsFiniteSet(below) /\ Cardinality(below) <= n /\ Cardinality(below) \in Nat
    BY <1>2, <2>1, FS_Subset, FS_CardinalityType
  <2>3. Cardinality({k}) = 1 /\ Cardinality({k}) <= Cardinality(below)
    BY <2>1, <2>2, FS_Subset, FS_Singleton
  <2> QED
    BY <1>2, <2>2, <2>3
<1>4. \A k, l \in K : k < l => rank(k) < rank(l)
  <2> SUFFICES ASSUME NEW k \in K, NEW l \in K, k < l PROVE rank(k) < rank(l)
    OBVIOUS
  <2> DEFINE A == {i \in K : i <= k}
             B == {i \in K : i <= l}
  <2>1. A \subseteq B /\ l \in B /\ l \notin A
    BY <1>2
  <2>2. IsFiniteSet(B) /\ Cardinality(A) \in Nat /\ Cardinality(B) \in Nat
    <3>1. rank(k) \in 1 .. n /\ rank(l) \in 1 .. n /\ IsFiniteSet({i \in K : i <= l})
      BY <1>3
    <3> QED
      BY <1>2, <3>1
  <2>3. Cardinality(A) <= Cardinality(B) /\ Cardinality(A) # Cardinality(B)
    BY <2>1, <2>2, FS_Subset
  <2> QED
    BY <2>2, <2>3
<1>5. \A k, l \in K : rank(k) = rank(l) => k = l
  <2> SUFFICES ASSUME NEW k \in K, NEW l \in K, rank(k) = rank(l) PROVE k = l
    OBVIOUS
  <2>1. k \in Nat /\ l \in Nat /\ rank(k) \in Nat /\ rank(l) \in Nat
    <3>1. rank(k) \in 1 .. n /\ rank(l) \in 1 .. n
      BY <1>3
    <3> HIDE DEF rank, n
    <3>2. k \in Nat /\ l \in Nat /\ n \in Nat
      BY <1>2
    <3> QED
      BY <3>1, <3>2
  <2> HIDE DEF rank
  <2>2. ~ (k < l) /\ ~ (l < k)
    BY <1>4, <2>1
  <2> QED
    BY <2>1, <2>2
<1> DEFINE r == [k \in K |-> rank(k)]
<1> HIDE DEF rank
<1>6. \A j \in 1 .. n : \E k \in K : rank(k) = j
  <2>1. r \in Injection(K, 1 .. n)
    BY <1>3, <1>5 DEF Injection, IsInjective
  <2>2. IsFiniteSet(1 .. n) /\ Cardinality(1 .. n) = n
    BY <1>2, FS_Interval
  <2>3. r \in Surjection(K, 1 .. n)
    BY <2>1, <2>2, FS_Injection
  <2> QED
    BY <2>3 DEF Surjection
<1> DEFINE f == [j \in 1 .. n |-> CHOOSE k \in K : rank(k) = j]
<1>7. f \in [1 .. n -> K] /\ \A j \in 1 .. n : rank(f[j]) = j
  BY <1>6
<1>8. \A i, j \in 1 .. n : i < j => f[i] < f[j]
  <2> SUFFICES ASSUME NEW i \in 1 .. n, NEW j \in 1 .. n, i < j PROVE f[i] < f[j]
    OBVIOUS
  <2>1. f[i] \in K /\ f[j] \in K /\ rank(f[i]) = i /\ rank(f[j]) = j
    BY <1>7
  <2>2. f[i] \in Nat /\ f[j] \in Nat /\ i \in Nat /\ j \in Nat
    BY <1>2, <2>1
  <2> HIDE DEF f
  <2>3. ~ (f[j] < f[i]) /\ f[i] # f[j]
    BY <1>4, <2>1, <2>2
  <2> QED
    BY <2>2, <2>3
<1>9. Kept(q, K) = [j \in 1 .. n |-> q[f[j]]]
  BY DEF Kept, rank
<1> HIDE DEF f
<1>10. Kept(q, K) \in [1 .. n -> S] /\ DOMAIN Kept(q, K) = 1 .. n
  BY <1>1, <1>7, <1>9
<1>11. Kept(q, K) \in Seq(S)
  BY <1>2, <1>10, SeqDef
<1>12. \A j \in 1 .. n : Kept(q, K)[j] = q[f[j]] /\ f[j] \in K
  BY <1>7, <1>9
<1>13. f \in [DOMAIN Kept(q, K) -> DOMAIN q]
  BY <1>7, <1>10
<1>14. Thinned(Kept(q, K), q)
  BY <1>8, <1>10, <1>12, <1>13 DEF Thinned
<1> QED
  BY <1>10, <1>11, <1>12, <1>14

\* What is thinned has no repetitions it did not have.
LEMMA ThinnedInjective ==
  ASSUME NEW S, NEW p \in Seq(S), NEW q, Thinned(p, q), IsInjective(q)
  PROVE  IsInjective(p)
<1>1. PICK f \in [DOMAIN p -> DOMAIN q] :
        \A i \in DOMAIN p : p[i] = q[f[i]] /\ \A j \in DOMAIN p : i < j => f[i] < f[j]
  BY DEF Thinned
<1> SUFFICES ASSUME NEW a \in DOMAIN p, NEW b \in DOMAIN p, p[a] = p[b] PROVE a = b
  BY DEF IsInjective
<1>2. f[a] = f[b]
  BY <1>1 DEF IsInjective
<1>3. a \in Int /\ b \in Int
  BY LenProperties
<1> QED
  BY <1>1, <1>2, <1>3

-----------------------------------------------------------------------------
(* What keeps the order *)

\* An event that leaves the queue, a job that is cancelled, an event that is no longer counted.
LEMMA OrderThinned ==
  ASSUME NEW h, NEW q, NEW q2, NEW J, NEW J2, NEW G, NEW X, NEW X2,
         InOrder(h, q, J, G, X), Thinned(q2, q), Thinned(J2, J), X \subseteq X2
  PROVE  InOrder(h, q2, J2, G, X2)
<1>1. PICK f \in [DOMAIN q2 -> DOMAIN q] :
        \A i \in DOMAIN q2 : q2[i] = q[f[i]] /\ \A j \in DOMAIN q2 : i < j => f[i] < f[j]
  BY DEF Thinned
<1>2. PICK g \in [DOMAIN J2 -> DOMAIN J] :
        \A i \in DOMAIN J2 : J2[i] = J[g[i]] /\ \A j \in DOMAIN J2 : i < j => g[i] < g[j]
  BY DEF Thinned
<1>3. /\ IsInjective(h) /\ QueueInOrder(h, q) /\ JobsInOrder(h, q, J)
      /\ \A s \in Subs : GotInOrder(h, q, J, G[s], s, X)
  BY DEF InOrder
<1>4. QueueInOrder(h, q2)
  BY <1>1, <1>3 DEF QueueInOrder
<1>5. JobsInOrder(h, q2, J2)
  BY <1>1, <1>2, <1>3 DEF JobsInOrder
<1>6. ASSUME NEW s \in Subs
      PROVE  GotInOrder(h, q2, J2, G[s], s, X2)
  <2>1. GotInOrder(h, q, J, G[s], s, X)
    BY <1>3
  <2> QED
    BY <1>1, <1>2, <2>1 DEF GotInOrder
<1> QED
  BY <1>3, <1>4, <1>5, <1>6 DEF InOrder

\* An event that enters the queue.
LEMMA OrderEntered ==
  ASSUME NEW h \in Seq(Events), NEW q \in Seq(Events), NEW J, NEW G, NEW X, NEW e \in Events,
         InOrder(h, q, J, G, X), e \notin Range(h),
         e \in X \/ \A s \in Subs : \A k \in DOMAIN G[s] : G[s][k] # e
  PROVE  InOrder(Append(h, e), Append(q, e), J, G, X)
<1>1. /\ Len(h) \in Nat /\ DOMAIN h = 1 .. Len(h) /\ DOMAIN Append(h, e) = 1 .. Len(h) + 1
      /\ \A i \in 1 .. Len(h) : Append(h, e)[i] = h[i]
      /\ Append(h, e)[Len(h) + 1] = e
  BY AppendProperties, LenProperties
<1>2. /\ Len(q) \in Nat /\ DOMAIN q = 1 .. Len(q) /\ DOMAIN Append(q, e) = 1 .. Len(q) + 1
      /\ \A i \in 1 .. Len(q) : Append(q, e)[i] = q[i]
      /\ Append(q, e)[Len(q) + 1] = e
  BY AppendProperties, LenProperties
<1> DEFINE h2 == Append(h, e)
           q2 == Append(q, e)
<1> HIDE DEF h2, q2
<1>3. /\ IsInjective(h) /\ QueueInOrder(h, q) /\ JobsInOrder(h, q, J)
      /\ \A s \in Subs : GotInOrder(h, q, J, G[s], s, X)
  BY DEF InOrder
<1>4. /\ \A a \in Range(h) : a \in Range(h2) /\ Earlier(h2, a, e)
      /\ \A a \in Range(h2) : a \in Range(h) \/ a = e
      /\ e \in Range(h2)
  <2>1. ASSUME NEW a \in Range(h)
        PROVE  a \in Range(h2) /\ Earlier(h2, a, e)
    <3>1. PICK k \in DOMAIN h : h[k] = a
      BY DEF Range
    <3>2. k \in DOMAIN h2 /\ Len(h) + 1 \in DOMAIN h2 /\ k < Len(h) + 1 /\ h2[k] = a
          /\ h2[Len(h) + 1] = e
      BY <1>1, <3>1 DEF h2
    <3> QED
      BY <3>2 DEF Range, Earlier
  <2>2. \A k \in DOMAIN h2 : h2[k] = e \/ (k \in DOMAIN h /\ h2[k] = h[k])
    BY <1>1 DEF h2
  <2>3. Len(h) + 1 \in DOMAIN h2 /\ h2[Len(h) + 1] = e
    BY <1>1 DEF h2
  <2> QED
    BY <2>1, <2>2, <2>3 DEF Range
<1>5. \A a, b : Earlier(h, a, b) => Earlier(h2, a, b)
  <2>1. \A k \in DOMAIN h : k \in DOMAIN h2 /\ h2[k] = h[k]
    BY <1>1 DEF h2
  <2> QED
    BY <2>1 DEF Earlier
<1>6. IsInjective(h2)
  <2> SUFFICES ASSUME NEW a \in DOMAIN h2, NEW b \in DOMAIN h2, h2[a] = h2[b] PROVE a = b
    BY DEF IsInjective
  <2>1. /\ \A k \in DOMAIN h2 : \/ k = Len(h) + 1 /\ h2[k] = e
                                \/ k \in DOMAIN h /\ h2[k] = h[k]
        /\ \A k \in DOMAIN h : h[k] # e
    BY <1>1 DEF h2, Range
  <2> QED
    BY <1>3, <2>1 DEF IsInjective
<1>7. \A k \in DOMAIN q2 : q2[k] = e \/ (k \in DOMAIN q /\ q2[k] = q[k])
  BY <1>2 DEF q2
<1>8. QueueInOrder(h2, q2)
  <2>1. \A k \in DOMAIN q2 : q2[k] \in Range(h2)
    BY <1>3, <1>4, <1>7 DEF QueueInOrder
  <2>2. ASSUME NEW j \in DOMAIN q2, NEW k \in DOMAIN q2, j < k
        PROVE  Earlier(h2, q2[j], q2[k])
    <3>1. j \in DOMAIN q /\ q2[j] = q[j]
      BY <1>2, <2>2 DEF q2
    <3>2. CASE q2[k] = e
      BY <1>3, <1>4, <3>1, <3>2 DEF QueueInOrder
    <3>3. CASE k \in DOMAIN q /\ q2[k] = q[k]
      BY <1>3, <1>5, <2>2, <3>1, <3>3 DEF QueueInOrder
    <3> QED
      BY <1>7, <3>2, <3>3
  <2> QED
    BY <2>1, <2>2 DEF QueueInOrder
<1>9. JobsInOrder(h2, q2, J)
  BY <1>3, <1>4, <1>5, <1>7 DEF JobsInOrder
<1>10. ASSUME NEW s \in Subs
       PROVE  GotInOrder(h2, q2, J, G[s], s, X)
  <2>1. GotInOrder(h, q, J, G[s], s, X)
    BY <1>3
  <2>2. \A k \in DOMAIN G[s] : G[s][k] \in Range(h2) \ X => G[s][k] \in Range(h) \ X
    BY <1>4
  <2>3. ASSUME NEW k \in DOMAIN G[s], G[s][k] \in Range(h2) \ X
        PROVE  /\ \A i \in DOMAIN q2 : Earlier(h2, G[s][k], q2[i])
               /\ \A i \in DOMAIN J : J[i].sub = s => Earlier(h2, G[s][k], J[i].ev)
               /\ \A l \in DOMAIN G[s] : k < l /\ G[s][l] \in Range(h2) \ X =>
                    Earlier(h2, G[s][k], G[s][l])
    <3>1. G[s][k] \in Range(h) \ X
      BY <2>2, <2>3
    <3>2. \A i \in DOMAIN q2 : Earlier(h2, G[s][k], q2[i])
      BY <1>4, <1>5, <1>7, <2>1, <3>1 DEF GotInOrder
    <3>3. \A i \in DOMAIN J : J[i].sub = s => Earlier(h2, G[s][k], J[i].ev)
      BY <1>5, <2>1, <3>1 DEF GotInOrder
    <3>4. \A l \in DOMAIN G[s] : k < l /\ G[s][l] \in Range(h2) \ X =>
            Earlier(h2, G[s][k], G[s][l])
      BY <1>5, <2>1, <2>2, <3>1 DEF GotInOrder
    <3> QED
      BY <3>2, <3>3, <3>4
  <2> QED
    BY <2>3 DEF GotInOrder
<1> QED
  BY <1>6, <1>8, <1>9, <1>10 DEF InOrder, h2, q2

\* Jobs with those of one more event: the earlier ones, then one per subscriber.
LEMMA JobsConcat ==
  ASSUME NEW w \in Dispatchers, NEW e \in Events, NEW J \in Seq(Job)
  PROVE  /\ J \o JobsOf(w, e) \in Seq(Job)
         /\ \A k \in DOMAIN (J \o JobsOf(w, e)) :
              \/ k \in DOMAIN J /\ k <= Len(J) /\ (J \o JobsOf(w, e))[k] = J[k]
              \/ /\ k > Len(J) /\ k - Len(J) \in DOMAIN Subscribers
                 /\ (J \o JobsOf(w, e))[k].ev = e
                 /\ (J \o JobsOf(w, e))[k].sub = Subscribers[k - Len(J)]
<1>1. Len(Subscribers) \in Nat /\ DOMAIN Subscribers = 1 .. Len(Subscribers)
      /\ \A k \in DOMAIN Subscribers : Subscribers[k] \in Subs
  BY SubscribersSeq, LenProperties
<1>2. PICK n \in Nat : n = Len(Subscribers)
  BY <1>1
<1>3. PICK new : new = JobsOf(w, e)
  OBVIOUS
<1>4. /\ new \in [1 .. n -> Job]
      /\ \A k \in 1 .. n : new[k].ev = e /\ new[k].sub = Subscribers[k]
  BY <1>1, <1>2, <1>3 DEF JobsOf, Job
<1>5. new \in Seq(Job)
  BY <1>4, SeqDef
<1>6. Len(new) = n /\ DOMAIN new = 1 .. n
  BY <1>4, <1>5, LenProperties
<1>7. Len(J) \in Nat /\ DOMAIN J = 1 .. Len(J)
  BY LenProperties
<1>8. /\ J \o new \in Seq(Job) /\ Len(J \o new) = Len(J) + n
      /\ \A i \in 1 .. Len(J) + n :
           (J \o new)[i] = IF i <= Len(J) THEN J[i] ELSE new[i - Len(J)]
  BY <1>5, <1>6, ConcatProperties
<1>9. DOMAIN (J \o new) = 1 .. Len(J) + n
  BY <1>8, LenProperties
<1>10. ASSUME NEW k \in DOMAIN (J \o new)
       PROVE  \/ k \in DOMAIN J /\ k <= Len(J) /\ (J \o new)[k] = J[k]
              \/ /\ k > Len(J) /\ k - Len(J) \in DOMAIN Subscribers
                 /\ (J \o new)[k].ev = e
                 /\ (J \o new)[k].sub = Subscribers[k - Len(J)]
  <2>1. CASE k <= Len(J)
    BY <1>7, <1>8, <1>9, <1>10, <2>1
  <2>2. CASE ~ (k <= Len(J))
    <3>1. k - Len(J) \in 1 .. n /\ (J \o new)[k] = new[k - Len(J)] /\ k > Len(J)
      BY <1>7, <1>8, <1>9, <1>10, <2>2
    <3> QED
      BY <1>1, <1>2, <1>4, <3>1
  <2> QED
    BY <2>1, <2>2
<1> QED
  BY <1>3, <1>8, <1>10

\* An event that is taken off the queue and becomes a job per subscriber.
LEMMA OrderTaken ==
  ASSUME NEW h, NEW q \in Seq(Events), NEW J \in Seq(Job), NEW G, NEW X, NEW w \in Dispatchers,
         InOrder(h, q, J, G, X), q # <<>>
  PROVE  InOrder(h, Tail(q), J \o JobsOf(w, Head(q)), G, X)
<1>1. /\ Head(q) \in Events /\ 1 \in DOMAIN q /\ q[1] = Head(q)
      /\ \A i \in DOMAIN Tail(q) : i + 1 \in DOMAIN q /\ 1 < i + 1 /\ Tail(q)[i] = q[i + 1]
      /\ Thinned(Tail(q), q)
  BY ThinnedTail
<1>2. PICK e \in Events : e = Head(q)
  BY <1>1
<1>3. PICK D : D = J \o JobsOf(w, e)
  OBVIOUS
<1>4. \A k \in DOMAIN D :
         \/ k \in DOMAIN J /\ k <= Len(J) /\ D[k] = J[k]
         \/ /\ k > Len(J) /\ k - Len(J) \in DOMAIN Subscribers
            /\ D[k].ev = e /\ D[k].sub = Subscribers[k - Len(J)]
  BY <1>3, JobsConcat
<1>5. Len(J) \in Nat /\ DOMAIN J = 1 .. Len(J) /\ DOMAIN Subscribers \subseteq Int
  BY SubscribersSeq, LenProperties
<1>6. Thinned(J, J)
  BY ThinnedSelf
<1>7. PICK q2 : q2 = Tail(q)
  OBVIOUS
<1>8. InOrder(h, q2, J, G, X)
  BY <1>1, <1>6, <1>7, OrderThinned
<1>9. /\ IsInjective(h) /\ QueueInOrder(h, q2) /\ JobsInOrder(h, q2, J)
      /\ \A s \in Subs : GotInOrder(h, q2, J, G[s], s, X)
  BY <1>8 DEF InOrder
<1>10. /\ QueueInOrder(h, q) /\ JobsInOrder(h, q, J)
       /\ \A s \in Subs : GotInOrder(h, q, J, G[s], s, X)
  BY DEF InOrder
<1>11. e \in Range(h) /\ \A i \in DOMAIN q2 : Earlier(h, e, q2[i])
  BY <1>1, <1>2, <1>7, <1>10 DEF QueueInOrder
<1>12. \A k \in DOMAIN J : Earlier(h, J[k].ev, e)
  BY <1>1, <1>2, <1>10 DEF JobsInOrder
<1>13. JobsInOrder(h, q2, D)
  <2>1. \A k \in DOMAIN D : D[k].ev \in Range(h) /\ \A i \in DOMAIN q2 : Earlier(h, D[k].ev, q2[i])
    BY <1>4, <1>9, <1>11 DEF JobsInOrder
  <2>2. ASSUME NEW j \in DOMAIN D, NEW k \in DOMAIN D, j < k, D[j].sub = D[k].sub
        PROVE  Earlier(h, D[j].ev, D[k].ev)
    <3>1. CASE j \in DOMAIN J /\ D[j] = J[j] /\ k \in DOMAIN J /\ D[k] = J[k]
      BY <1>9, <2>2, <3>1 DEF JobsInOrder
    <3>2. CASE j \in DOMAIN J /\ D[j] = J[j] /\ D[k].ev = e
      BY <1>12, <3>2
    <3>3. ASSUME j > Len(J), k \in DOMAIN J
          PROVE  FALSE
      BY <1>5, <2>2, <3>3
    <3>4. ASSUME j - Len(J) \in DOMAIN Subscribers, k - Len(J) \in DOMAIN Subscribers,
                 D[j].sub = Subscribers[j - Len(J)], D[k].sub = Subscribers[k - Len(J)]
          PROVE  FALSE
      <4>1. j - Len(J) = k - Len(J)
        BY <2>2, <3>4, DeliveryConstants DEF IsInjective
      <4>2. j \in Int /\ k \in Int
        BY <1>3, <1>2, JobsConcat, LenProperties
      <4> QED
        BY <1>5, <2>2, <4>1, <4>2
    <3> QED
      BY <1>4, <3>1, <3>2, <3>3, <3>4
  <2> QED
    BY <2>1, <2>2 DEF JobsInOrder
<1>14. ASSUME NEW s \in Subs
       PROVE  GotInOrder(h, q2, D, G[s], s, X)
  <2>1. GotInOrder(h, q2, J, G[s], s, X)
    BY <1>9
  <2>2. \A k \in DOMAIN G[s] : G[s][k] \in Range(h) \ X => Earlier(h, G[s][k], e)
    <3>1. GotInOrder(h, q, J, G[s], s, X)
      BY <1>10
    <3> QED
      BY <1>1, <1>2, <3>1 DEF GotInOrder
  <2> QED
    BY <1>4, <2>1, <2>2 DEF GotInOrder
<1>15. InOrder(h, q2, D, G, X)
  BY <1>9, <1>13, <1>14 DEF InOrder
<1> QED
  BY <1>2, <1>3, <1>7, <1>15

\* What is appended to what a subscriber was called with.
LEMMA CalledWith ==
  ASSUME NEW G \in [Subs -> Seq(Events)], NEW s \in Subs, NEW e \in Events
  PROVE  LET G2 == [G EXCEPT ![s] = Append(@, e)] IN
         /\ \A t \in Subs : t # s => G2[t] = G[t]
         /\ DOMAIN G2[s] = 1 .. Len(G[s]) + 1 /\ G2[s][Len(G[s]) + 1] = e
         /\ Len(G[s]) \in Nat /\ DOMAIN G[s] = 1 .. Len(G[s])
         /\ \A k \in DOMAIN G[s] : G2[s][k] = G[s][k]
BY AppendProperties, LenProperties

\* A job that starts.
LEMMA OrderStarted ==
  ASSUME NEW h, NEW q, NEW J \in Seq(Job), NEW G \in [Subs -> Seq(Events)], NEW X,
         NEW s \in Subs, NEW e \in Events,
         InOrder(h, q, J, G, X), J # <<>>, Head(J).sub = s, Head(J).ev = e
  PROVE  InOrder(h, q, Tail(J), [G EXCEPT ![s] = Append(@, e)], X)
<1>1. /\ 1 \in DOMAIN J /\ J[1] = Head(J)
      /\ \A i \in DOMAIN Tail(J) : i + 1 \in DOMAIN J /\ 1 < i + 1 /\ Tail(J)[i] = J[i + 1]
      /\ Thinned(Tail(J), J)
  BY ThinnedTail
<1>2. PICK J2 : J2 = Tail(J)
  OBVIOUS
<1>3. PICK G2 : G2 = [G EXCEPT ![s] = Append(@, e)]
  OBVIOUS
<1>4. InOrder(h, q, J2, G, X)
  BY <1>1, <1>2, ThinnedSelf, OrderThinned
<1>5. /\ JobsInOrder(h, q, J) /\ \A t \in Subs : GotInOrder(h, q, J, G[t], t, X)
  BY DEF InOrder
<1>6. /\ IsInjective(h) /\ QueueInOrder(h, q) /\ JobsInOrder(h, q, J2)
      /\ \A t \in Subs : GotInOrder(h, q, J2, G[t], t, X)
  BY <1>4 DEF InOrder
<1>7. /\ \A i \in DOMAIN q : Earlier(h, e, q[i])
      /\ \A i \in DOMAIN J2 : J2[i].sub = s => Earlier(h, e, J2[i].ev)
      /\ \A k \in DOMAIN G[s] : G[s][k] \in Range(h) \ X => Earlier(h, G[s][k], e)
  <2>1. J[1].ev = e /\ J[1].sub = s
    BY <1>1
  <2> QED
    BY <1>1, <1>2, <1>5, <2>1 DEF JobsInOrder, GotInOrder
<1>8. /\ \A t \in Subs : t # s => G2[t] = G[t]
      /\ DOMAIN G2[s] = 1 .. Len(G[s]) + 1 /\ G2[s][Len(G[s]) + 1] = e
      /\ Len(G[s]) \in Nat /\ DOMAIN G[s] = 1 .. Len(G[s])
      /\ \A k \in DOMAIN G[s] : G2[s][k] = G[s][k]
  BY <1>3, CalledWith
<1>9. GotInOrder(h, q, J2, G2[s], s, X)
  <2>1. GotInOrder(h, q, J2, G[s], s, X)
    BY <1>6
  <2>2. ASSUME NEW k \in DOMAIN G2[s], G2[s][k] \in Range(h) \ X
        PROVE  /\ \A i \in DOMAIN q : Earlier(h, G2[s][k], q[i])
               /\ \A i \in DOMAIN J2 : J2[i].sub = s => Earlier(h, G2[s][k], J2[i].ev)
               /\ \A l \in DOMAIN G2[s] : k < l /\ G2[s][l] \in Range(h) \ X =>
                    Earlier(h, G2[s][k], G2[s][l])
    <3>1. CASE k = Len(G[s]) + 1
      <4>1. \A l \in DOMAIN G2[s] : ~ (k < l)
        BY <1>8, <3>1
      <4> QED
        BY <1>7, <1>8, <3>1, <4>1
    <3>2. CASE k # Len(G[s]) + 1
      <4>1. k \in DOMAIN G[s] /\ G2[s][k] = G[s][k]
        BY <1>8, <3>2
      <4>2. \A l \in DOMAIN G2[s] : \/ l \in DOMAIN G[s] /\ G2[s][l] = G[s][l]
                                    \/ G2[s][l] = e
        BY <1>8
      <4> QED
        BY <1>7, <2>1, <2>2, <4>1, <4>2 DEF GotInOrder
    <3> QED
      BY <3>1, <3>2
  <2> QED
    BY <2>2 DEF GotInOrder
<1>10. \A t \in Subs : GotInOrder(h, q, J2, G2[t], t, X)
  BY <1>6, <1>8, <1>9
<1>11. InOrder(h, q, J2, G2, X)
  BY <1>6, <1>10 DEF InOrder
<1> QED
  BY <1>2, <1>3, <1>11

\* A call on a caller's own thread.
LEMMA OrderInlined ==
  ASSUME NEW h, NEW q, NEW J, NEW G \in [Subs -> Seq(Events)], NEW X,
         NEW s \in Subs, NEW e \in Events,
         InOrder(h, q, J, G, X), e \notin Range(h) \ X
  PROVE  InOrder(h, q, J, [G EXCEPT ![s] = Append(@, e)], X)
<1>1. PICK G2 : G2 = [G EXCEPT ![s] = Append(@, e)]
  OBVIOUS
<1>2. /\ IsInjective(h) /\ QueueInOrder(h, q) /\ JobsInOrder(h, q, J)
      /\ \A t \in Subs : GotInOrder(h, q, J, G[t], t, X)
  BY DEF InOrder
<1>3. /\ \A t \in Subs : t # s => G2[t] = G[t]
      /\ DOMAIN G2[s] = 1 .. Len(G[s]) + 1 /\ G2[s][Len(G[s]) + 1] = e
      /\ Len(G[s]) \in Nat /\ DOMAIN G[s] = 1 .. Len(G[s])
      /\ \A k \in DOMAIN G[s] : G2[s][k] = G[s][k]
  BY <1>1, CalledWith
<1>4. \A k \in DOMAIN G2[s] : \/ k \in DOMAIN G[s] /\ G2[s][k] = G[s][k]
                              \/ G2[s][k] \notin Range(h) \ X
  BY <1>3
<1>5. GotInOrder(h, q, J, G2[s], s, X)
  <2>1. GotInOrder(h, q, J, G[s], s, X)
    BY <1>2
  <2> QED
    BY <1>4, <2>1 DEF GotInOrder
<1>6. \A t \in Subs : GotInOrder(h, q, J, G2[t], t, X)
  BY <1>2, <1>3, <1>5
<1>7. InOrder(h, q, J, G2, X)
  BY <1>2, <1>6 DEF InOrder
<1> QED
  BY <1>1, <1>7

-----------------------------------------------------------------------------
(* Types *)

LEMMA TypedShape == Typed => Shape
BY DeliveryConstants DEF Typed, TypeOK, CallTyped, Shape

\* A put that enters, before e0 and q as the step found or made them.
LEMMA TypedEnter ==
  ASSUME Typed, NEW e \in Events, NEW e0 \in [Events -> EnqPc], NEW q \in Seq(Events),
         Len(q) < QueueCap, Enter(e, e0, q), putters' \in Seq(Events),
         UNCHANGED <<policy, nextId, kind, worker, jobs, pool, got>>,
         UNCHANGED <<phase, late, stalls, stalled>>
  PROVE  Typed'
<1>1. TypeOK /\ CallTyped(call)
  BY DEF Typed
<1>2. CallTyped(call')
  BY <1>1, CallTypedReturned DEF Enter
<1>3. enq' \in [Events -> EnqPc]
  BY DEF Enter, EnqPc
<1>4. entered' \in Seq(Events)
  BY <1>1, AppendProperties DEF Enter, TypeOK
<1>5. queue' \in Seq(Events) /\ Len(queue') <= QueueCap
  <2>1. queue' = Append(q, e) /\ Len(q) \in Nat /\ QueueCap \in Nat
    BY DeliveryConstants, LenProperties DEF Enter
  <2>2. Append(q, e) \in Seq(Events) /\ Len(Append(q, e)) = Len(q) + 1
    BY AppendProperties
  <2> QED
    BY <2>1, <2>2
<1>6. TypeOK'
  BY <1>1, <1>2, <1>3, <1>4, <1>5 DEF TypeOK, CallTyped
<1> QED
  BY <1>2, <1>6 DEF Typed

\* The other steps of a put.
LEMMA TypedPut ==
  ASSUME Typed, enq' \in [Events -> EnqPc], putters' \in Seq(Events), CallTyped(call'),
         UNCHANGED <<policy, nextId, kind, queue, entered, worker, jobs, pool, got>>,
         UNCHANGED <<phase, late, stalls, stalled>>
  PROVE  Typed'
<1>1. TypeOK'
  BY DEF Typed, TypeOK, CallTyped
<1> QED
  BY <1>1 DEF Typed

LEMMA PuttersTyped ==
  ASSUME Typed, NEW e \in Events
  PROVE  /\ Append(putters, e) \in Seq(Events)
         /\ Wake => putters' \in Seq(Events)
         /\ Without(putters, e) \in Seq(Events)
<1>1. putters \in Seq(Events)
  BY DEF Typed, TypeOK
<1>2. Wake => putters' \in Seq(Events)
  BY <1>1, ThinnedTail, EmptySeq DEF Wake
<1>3. Without(putters, e) \in Seq(Events)
  <2>1. {k \in DOMAIN putters : putters[k] # e} \in SUBSET DOMAIN putters
    OBVIOUS
  <2> QED
    BY <1>1, <2>1, KeptThinned DEF Without
<1> QED
  BY <1>1, <1>2, <1>3, AppendProperties

LEMMA TypedPutStep ==
  ASSUME Typed, NEW e \in Events, PutStep(e) \/ PutTimesOut(e)
  PROVE  Typed'
<1>1. /\ UNCHANGED <<policy, nextId, kind, worker, jobs, pool, got>>
      /\ UNCHANGED <<phase, late, stalls, stalled>>
      /\ enq \in [Events -> EnqPc] /\ queue \in Seq(Events) /\ CallTyped(call)
      /\ putters \in Seq(Events) /\ Len(queue) <= QueueCap /\ QueueCap \in Nat \ {0}
      /\ Len(queue) \in Nat
  BY DeliveryConstants, LenProperties
     DEF PutStep, Enqueue, Resume, PutTimesOut, Typed, TypeOK, pools, closing
<1>2. CASE ~ Full /\ Enter(e, enq, queue) /\ UNCHANGED putters
  <2>1. Len(queue) < QueueCap
    BY <1>1, <1>2 DEF Full
  <2> QED
    BY <1>1, <1>2, <2>1, TypedEnter
<1>3. CASE Full /\ DropOldest(e)
  <2>1. queue # <<>>
    BY <1>1, <1>3, EmptySeq DEF Full
  <2>2. Tail(queue) \in Seq(Events) /\ Len(Tail(queue)) = Len(queue) - 1
    BY <1>1, <2>1, ThinnedTail
  <2>3. [enq EXCEPT ![Head(queue)] = "evicted"] \in [Events -> EnqPc]
    BY <1>1 DEF EnqPc, Dropped
  <2>4. Woken([enq EXCEPT ![Head(queue)] = "evicted"]) \in [Events -> EnqPc]
    BY <2>3, WokenEffect
  <2>5. putters' \in Seq(Events) /\ Len(Tail(queue)) < QueueCap
    BY <1>1, <1>3, <2>2, PuttersTyped DEF DropOldest
  <2> QED
    BY <1>1, <1>3, <2>2, <2>4, <2>5, TypedEnter DEF DropOldest
<1>4. CASE DropNewest(e)
  <2>1. enq' \in [Events -> EnqPc] /\ CallTyped(call') /\ putters' \in Seq(Events)
    BY <1>1, <1>4, CallTypedReturned DEF DropNewest, EnqPc, Dropped
  <2> QED
    BY <1>1, <1>4, <2>1, TypedPut DEF DropNewest
<1>5. CASE Wait(e)
  <2>1. enq' \in [Events -> EnqPc] /\ CallTyped(call') /\ putters' \in Seq(Events)
    BY <1>1, <1>5, PuttersTyped DEF Wait, EnqPc
  <2> QED
    BY <1>1, <1>5, <2>1, TypedPut DEF Wait
<1>6. CASE PutTimesOut(e)
  <2>1. PICK e0 \in [Events -> EnqPc] :
          /\ enq' = Woken(e0) \/ enq' = e0
          /\ Wake \/ putters' = Without(putters, e)
    BY <1>1, <1>6 DEF PutTimesOut, EnqPc, Dropped
  <2>2. enq' \in [Events -> EnqPc]
    BY <2>1, WokenEffect
  <2>3. putters' \in Seq(Events)
    BY <2>1, PuttersTyped
  <2>4. CallTyped(call') /\ UNCHANGED <<queue, entered>>
    BY <1>1, <1>6, CallTypedReturned DEF PutTimesOut
  <2> QED
    BY <1>1, <2>2, <2>3, <2>4, TypedPut
<1> QED
  BY <1>2, <1>3, <1>4, <1>5, <1>6 DEF PutStep, Enqueue, Resume

\* Steps that take an event off the queue, for a dispatcher or to drop it.
LEMMA TypedTaken ==
  ASSUME Typed, queue # <<>>, queue' = Tail(queue), enq' = Woken(enq), Wake,
         NEW w \in Dispatchers,
         \/ UNCHANGED <<worker, jobs>>
         \/ /\ worker' = [worker EXCEPT ![w] = Head(queue)]
            /\ jobs' = jobs \o JobsOf(w, Head(queue)),
         UNCHANGED <<policy, nextId, kind, call, entered, pool, got>>,
         UNCHANGED <<phase, late, stalls, stalled>>
  PROVE  Typed'
<1>1. TypeOK /\ CallTyped(call)
  BY DEF Typed
<1>2. /\ enq \in [Events -> EnqPc] /\ queue \in Seq(Events) /\ Len(queue) <= QueueCap
      /\ jobs \in Seq(Job) /\ Len(queue) \in Nat /\ QueueCap \in Nat
  BY <1>1, DeliveryConstants, LenProperties DEF TypeOK
<1>3. Head(queue) \in Events /\ queue' \in Seq(Events) /\ Len(queue') <= QueueCap
  BY <1>2, ThinnedTail
<1>4. enq' \in [Events -> EnqPc] /\ putters' \in Seq(Events)
  <2>1. enq' \in [Events -> EnqPc]
    BY <1>2, WokenEffect
  <2>2. putters' \in Seq(Events)
    BY <1>3, PuttersTyped
  <2> QED
    BY <2>1, <2>2
<1>5. jobs' \in Seq(Job) /\ worker' \in [Dispatchers -> Events \cup {Idle, Gone}]
  <2>1. jobs \o JobsOf(w, Head(queue)) \in Seq(Job)
    BY <1>2, <1>3, JobsConcat
  <2> QED
    BY <1>1, <1>2, <1>3, <2>1 DEF TypeOK
<1>6. TypeOK'
  BY <1>1, <1>3, <1>4, <1>5 DEF TypeOK
<1> QED
  BY <1>1, <1>6 DEF Typed

\* Jobs of dispatchers that are cancelled.
LEMMA CancelledEffect ==
  ASSUME NEW ws, jobs \in Seq(Job)
  PROVE  Cancelled(ws) \in Seq(Job) /\ Thinned(Cancelled(ws), jobs)
<1>1. {k \in DOMAIN jobs : jobs[k].by \notin ws} \in SUBSET DOMAIN jobs
  OBVIOUS
<1> QED
  BY <1>1, KeptThinned DEF Cancelled

LEMMA InitTyped == Init => Typed
<1> SUFFICES ASSUME Init PROVE Typed
  OBVIOUS
<1>1. <<>> \in Seq(Events) /\ <<>> \in Seq(Job) /\ <<>> \in Seq(Subs) /\ Len(<<>>) = 0
  BY EmptySeq
<1>2. NoCall \in [pc : {"idle", "sent", "inline"}, ev : 0 .. MaxEvents, left : Seq(Subs)]
      /\ NoCall.pc = "idle"
  BY <1>1, DeliveryConstants DEF NoCall
<1>3. CallTyped(call)
  BY <1>2 DEF Init, CallTyped
<1>4. TypeOK
  <2>1. /\ kind \in [Events -> {"none", "user", "plain", "critical"}]
        /\ enq \in [Events -> EnqPc]
        /\ worker \in [Dispatchers -> Events \cup {Idle, Gone}]
        /\ pool \in [Pool -> Job \cup {NoJob}]
        /\ got \in [Subs -> Seq(Events)]
    BY <1>1 DEF Init, EnqPc
  <2>2. /\ nextId \in 1 .. MaxEvents + 1 /\ stalls \in 0 .. MaxStalls
        /\ Len(queue) <= QueueCap
    BY <1>1, DeliveryConstants DEF Init
  <2> QED
    BY <1>1, <1>3, <2>1, <2>2 DEF Init, TypeOK, CallTyped
<1> QED
  BY <1>3, <1>4 DEF Typed

LEMMA NextTyped == Typed /\ [Next]_vars => Typed'
<1> SUFFICES ASSUME Typed, [Next]_vars PROVE Typed'
  OBVIOUS
<1>1. TypeOK /\ CallTyped(call) /\ Shape
  BY TypedShape DEF Typed
<1>2. CASE UNCHANGED vars
  BY <1>1, <1>2 DEF Typed, TypeOK, CallTyped, vars
<1>3. ASSUME NEW c \in Callers, NEW k \in {"user", "plain", "critical"}, AddEvent(c, k)
      PROVE  Typed'
  <2>1. CallTyped(call')
    BY <1>1, <1>3, AddEventEffect
  <2>2. /\ nextId' \in 1 .. MaxEvents + 1 /\ enq' \in [Events -> EnqPc]
        /\ kind' \in [Events -> {"none", "user", "plain", "critical"}]
    <3>1. nextId \in 1 .. MaxEvents /\ nextId' = nextId + 1
      BY <1>3 DEF AddEvent, Events
    <3>2. nextId' \in 1 .. MaxEvents + 1
      BY <3>1, DeliveryConstants
    <3> QED
      BY <1>1, <1>3, <3>2 DEF AddEvent, TypeOK, EnqPc
  <2>3. TypeOK'
    BY <1>1, <1>3, <2>1, <2>2 DEF AddEvent, TypeOK, CallTyped, pools, closing
  <2> QED
    BY <2>1, <2>3 DEF Typed
<1>4. ASSUME NEW c \in Callers, InlineNext(c)
      PROVE  Typed'
  <2>1. /\ CallTyped(call') /\ Called(Head(call[c].left), call[c].ev)
        /\ call[c].ev \in Events /\ call[c].left \in Seq(Subs) /\ call[c].left # <<>>
    BY <1>1, <1>4, InlineNextEffect
  <2>2. Head(call[c].left) \in Subs
    BY <2>1, ThinnedTail
  <2>3. got' \in [Subs -> Seq(Events)]
    BY <1>1, <2>1, <2>2, CalledEffect
  <2>4. TypeOK'
    BY <1>1, <1>4, <2>1, <2>3 DEF InlineNext, TypeOK, CallTyped, loop, closing
  <2> QED
    BY <2>1, <2>4 DEF Typed
<1>5. ASSUME NEW c \in Callers, CallerGivesUp(c)
      PROVE  Typed'
  <2>1. CallTyped(call') /\ call[c].ev \in Events
    BY <1>1, <1>5, GivesUpEffect
  <2>2. stalls' \in 0 .. MaxStalls /\ stalled' \in SUBSET Events
    BY <1>1, <1>5, <2>1, DeliveryConstants DEF CallerGivesUp, TypeOK
  <2>3. TypeOK'
    BY <1>1, <1>5, <2>1, <2>2 DEF CallerGivesUp, TypeOK, CallTyped, pools, loop, closing
  <2> QED
    BY <2>1, <2>3 DEF Typed
<1>6. ASSUME NEW e \in Events, PutStep(e) \/ PutTimesOut(e)
      PROVE  Typed'
  BY <1>6, TypedPutStep
<1>7. ASSUME NEW w \in Workers, TakeEvent(w)
      PROVE  Typed'
  BY <1>7, TypedTaken DEF TakeEvent, callers, closing, Dispatchers
<1>8. ASSUME NEW w \in Dispatchers, DispatchDone(w)
      PROVE  Typed'
  <2>1. worker' \in [Dispatchers -> Events \cup {Idle, Gone}]
    BY <1>1, <1>8 DEF DispatchDone, TypeOK
  <2>2. TypeOK' /\ CallTyped(call')
    BY <1>1, <1>8, <2>1 DEF DispatchDone, TypeOK, callers, loop, pools, closing
  <2> QED
    BY <2>2 DEF Typed
<1>9. ASSUME NEW t \in Pool, StartJob(t)
      PROVE  Typed'
  <2>1. Head(jobs) \in Job /\ Tail(jobs) \in Seq(Job)
    BY <1>1, <1>9, ThinnedTail DEF StartJob, TypeOK
  <2>2. Head(jobs).sub \in Subs /\ Head(jobs).ev \in Events
    BY <2>1 DEF Job
  <2>3. got' \in [Subs -> Seq(Events)]
    BY <1>1, <1>9, <2>2, CalledEffect DEF StartJob
  <2>4. pool' \in [Pool -> Job \cup {NoJob}]
    BY <1>1, <1>9, <2>1 DEF StartJob, TypeOK
  <2>5. TypeOK' /\ CallTyped(call')
    BY <1>1, <1>9, <2>1, <2>3, <2>4 DEF StartJob, TypeOK, callers, loop, closing
  <2> QED
    BY <2>5 DEF Typed
<1>10. ASSUME NEW t \in Pool, EndJob(t)
       PROVE  Typed'
  <2>1. pool' \in [Pool -> Job \cup {NoJob}]
    BY <1>1, <1>10 DEF EndJob, TypeOK
  <2>2. TypeOK' /\ CallTyped(call')
    BY <1>1, <1>10, <2>1 DEF EndJob, TypeOK, callers, loop, closing
  <2> QED
    BY <2>2 DEF Typed
<1>11. CASE CloseBegin \/ DrainEnd \/ CloseEnd
  <2>1. TypeOK' /\ CallTyped(call')
    BY <1>1, <1>11 DEF CloseBegin, DrainEnd, CloseEnd, TypeOK, callers, loop, pools
  <2> QED
    BY <2>1 DEF Typed
<1>12. CASE ShutdownBegin \/ DrainTimesOut
  <2>1. jobs' \in Seq(Job)
    BY <1>1, <1>12, CancelledEffect DEF ShutdownBegin, DrainTimesOut, TypeOK
  <2>2. worker' \in [Dispatchers -> Events \cup {Idle, Gone}]
    BY <1>1, <1>12 DEF ShutdownBegin, DrainTimesOut, TypeOK
  <2>3. TypeOK' /\ CallTyped(call')
    BY <1>1, <1>12, <2>1, <2>2 DEF ShutdownBegin, DrainTimesOut, TypeOK, callers, loop
  <2> QED
    BY <2>3 DEF Typed
<1>13. CASE DrainTake
  BY <1>13, TypedTaken DEF DrainTake, callers, closing, Dispatchers
<1> QED
  BY <1>2, <1>3, <1>4, <1>5, <1>6, <1>7, <1>8, <1>9, <1>10, <1>11, <1>12, <1>13
     DEF Next, WorkerStep, CloseStep, DrainStep, Dispatchers

\* What the stream, its queue, its workers and the callers hold has its type, and the queue
\* never more than max_queue_size: a put that was woken checks for its place again.
THEOREM DeliveryTypes == Spec => []TypeOK
<1>1. Typed => TypeOK
  BY DEF Typed
<1> QED
  BY <1>1, InitTyped, NextTyped, PTL DEF Spec

-----------------------------------------------------------------------------
(* The steps keep order, and call nobody twice *)

\* Of what has entered nothing is before itself.
LEMMA NotBeforeItself ==
  ASSUME NEW h \in Seq(Events), IsInjective(h), NEW a
  PROVE  ~ Earlier(h, a, a)
<1>1. DOMAIN h \subseteq Int
  BY LenProperties
<1> QED
  BY <1>1 DEF Earlier, IsInjective

\* A callback's call reaches nobody else, and is the first one if nobody was reached.
LEMMA CalledOnce ==
  ASSUME Typed, NEW s \in Subs, NEW e \in Events, Called(s, e)
  PROVE  /\ \A t \in Subs, x \in Events : Reached(t, x)' => Reached(t, x) \/ (t = s /\ x = e)
         /\ DeliveredOnce /\ stalled' = stalled /\ (e \in stalled \/ ~ Reached(s, e))
              => DeliveredOnce'
<1>1. got \in [Subs -> Seq(Events)] /\ got' = [got EXCEPT ![s] = Append(@, e)]
  BY DEF Typed, TypeOK, Called
<1>2. /\ \A t \in Subs : t # s => got'[t] = got[t]
      /\ DOMAIN got'[s] = 1 .. Len(got[s]) + 1 /\ got'[s][Len(got[s]) + 1] = e
      /\ Len(got[s]) \in Nat /\ DOMAIN got[s] = 1 .. Len(got[s])
      /\ \A k \in DOMAIN got[s] : got'[s][k] = got[s][k]
  BY <1>1, CalledWith
<1>3. \A t \in Subs, x \in Events : Reached(t, x)' => Reached(t, x) \/ (t = s /\ x = e)
  <2>1. \A k \in DOMAIN got'[s] : got'[s][k] = e \/ (k \in DOMAIN got[s] /\ got'[s][k] = got[s][k])
    BY <1>2
  <2> QED
    BY <1>2, <2>1 DEF Reached
<1>4. ASSUME DeliveredOnce, stalled' = stalled, e \in stalled \/ ~ Reached(s, e)
      PROVE  DeliveredOnce'
  <2> SUFFICES ASSUME NEW t \in Subs, NEW j \in DOMAIN got'[t], NEW k \in DOMAIN got'[t],
                      j < k, got'[t][j] = got'[t][k]
               PROVE  got'[t][j] \in stalled
    BY <1>4 DEF DeliveredOnce
  <2>1. CASE t # s
    BY <1>2, <1>4, <2>1 DEF DeliveredOnce
  <2>2. CASE t = s
    <3>1. j \in DOMAIN got[s] /\ got'[s][j] = got[s][j]
      BY <1>2, <2>2
    <3>2. CASE k = Len(got[s]) + 1
      BY <1>2, <1>4, <2>2, <3>1, <3>2 DEF Reached
    <3>3. CASE k # Len(got[s]) + 1
      <4>1. k \in DOMAIN got[s] /\ got'[s][k] = got[s][k]
        BY <1>2, <2>2, <3>3
      <4> QED
        BY <1>4, <2>2, <3>1, <4>1 DEF DeliveredOnce
    <3> QED
      BY <3>2, <3>3
  <2> QED
    BY <2>1, <2>2
<1> QED
  BY <1>3, <1>4

LEMMA SameSound ==
  ASSUME Sound, Typed',
         UNCHANGED <<nextId, call, enq, putters, queue, jobs, got, entered, stalled>>
  PROVE  Sound'
BY DEF Sound, Puts, Fresh, NotYet, InlineOnce, DeliveredOnce, Reached

LEMMA AddEventSound ==
  ASSUME Sound, Typed', NEW c \in Callers, NEW k \in {"user", "plain", "critical"}, AddEvent(c, k)
  PROVE  Sound'
<1>1. /\ Typed /\ InOrder(entered, queue, jobs, got, stalled)
      /\ Puts /\ Fresh /\ InlineOnce /\ DeliveredOnce
      /\ enq \in [Events -> EnqPc] /\ putters \in Seq(Events) /\ entered \in Seq(Events)
      /\ nextId \in Int /\ CallTyped(call) /\ call[c].pc = "idle"
  <2>1. /\ Typed /\ InOrder(entered, queue, jobs, got, stalled)
        /\ Puts /\ Fresh /\ InlineOnce /\ DeliveredOnce
    BY DEF Sound
  <2>2. /\ TypeOK /\ CallTyped(call) /\ call[c].pc = "idle"
    BY <2>1 DEF Typed, AddEvent, MayCall
  <2> QED
    BY <2>1, <2>2, DeliveryConstants DEF TypeOK
<1>2. /\ nextId \in Events /\ nextId' = nextId + 1
      /\ UNCHANGED <<putters, queue, jobs, got, entered, stalled>>
      /\ enq' = enq \/ enq' = [enq EXCEPT ![nextId] = "new"]
  BY DEF AddEvent, pools
<1>3. /\ \A d \in Callers : d # c => call'[d] = call[d]
      /\ call'[c].pc # "idle" => call'[c].ev = nextId
      /\ call'[c].pc = "inline" => call'[c].left = Subscribers /\ enq' = enq
  BY <1>1, AddEventEffect
<1>4. /\ enq[nextId] = "none" /\ nextId \notin stalled /\ NotYet(nextId)
      /\ \A d \in Callers : call[d].pc # "idle" => call[d].ev # nextId
      /\ \A x \in Events : x # nextId => enq'[x] = enq[x]
  BY <1>1, <1>2 DEF Fresh
<1>5. Puts'
  <2>1. /\ \A j \in DOMAIN putters : putters[j] \in Events /\ putters[j] # nextId
        /\ \A x \in Range(entered) : x \in Events /\ x # nextId
    BY <1>1, <1>4, LenProperties DEF Puts, Range
  <2> QED
    BY <1>1, <1>2, <1>4, <2>1 DEF Puts
<1>6. Fresh'
  <2> SUFFICES ASSUME NEW e \in Events
               PROVE  /\ enq'[e] \in Outside /\ e \notin stalled' => NotYet(e)'
                      /\ e >= nextId' =>
                           /\ enq'[e] = "none" /\ e \notin stalled' /\ NotYet(e)'
                           /\ \A d \in Callers : call'[d].pc # "idle" => call'[d].ev # e
    BY DEF Fresh
  <2>1. NotYet(e)' <=> NotYet(e)
    BY <1>2 DEF NotYet, Reached
  <2>2. CASE e = nextId
    BY <1>1, <1>2, <1>4, <2>1, <2>2
  <2>3. CASE e # nextId
    <3>1. e >= nextId' => e >= nextId
      BY <1>1, <1>2 DEF Events
    <3> QED
      BY <1>1, <1>2, <1>3, <1>4, <2>1, <2>3, <3>1 DEF Fresh
  <2> QED
    BY <2>2, <2>3
<1>7. InlineOnce'
  <2> SUFFICES ASSUME NEW d \in Callers, call'[d].pc = "inline", call'[d].ev \notin stalled
               PROVE  /\ enq'[call'[d].ev] = "none"
                      /\ IsInjective(call'[d].left)
                      /\ \A j \in DOMAIN call'[d].left : ~ Reached(call'[d].left[j], call'[d].ev)
                      /\ \A b \in Callers :
                           call'[b].pc # "idle" /\ call'[b].ev = call'[d].ev => b = d
    BY <1>2 DEF InlineOnce, Reached
  <2>1. CASE d = c
    <3>1. call'[c].ev = nextId /\ call'[c].left = Subscribers /\ enq' = enq
      BY <1>3, <2>1
    <3>2. \A j \in DOMAIN Subscribers : Subscribers[j] \in Subs
      BY DEF Subs, Range
    <3> QED
      BY <1>3, <1>4, <2>1, <3>1, <3>2, DeliveryConstants DEF NotYet
  <2>2. CASE d # c
    <3>1. call'[d] = call[d] /\ call[d].ev \in Events /\ call[d].ev # nextId
      BY <1>1, <1>3, <1>4, <2>2 DEF CallTyped
    <3>2. \A b \in Callers : call'[b].pc # "idle" /\ call'[b].ev = call[d].ev => b # c
      BY <1>3, <3>1
    <3> QED
      BY <1>1, <1>3, <1>4, <3>1, <3>2 DEF InlineOnce
  <2> QED
    BY <2>1, <2>2
<1>8. DeliveredOnce'
  BY <1>1, <1>2 DEF DeliveredOnce
<1> QED
  BY <1>1, <1>2, <1>5, <1>6, <1>7, <1>8 DEF Sound

LEMMA GivesUpSound ==
  ASSUME Sound, Typed', NEW c \in Callers, CallerGivesUp(c)
  PROVE  Sound'
<1>1. /\ Typed /\ InOrder(entered, queue, jobs, got, stalled)
      /\ Puts /\ Fresh /\ InlineOnce /\ DeliveredOnce /\ CallTyped(call)
  BY DEF Sound, Typed
<1>2. /\ UNCHANGED <<nextId, enq, putters, queue, jobs, got, entered>>
      /\ stalled' = stalled \cup {call[c].ev}
  BY DEF CallerGivesUp, loop, pools
<1>3. /\ call[c].ev \in Events /\ call[c].pc = "sent"
      /\ \A d \in Callers : d # c => call'[d] = call[d]
      /\ call'[c].pc # "idle" => call'[c].pc = "inline" /\ call'[c].ev = call[c].ev
  BY <1>1, GivesUpEffect
<1>4. InOrder(entered, queue, jobs, got, stalled')
  BY <1>1, <1>2, ThinnedSelf, OrderThinned
<1>5. Puts' /\ DeliveredOnce'
  BY <1>1, <1>2 DEF Puts, DeliveredOnce
<1>6. Fresh'
  BY <1>1, <1>2, <1>3 DEF Fresh, NotYet, Reached
<1>7. InlineOnce'
  BY <1>1, <1>2, <1>3 DEF InlineOnce, Reached
<1> QED
  BY <1>2, <1>4, <1>5, <1>6, <1>7 DEF Sound

LEMMA InlineNextSound ==
  ASSUME Sound, Typed', NEW c \in Callers, InlineNext(c)
  PROVE  Sound'
<1>1. /\ Typed /\ InOrder(entered, queue, jobs, got, stalled)
      /\ Puts /\ Fresh /\ InlineOnce /\ DeliveredOnce /\ CallTyped(call)
      /\ got \in [Subs -> Seq(Events)] /\ nextId \in Int /\ entered \in Seq(Events)
  <2>1. /\ Typed /\ InOrder(entered, queue, jobs, got, stalled)
        /\ Puts /\ Fresh /\ InlineOnce /\ DeliveredOnce
    BY DEF Sound
  <2>2. TypeOK /\ CallTyped(call)
    BY <2>1 DEF Typed
  <2> QED
    BY <2>1, <2>2, DeliveryConstants DEF TypeOK
<1>2. UNCHANGED <<nextId, enq, putters, queue, jobs, entered, stalled>>
  BY DEF InlineNext, loop
<1>3. PICK e \in Events, left \in Seq(Subs) :
        /\ call[c].pc = "inline" /\ call[c].ev = e /\ call[c].left = left /\ left # <<>>
        /\ Called(Head(left), e)
        /\ \A d \in Callers : d # c => call'[d] = call[d]
        /\ call'[c].pc # "idle" => /\ call'[c].pc = "inline"
                                   /\ call'[c].ev = e /\ call'[c].left = Tail(left)
  BY <1>1, InlineNextEffect
<1>4. /\ Head(left) \in Subs /\ 1 \in DOMAIN left /\ left[1] = Head(left)
      /\ \A i \in DOMAIN Tail(left) : i + 1 \in DOMAIN left /\ 1 < i + 1 /\ Tail(left)[i] = left[i + 1]
      /\ Thinned(Tail(left), left) /\ Tail(left) \in Seq(Subs)
  BY <1>3, ThinnedTail
<1>5. PICK s \in Subs : s = Head(left)
  BY <1>4
<1>6. /\ \A t \in Subs, x \in Events : Reached(t, x)' => Reached(t, x) \/ (t = s /\ x = e)
      /\ DeliveredOnce /\ stalled' = stalled /\ (e \in stalled \/ ~ Reached(s, e))
           => DeliveredOnce'
  BY <1>1, <1>3, <1>5, CalledOnce
<1>7. e \notin stalled => /\ enq[e] = "none" /\ ~ Reached(s, e) /\ IsInjective(left)
                          /\ \A i \in DOMAIN left : ~ Reached(left[i], e)
                          /\ \A d \in Callers : call[d].pc # "idle" /\ call[d].ev = e => d = c
  BY <1>1, <1>3, <1>4, <1>5 DEF InlineOnce
<1>8. InOrder(entered, queue, jobs, got', stalled)
  <2>1. e \notin Range(entered) \ stalled
    BY <1>1, <1>7 DEF Puts
  <2>2. got' = [got EXCEPT ![s] = Append(@, e)]
    BY <1>3, <1>5 DEF Called
  <2> QED
    BY <1>1, <2>1, <2>2, OrderInlined
<1>9. Puts' /\ DeliveredOnce'
  BY <1>1, <1>2, <1>6, <1>7 DEF Puts
<1>10. Fresh'
  <2> SUFFICES ASSUME NEW x \in Events
               PROVE  /\ enq[x] \in Outside /\ x \notin stalled => NotYet(x)'
                      /\ x >= nextId =>
                           /\ enq[x] = "none" /\ x \notin stalled /\ NotYet(x)'
                           /\ \A d \in Callers : call'[d].pc # "idle" => call'[d].ev # x
    BY <1>2 DEF Fresh
  <2>1. CASE x = e
    <3>1. ~ (x >= nextId)
      BY <1>1, <1>3, <2>1 DEF Fresh
    <3> QED
      BY <1>7, <2>1, <3>1 DEF Outside
  <2>2. CASE x # e
    <3>1. NotYet(x) => NotYet(x)'
      BY <1>6, <2>2 DEF NotYet
    <3> QED
      BY <1>1, <1>3, <2>2, <3>1 DEF Fresh
  <2> QED
    BY <2>1, <2>2
<1>11. InlineOnce'
  <2> SUFFICES ASSUME NEW d \in Callers, call'[d].pc = "inline", call'[d].ev \notin stalled
               PROVE  /\ enq[call'[d].ev] = "none"
                      /\ IsInjective(call'[d].left)
                      /\ \A j \in DOMAIN call'[d].left : ~ Reached(call[d].left[j], call[d].ev)'
                      /\ \A b \in Callers :
                           call'[b].pc # "idle" /\ call'[b].ev = call'[d].ev => b = d
    BY <1>2 DEF InlineOnce
  <2>1. CASE d = c
    <3>1. call'[c].ev = e /\ call'[c].left = Tail(left) /\ e \notin stalled
      BY <1>3, <2>1
    <3>2. IsInjective(Tail(left))
      BY <1>4, <1>7, <3>1, ThinnedInjective
    <3>3. ASSUME NEW j \in DOMAIN Tail(left)
          PROVE  ~ Reached(Tail(left)[j], e)'
      <4>1. Tail(left)[j] \in Subs /\ Tail(left)[j] = left[j + 1] /\ j + 1 \in DOMAIN left
            /\ 1 < j + 1
        BY <1>4, LenProperties
      <4>2. Tail(left)[j] # s
        BY <1>4, <1>5, <1>7, <3>1, <4>1 DEF IsInjective
      <4>3. ~ Reached(Tail(left)[j], e)
        BY <1>7, <3>1, <4>1
      <4> QED
        BY <1>6, <4>1, <4>2, <4>3
    <3>4. \A b \in Callers : call'[b].pc # "idle" /\ call'[b].ev = e => b = c
      BY <1>3, <1>7, <3>1
    <3> QED
      BY <1>7, <2>1, <3>1, <3>2, <3>3, <3>4
  <2>2. CASE d # c
    <3>1. PICK x \in Events, rest \in Seq(Subs) :
            /\ call[d].pc = "inline" /\ call[d].ev = x /\ call[d].left = rest
            /\ call'[d] = call[d] /\ x \notin stalled
      BY <1>1, <1>3, <2>2 DEF CallTyped
    <3>2. /\ enq[x] = "none" /\ IsInjective(rest)
          /\ \A j \in DOMAIN rest : ~ Reached(rest[j], x)
          /\ \A b \in Callers : call[b].pc # "idle" /\ call[b].ev = x => b = d
      BY <1>1, <3>1 DEF InlineOnce
    <3>3. x # e
      BY <1>3, <2>2, <3>2
    <3>4. \A j \in DOMAIN rest : rest[j] \in Subs /\ ~ Reached(rest[j], x)'
      BY <1>6, <3>2, <3>3, LenProperties
    <3>5. \A b \in Callers : call'[b].pc # "idle" /\ call'[b].ev = x => b = d
      BY <1>3, <3>2, <3>3
    <3> QED
      BY <3>1, <3>2, <3>4, <3>5
  <2> QED
    BY <2>1, <2>2
<1> QED
  BY <1>2, <1>8, <1>9, <1>10, <1>11 DEF Sound

\* Steps of the queue loop: no event gets out of the queue again, or is taken for a new one.
LEMMA LoopSound ==
  ASSUME Sound, Typed', NEW e \in Events, call' = call \/ call' = Returned(e),
         UNCHANGED <<nextId, got, stalled>>,
         InOrder(entered', queue', jobs', got, stalled),
         IsInjective(putters'), \A k \in DOMAIN putters' : enq'[putters'[k]] = "put",
         \A x \in Range(entered') : enq'[x] \in {"entered", "evicted"},
         \A x \in Events : /\ enq'[x] \in Outside => enq[x] \in Outside
                           /\ enq[x] = "none" => enq'[x] = "none"
  PROVE  Sound'
<1>1. /\ CallTyped(call) /\ Fresh /\ InlineOnce /\ DeliveredOnce
  BY DEF Sound, Typed
<1>2. \A c \in Callers : call'[c].pc # "idle" => call'[c] = call[c]
  BY <1>1, CallTypedReturned
<1>3. Puts'
  BY DEF Puts
<1>4. Fresh'
  BY <1>1, <1>2 DEF Fresh, NotYet, Reached
<1>5. InlineOnce'
  <2> SUFFICES ASSUME NEW d \in Callers, call'[d].pc = "inline", call'[d].ev \notin stalled
               PROVE  /\ enq'[call'[d].ev] = "none"
                      /\ IsInjective(call'[d].left)
                      /\ \A j \in DOMAIN call'[d].left : ~ Reached(call'[d].left[j], call'[d].ev)
                      /\ \A b \in Callers :
                           call'[b].pc # "idle" /\ call'[b].ev = call'[d].ev => b = d
    BY DEF InlineOnce, Reached
  <2>1. call'[d] = call[d] /\ call[d].ev \in Events
    BY <1>1, <1>2 DEF CallTyped
  <2>2. /\ enq[call[d].ev] = "none" /\ IsInjective(call[d].left)
        /\ \A j \in DOMAIN call[d].left : ~ Reached(call[d].left[j], call[d].ev)
        /\ \A b \in Callers : call[b].pc # "idle" /\ call[b].ev = call[d].ev => b = d
    BY <1>1, <2>1 DEF InlineOnce
  <2> QED
    BY <1>2, <2>1, <2>2
<1>6. DeliveredOnce'
  BY <1>1 DEF DeliveredOnce
<1> QED
  BY <1>3, <1>4, <1>5, <1>6 DEF Sound

\* The first waiting put is woken and waits no more.
LEMMA WokenPuts ==
  ASSUME Typed, Puts, Wake, NEW e0 \in [Events -> EnqPc],
         \A k \in DOMAIN putters : e0[putters[k]] = "put"
  PROVE  /\ \A x \in Events : Woken(e0)[x] = e0[x] \/ (e0[x] = "put" /\ Woken(e0)[x] = "woken")
         /\ IsInjective(putters')
         /\ \A k \in DOMAIN putters' : /\ putters'[k] \in Range(putters)
                                       /\ Woken(e0)[putters'[k]] = "put"
<1>1. putters \in Seq(Events) /\ IsInjective(putters)
  BY DEF Typed, TypeOK, Puts
<1>2. CASE putters = <<>>
  <2>1. Woken(e0) = e0 /\ putters' = putters
    BY <1>2 DEF Woken, Wake
  <2> QED
    BY <1>1, <2>1 DEF Range
<1>3. CASE putters # <<>>
  <2>1. putters' = Tail(putters) /\ Woken(e0) = [e0 EXCEPT ![Head(putters)] = "woken"]
    BY <1>3 DEF Woken, Wake
  <2>2. /\ Head(putters) \in Events /\ 1 \in DOMAIN putters /\ putters[1] = Head(putters)
        /\ \A i \in DOMAIN Tail(putters) :
             i + 1 \in DOMAIN putters /\ 1 < i + 1 /\ Tail(putters)[i] = putters[i + 1]
        /\ Thinned(Tail(putters), putters) /\ Tail(putters) \in Seq(Events)
    BY <1>1, <1>3, ThinnedTail
  <2>3. IsInjective(Tail(putters))
    BY <1>1, <2>2, ThinnedInjective
  <2>4. e0[Head(putters)] = "put"
    BY <2>2
  <2>5. ASSUME NEW k \in DOMAIN Tail(putters)
        PROVE  Tail(putters)[k] \in Range(putters) /\ Woken(e0)[Tail(putters)[k]] = "put"
    <3>1. /\ k + 1 \in DOMAIN putters /\ Tail(putters)[k] = putters[k + 1]
          /\ putters[k + 1] \in Events /\ putters[k + 1] # putters[1]
      BY <1>1, <2>2, LenProperties DEF IsInjective
    <3> QED
      BY <2>1, <2>2, <3>1 DEF Range
  <2> QED
    BY <2>1, <2>2, <2>3, <2>4, <2>5
<1> QED
  BY <1>2, <1>3

\* A put that enters; q is the queue, or what an eviction left of it.
LEMMA EnterSound ==
  ASSUME Sound, Typed', NEW e \in Events, NEW e0 \in [Events -> EnqPc], NEW q \in Seq(Events),
         Thinned(q, queue), Enter(e, e0, q), enq[e] \in {"new", "woken"},
         UNCHANGED <<nextId, jobs, got, stalled>>,
         IsInjective(putters'),
         \A k \in DOMAIN putters' : putters'[k] \in Range(putters) /\ e0[putters'[k]] = "put",
         \A x \in Events : \/ e0[x] = enq[x]
                           \/ enq[x] = "put" /\ e0[x] = "woken"
                           \/ enq[x] \in {"entered", "evicted"} /\ e0[x] = "evicted"
  PROVE  Sound'
<1>1. /\ Typed /\ InOrder(entered, queue, jobs, got, stalled) /\ Puts /\ Fresh
  BY DEF Sound
<1>2. /\ entered \in Seq(Events) /\ enq \in [Events -> EnqPc] /\ putters \in Seq(Events)
  BY <1>1 DEF Typed, TypeOK
<1>3. /\ queue' = Append(q, e) /\ enq' = [e0 EXCEPT ![e] = "entered"]
      /\ entered' = Append(entered, e) /\ call' = Returned(e)
  BY DEF Enter
<1>4. e \notin Range(entered) /\ (e \in stalled \/ NotYet(e))
  BY <1>1 DEF Puts, Fresh, Outside
<1>5. InOrder(entered, q, jobs, got, stalled)
  BY <1>1, ThinnedSelf, OrderThinned
<1>6. InOrder(entered', queue', jobs', got, stalled)
  <2>1. e \in stalled \/ \A s \in Subs : \A k \in DOMAIN got[s] : got[s][k] # e
    BY <1>4 DEF NotYet, Reached
  <2>2. InOrder(Append(entered, e), Append(q, e), jobs, got, stalled)
    BY <1>2, <1>4, <1>5, <2>1, OrderEntered
  <2> QED
    BY <1>3, <2>2
<1>7. enq'[e] = "entered" /\ \A x \in Events : x # e => enq'[x] = e0[x]
  BY <1>3
<1>8. \A k \in DOMAIN putters' : enq'[putters'[k]] = "put"
  <2> TAKE k \in DOMAIN putters'
  <2>1. PICK j \in DOMAIN putters : putters'[k] = putters[j]
    BY DEF Range
  <2>2. putters[j] \in Events /\ enq[putters[j]] = "put"
    BY <1>1, <1>2, LenProperties DEF Puts
  <2> QED
    BY <1>7, <2>1, <2>2
<1>9. \A x \in Range(entered') : enq'[x] \in {"entered", "evicted"}
  <2>1. \A x \in Range(entered') : x = e \/ x \in Range(entered)
    BY <1>2, <1>3, AppendProperties, LenProperties DEF Range
  <2>2. \A x \in Range(entered) : x \in Events /\ enq[x] \in {"entered", "evicted"}
    BY <1>1, <1>2, LenProperties DEF Puts, Range
  <2> QED
    BY <1>7, <2>1, <2>2
<1>10. \A x \in Events : /\ enq'[x] \in Outside => enq[x] \in Outside
                         /\ enq[x] = "none" => enq'[x] = "none"
  BY <1>7 DEF Outside
<1> QED
  BY <1>3, <1>6, <1>8, <1>9, <1>10, LoopSound

\* The other steps of a put change its own state, or that of the one that is woken.
LEMMA PutSound ==
  ASSUME Sound, Typed', NEW e \in Events, call' = call \/ call' = Returned(e),
         UNCHANGED <<nextId, queue, jobs, got, entered, stalled>>,
         IsInjective(putters'), \A k \in DOMAIN putters' : enq'[putters'[k]] = "put",
         enq[e] \in Outside, enq'[e] \in Outside,
         \A x \in Events : \/ x = e \/ enq'[x] = enq[x]
                           \/ enq[x] = "put" /\ enq'[x] = "woken"
  PROVE  Sound'
<1>1. /\ Typed /\ InOrder(entered, queue, jobs, got, stalled) /\ Puts
  BY DEF Sound
<1>2. entered \in Seq(Events)
  BY <1>1 DEF Typed, TypeOK
<1>3. \A x \in Range(entered') : enq'[x] \in {"entered", "evicted"}
  <2>1. \A x \in Range(entered) : x \in Events /\ enq[x] \in {"entered", "evicted"}
    BY <1>1, <1>2, LenProperties DEF Puts, Range
  <2> QED
    BY <2>1 DEF Outside
<1>4. \A x \in Events : /\ enq'[x] \in Outside => enq[x] \in Outside
                        /\ enq[x] = "none" => enq'[x] = "none"
  BY DEF Outside
<1>5. InOrder(entered', queue', jobs', got, stalled)
  BY <1>1
<1> QED
  BY <1>3, <1>4, <1>5, LoopSound

LEMMA PutStepSound ==
  ASSUME Sound, Typed', NEW e \in Events, PutStep(e) \/ PutTimesOut(e)
  PROVE  Sound'
<1>1. /\ Typed /\ Puts /\ InOrder(entered, queue, jobs, got, stalled)
  BY DEF Sound
<1>2. /\ UNCHANGED <<nextId, jobs, got, stalled>>
      /\ enq[e] \in {"new", "woken", "put"}
      /\ ~ PutTimesOut(e) => enq[e] \in {"new", "woken"}
  BY DEF PutStep, Enqueue, Resume, PutTimesOut, pools
<1>3. /\ enq \in [Events -> EnqPc] /\ queue \in Seq(Events) /\ putters \in Seq(Events)
      /\ QueueCap \in Nat \ {0}
  BY <1>1, DeliveryConstants DEF Typed, TypeOK
<1>4. /\ IsInjective(putters) /\ \A k \in DOMAIN putters : enq[putters[k]] = "put"
      /\ \A k \in DOMAIN putters : putters[k] \in Events /\ putters[k] \in Range(putters)
      /\ \A x \in Range(entered) : enq[x] \in {"entered", "evicted"}
  BY <1>1, <1>3, LenProperties DEF Puts, Range
<1>5. CASE ~ PutTimesOut(e) /\ Enter(e, enq, queue) /\ UNCHANGED putters
  BY <1>2, <1>3, <1>4, <1>5, ThinnedSelf, EnterSound
<1>6. CASE ~ PutTimesOut(e) /\ Full /\ DropOldest(e)
  <2>1. queue # <<>>
    BY <1>3, <1>6, EmptySeq DEF Full
  <2>2. /\ Head(queue) \in Events /\ Tail(queue) \in Seq(Events) /\ Thinned(Tail(queue), queue)
        /\ 1 \in DOMAIN queue /\ queue[1] = Head(queue)
    BY <1>3, <2>1, ThinnedTail
  <2>3. enq[Head(queue)] \in {"entered", "evicted"}
    BY <1>1, <1>4, <2>2 DEF InOrder, QueueInOrder
  <2>4. PICK e1 \in [Events -> EnqPc] : e1 = [enq EXCEPT ![Head(queue)] = "evicted"]
    BY <1>3 DEF EnqPc, Dropped
  <2>5. /\ \A k \in DOMAIN putters : e1[putters[k]] = "put"
        /\ \A x \in Events : \/ e1[x] = enq[x]
                             \/ enq[x] \in {"entered", "evicted"} /\ e1[x] = "evicted"
    BY <1>3, <1>4, <2>2, <2>3, <2>4
  <2>6. PICK e0 \in [Events -> EnqPc] : e0 = Woken(e1)
    BY WokenEffect
  <2>7. Wake /\ Enter(e, e0, Tail(queue))
    BY <1>6, <2>4, <2>6 DEF DropOldest
  <2>8. /\ \A x \in Events : e0[x] = e1[x] \/ (e1[x] = "put" /\ e0[x] = "woken")
        /\ IsInjective(putters')
        /\ \A k \in DOMAIN putters' : putters'[k] \in Range(putters) /\ e0[putters'[k]] = "put"
    BY <1>1, <2>5, <2>6, <2>7, WokenPuts
  <2>9. \A x \in Events : \/ e0[x] = enq[x]
                          \/ enq[x] = "put" /\ e0[x] = "woken"
                          \/ enq[x] \in {"entered", "evicted"} /\ e0[x] = "evicted"
    BY <2>5, <2>8
  <2> QED
    BY <1>2, <1>6, <2>2, <2>7, <2>8, <2>9, EnterSound
<1>7. CASE ~ PutTimesOut(e) /\ DropNewest(e)
  <2>1. /\ enq'[e] = "refused" /\ \A x \in Events : x # e => enq'[x] = enq[x]
        /\ call' = Returned(e) /\ UNCHANGED <<putters, queue, entered>>
    BY <1>3, <1>7 DEF DropNewest
  <2>2. \A k \in DOMAIN putters' : enq'[putters'[k]] = "put"
    BY <1>2, <1>4, <1>7, <2>1
  <2> QED
    BY <1>2, <1>4, <2>1, <2>2, PutSound DEF Outside
<1>8. CASE ~ PutTimesOut(e) /\ Wait(e)
  <2>1. /\ enq'[e] = "put" /\ \A x \in Events : x # e => enq'[x] = enq[x]
        /\ putters' = Append(putters, e) /\ UNCHANGED <<queue, entered, call>>
    BY <1>3, <1>8 DEF Wait
  <2>2. /\ DOMAIN putters' = 1 .. Len(putters) + 1 /\ putters'[Len(putters) + 1] = e
        /\ Len(putters) \in Nat /\ DOMAIN putters = 1 .. Len(putters)
        /\ \A k \in DOMAIN putters : putters'[k] = putters[k]
    BY <1>3, <2>1, AppendProperties, LenProperties
  <2>3. \A k \in DOMAIN putters : putters[k] # e
    BY <1>2, <1>4, <1>8
  <2>4. \A k \in DOMAIN putters' : \/ k = Len(putters) + 1 /\ putters'[k] = e
                                   \/ k \in DOMAIN putters /\ putters'[k] = putters[k]
    BY <2>2
  <2>5. IsInjective(putters')
    BY <1>4, <2>3, <2>4 DEF IsInjective
  <2>6. \A k \in DOMAIN putters' : enq'[putters'[k]] = "put"
    BY <1>4, <2>1, <2>3, <2>4
  <2> QED
    BY <1>2, <2>1, <2>5, <2>6, PutSound DEF Outside
<1>9. CASE PutTimesOut(e)
  <2>1. PICK fate \in {"lapsed", "refused"} :
             fate = IF kind[e] = "critical" THEN "lapsed" ELSE "refused"
    OBVIOUS
  <2>2. PICK e0 \in [Events -> EnqPc] : e0 = [enq EXCEPT ![e] = fate]
    BY <1>3 DEF EnqPc, Dropped
  <2>3. e0[e] = fate /\ \A x \in Events : x # e => e0[x] = enq[x]
    BY <1>3, <2>2
  <2>4. call' = Returned(e) /\ UNCHANGED <<queue, entered>>
    BY <1>9 DEF PutTimesOut
  <2>5. CASE enq[e] = "woken" /\ enq' = Woken(e0) /\ Wake
    <3>1. \A k \in DOMAIN putters : e0[putters[k]] = "put"
      BY <1>4, <2>3, <2>5
    <3>2. /\ \A x \in Events : enq'[x] = e0[x] \/ (e0[x] = "put" /\ enq'[x] = "woken")
          /\ IsInjective(putters')
          /\ \A k \in DOMAIN putters' : enq'[putters'[k]] = "put"
      BY <1>1, <2>5, <3>1, WokenPuts
    <3> QED
      BY <1>2, <2>3, <2>4, <3>2, PutSound DEF Outside
  <2>6. CASE enq' = e0 /\ putters' = Without(putters, e)
    <3>1. PICK others \in SUBSET DOMAIN putters : others = {k \in DOMAIN putters : putters[k] # e}
      OBVIOUS
    <3>2. /\ putters' \in Seq(Events) /\ Thinned(putters', putters)
          /\ \A j \in DOMAIN putters' : \E k \in others : putters'[j] = putters[k]
      <4>1. putters' = Kept(putters, others)
        BY <2>6, <3>1 DEF Without
      <4> QED
        BY <1>3, <4>1, KeptThinned
    <3>3. IsInjective(putters')
      BY <1>4, <3>2, ThinnedInjective
    <3>4. \A j \in DOMAIN putters' : enq'[putters'[j]] = "put"
      BY <1>4, <2>3, <2>6, <3>1, <3>2
    <3> QED
      BY <1>2, <2>3, <2>4, <2>6, <3>3, <3>4, PutSound DEF Outside
  <2> QED
    BY <1>9, <2>1, <2>2, <2>5, <2>6 DEF PutTimesOut
<1> QED
  BY <1>5, <1>6, <1>7, <1>8, <1>9 DEF PutStep, Enqueue, Resume

\* An event off the queue is dispatched, or dropped because the stream closes.
LEMMA TakenSound ==
  ASSUME Sound, Typed', queue # <<>>, queue' = Tail(queue), enq' = Woken(enq), Wake,
         NEW w \in Dispatchers,
         jobs' = jobs \/ jobs' = jobs \o JobsOf(w, Head(queue)),
         UNCHANGED <<nextId, call, got, entered, stalled>>
  PROVE  Sound'
<1>1. /\ Typed /\ InOrder(entered, queue, jobs, got, stalled) /\ Puts
  BY DEF Sound
<1>2. /\ enq \in [Events -> EnqPc] /\ queue \in Seq(Events) /\ putters \in Seq(Events)
      /\ jobs \in Seq(Job) /\ entered \in Seq(Events)
  BY <1>1 DEF Typed, TypeOK
<1>3. /\ Head(queue) \in Events /\ Thinned(Tail(queue), queue)
  BY <1>2, ThinnedTail
<1>4. InOrder(entered, queue', jobs', got, stalled)
  <2>1. CASE jobs' = jobs
    BY <1>1, <1>3, <2>1, ThinnedSelf, OrderThinned
  <2>2. CASE jobs' = jobs \o JobsOf(w, Head(queue))
    BY <1>1, <1>2, <2>2, OrderTaken
  <2> QED
    BY <2>1, <2>2
<1>5. InOrder(entered', queue', jobs', got, stalled)
  BY <1>4
<1>6. /\ \A x \in Events : enq'[x] = enq[x] \/ (enq[x] = "put" /\ enq'[x] = "woken")
      /\ IsInjective(putters')
      /\ \A k \in DOMAIN putters' : enq'[putters'[k]] = "put"
  BY <1>1, <1>2, WokenPuts DEF Puts
<1>7. \A x \in Range(entered') : enq'[x] \in {"entered", "evicted"}
  <2>1. \A x \in Range(entered) : x \in Events /\ enq[x] \in {"entered", "evicted"}
    BY <1>1, <1>2, LenProperties DEF Puts, Range
  <2> QED
    BY <1>6, <2>1
<1>8. \A x \in Events : /\ enq'[x] \in Outside => enq[x] \in Outside
                        /\ enq[x] = "none" => enq'[x] = "none"
  BY <1>6 DEF Outside
<1> QED
  BY <1>3, <1>5, <1>6, <1>7, <1>8, LoopSound

\* A job that starts is the first call of its subscriber with its event.
LEMMA StartSound ==
  ASSUME Sound, Typed', NEW t \in Pool, StartJob(t)
  PROVE  Sound'
<1>1. /\ Typed /\ InOrder(entered, queue, jobs, got, stalled)
      /\ Puts /\ Fresh /\ InlineOnce /\ DeliveredOnce /\ CallTyped(call)
  BY DEF Sound, Typed
<1>2. /\ jobs \in Seq(Job) /\ got \in [Subs -> Seq(Events)] /\ entered \in Seq(Events)
      /\ nextId \in Int
  BY <1>1, DeliveryConstants DEF Typed, TypeOK
<1>3. /\ UNCHANGED <<nextId, call, enq, putters, queue, entered, stalled>>
      /\ jobs # <<>> /\ jobs' = Tail(jobs) /\ Called(Head(jobs).sub, Head(jobs).ev)
  BY DEF StartJob, callers, loop
<1>4. Head(jobs) \in Job /\ 1 \in DOMAIN jobs /\ jobs[1] = Head(jobs)
  BY <1>2, <1>3, ThinnedTail
<1>5. PICK s \in Subs, e \in Events : s = Head(jobs).sub /\ e = Head(jobs).ev
  BY <1>4 DEF Job
<1>6. /\ e \in Range(entered)
      /\ GotInOrder(entered, queue, jobs, got[s], s, stalled) /\ IsInjective(entered)
  BY <1>1, <1>4, <1>5 DEF InOrder, JobsInOrder
<1>7. e \in stalled \/ ~ Reached(s, e)
  <2> SUFFICES ASSUME e \notin stalled, Reached(s, e) PROVE FALSE
    OBVIOUS
  <2>1. Earlier(entered, e, e)
    BY <1>4, <1>5, <1>6 DEF GotInOrder, Reached
  <2> QED
    BY <1>2, <1>6, <2>1, NotBeforeItself
<1>8. /\ \A r \in Subs, x \in Events : Reached(r, x)' => Reached(r, x) \/ (r = s /\ x = e)
      /\ DeliveredOnce'
  BY <1>1, <1>3, <1>5, <1>7, CalledOnce
<1>9. enq[e] \in {"entered", "evicted"}
  BY <1>1, <1>6 DEF Puts
<1>10. InOrder(entered, queue, jobs', got', stalled)
  <2>1. got' = [got EXCEPT ![s] = Append(@, e)]
    BY <1>3, <1>5 DEF Called
  <2> QED
    BY <1>1, <1>2, <1>3, <1>5, <2>1, OrderStarted
<1>11. Puts'
  BY <1>1, <1>3 DEF Puts
<1>12. \A x \in Events : x # e /\ NotYet(x) => NotYet(x)'
  BY <1>8 DEF NotYet
<1>13. Fresh'
  <2> SUFFICES ASSUME NEW x \in Events
               PROVE  /\ enq[x] \in Outside /\ x \notin stalled => NotYet(x)'
                      /\ x >= nextId =>
                           /\ enq[x] = "none" /\ x \notin stalled /\ NotYet(x)'
                           /\ \A d \in Callers : call[d].pc # "idle" => call[d].ev # x
    BY <1>3 DEF Fresh
  <2>1. CASE x = e
    BY <1>1, <1>9, <2>1 DEF Fresh, Outside
  <2>2. CASE x # e
    BY <1>1, <1>12, <2>2 DEF Fresh
  <2> QED
    BY <2>1, <2>2
<1>14. InlineOnce'
  <2> SUFFICES ASSUME NEW d \in Callers, call[d].pc = "inline", call[d].ev \notin stalled
               PROVE  /\ enq[call[d].ev] = "none"
                      /\ IsInjective(call[d].left)
                      /\ \A j \in DOMAIN call[d].left : ~ Reached(call[d].left[j], call[d].ev)'
                      /\ \A b \in Callers :
                           call[b].pc # "idle" /\ call[b].ev = call[d].ev => b = d
    BY <1>3 DEF InlineOnce, Reached
  <2>1. /\ enq[call[d].ev] = "none" /\ IsInjective(call[d].left)
        /\ \A j \in DOMAIN call[d].left : ~ Reached(call[d].left[j], call[d].ev)
        /\ \A b \in Callers : call[b].pc # "idle" /\ call[b].ev = call[d].ev => b = d
    BY <1>1 DEF InlineOnce
  <2>2. /\ call[d].ev \in Events /\ call[d].ev # e
        /\ \A j \in DOMAIN call[d].left : call[d].left[j] \in Subs
    BY <1>1, <1>9, <2>1, LenProperties DEF CallTyped
  <2>3. PICK x \in Events, rest \in Seq(Subs) : x = call[d].ev /\ rest = call[d].left
    BY <1>1, <2>2 DEF CallTyped
  <2>4. \A j \in DOMAIN rest : ~ Reached(rest[j], x)'
    BY <1>8, <2>1, <2>2, <2>3
  <2>5. call' = call
    BY <1>3
  <2>6. \A j \in DOMAIN call[d].left : ~ Reached(call[d].left[j], call[d].ev)'
    BY <2>3, <2>4, <2>5 DEF Reached
  <2> QED
    BY <2>1, <2>6
<1> QED
  BY <1>3, <1>8, <1>10, <1>11, <1>13, <1>14 DEF Sound

\* Dispatchers that are cancelled leave what was called and what waits in the queue in order.
LEMMA CancelledSound ==
  ASSUME Sound, Typed', NEW ws, jobs' = Cancelled(ws),
         UNCHANGED <<nextId, call, enq, putters, queue, got, entered, stalled>>
  PROVE  Sound'
<1>1. /\ Typed /\ InOrder(entered, queue, jobs, got, stalled)
      /\ Puts /\ Fresh /\ InlineOnce /\ DeliveredOnce /\ jobs \in Seq(Job)
  BY DEF Sound, Typed, TypeOK
<1>2. InOrder(entered, queue, jobs', got, stalled)
  BY <1>1, CancelledEffect, ThinnedSelf, OrderThinned
<1>3. Puts' /\ Fresh' /\ InlineOnce' /\ DeliveredOnce'
  BY <1>1 DEF Puts, Fresh, NotYet, InlineOnce, DeliveredOnce, Reached
<1> QED
  BY <1>2, <1>3 DEF Sound

LEMMA InitSound == Init => Sound
<1> SUFFICES ASSUME Init PROVE Sound
  OBVIOUS
<1>1. Typed
  BY InitTyped
<1>2. /\ entered = <<>> /\ queue = <<>> /\ jobs = <<>> /\ putters = <<>> /\ DOMAIN <<>> = {}
      /\ \A s \in Subs : got[s] = <<>>
      /\ \A c \in Callers : call[c].pc = "idle"
      /\ \A e \in Events : enq[e] = "none"
      /\ stalled = {}
  BY EmptySeq, LenProperties DEF Init, NoCall
<1>3. InOrder(entered, queue, jobs, got, stalled)
  BY <1>2 DEF InOrder, QueueInOrder, JobsInOrder, GotInOrder, IsInjective
<1>4. Puts /\ Fresh /\ InlineOnce /\ DeliveredOnce
  BY <1>2 DEF Puts, Fresh, NotYet, Reached, InlineOnce, DeliveredOnce, IsInjective, Range, Outside
<1> QED
  BY <1>1, <1>3, <1>4 DEF Sound

LEMMA NextSound == Sound /\ [Next]_vars => Sound'
<1> SUFFICES ASSUME Sound, [Next]_vars PROVE Sound'
  OBVIOUS
<1>1. Typed'
  BY NextTyped DEF Sound
<1>2. CASE UNCHANGED vars
  BY <1>1, <1>2, SameSound DEF vars
<1>3. ASSUME NEW c \in Callers, NEW k \in {"user", "plain", "critical"}, AddEvent(c, k)
      PROVE  Sound'
  BY <1>1, <1>3, AddEventSound
<1>4. ASSUME NEW c \in Callers, InlineNext(c) \/ CallerGivesUp(c)
      PROVE  Sound'
  BY <1>1, <1>4, InlineNextSound, GivesUpSound
<1>5. ASSUME NEW e \in Events, PutStep(e) \/ PutTimesOut(e)
      PROVE  Sound'
  BY <1>1, <1>5, PutStepSound
<1>6. ASSUME NEW w \in Workers, TakeEvent(w)
      PROVE  Sound'
  BY <1>1, <1>6, TakenSound DEF TakeEvent, callers, Dispatchers
<1>7. ASSUME NEW w \in Dispatchers, DispatchDone(w)
      PROVE  Sound'
  BY <1>1, <1>7, SameSound DEF DispatchDone, callers, loop, pools
<1>8. ASSUME NEW t \in Pool, StartJob(t)
      PROVE  Sound'
  BY <1>1, <1>8, StartSound
<1>9. ASSUME NEW t \in Pool, EndJob(t)
      PROVE  Sound'
  BY <1>1, <1>9, SameSound DEF EndJob, callers, loop
<1>10. CASE CloseBegin \/ DrainEnd \/ CloseEnd
  BY <1>1, <1>10, SameSound DEF CloseBegin, DrainEnd, CloseEnd, callers, loop, pools
<1>11. CASE ShutdownBegin \/ DrainTimesOut
  BY <1>1, <1>11, CancelledSound DEF ShutdownBegin, DrainTimesOut, callers, loop
<1>12. CASE DrainTake
  BY <1>1, <1>12, TakenSound DEF DrainTake, callers, Dispatchers
<1> QED
  BY <1>2, <1>3, <1>4, <1>5, <1>6, <1>7, <1>8, <1>9, <1>10, <1>11, <1>12
     DEF Next, WorkerStep, CloseStep, DrainStep, Dispatchers

\* No subscriber is called twice with an event - by two workers, by a worker and the shutdown,
\* inline and from the queue - unless the caller of add_event gave up waiting for the queue loop.
THEOREM EventsOnce == Spec => []DeliveredOnce
<1>1. Sound => DeliveredOnce
  BY DEF Sound
<1> QED
  BY <1>1, InitSound, NextSound, PTL DEF Spec

\* With a single worker the callbacks of a subscriber are called in the order in which the
\* events entered the queue, whatever is evicted, woken, timed out, cancelled or drained.
THEOREM EventsInOrder == Spec => []SingleWorkerFifo
<1>1. Sound => SingleWorkerFifo
  <2> SUFFICES ASSUME Sound, NEW s \in Subs, NEW j \in DOMAIN got[s], NEW k \in DOMAIN got[s],
                      j < k, Ordinary(got[s][j]), Ordinary(got[s][k])
               PROVE  Place(got[s][j]) < Place(got[s][k])
    BY DEF SingleWorkerFifo
  <2>1. InOrder(entered, queue, jobs, got, stalled)
    BY DEF Sound
  <2>2. IsInjective(entered) /\ Earlier(entered, got[s][j], got[s][k])
    BY <2>1 DEF InOrder, GotInOrder, Ordinary
  <2>3. PICK m, n \in DOMAIN entered : m < n /\ entered[m] = got[s][j] /\ entered[n] = got[s][k]
    BY <2>2 DEF Earlier
  <2>4. Place(got[s][j]) = m /\ Place(got[s][k]) = n
    BY <2>2, <2>3 DEF Place, IsInjective
  <2> QED
    BY <2>3, <2>4
<1> QED
  BY <1>1, InitSound, NextSound, PTL DEF Spec
=============================================================================
