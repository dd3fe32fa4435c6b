------------------------- MODULE PendingActionsProofs -------------------------
(***************************************************************************)
(* Proofs about PendingActions, for any set of tool calls: its types, that *)
(* no call is lost, that the model is asked again only with every result   *)
(* in, and that what needs consent is executed with it, and once.          *)
(*                                                                         *)
(* All but the types holds as long as no action that needs consent is part *)
(* of a parallel batch (NoConsentInBatch, which no step changes).          *)
(***************************************************************************)
EXTENDS PendingActions, FiniteSetTheorems, SequenceTheorems, TLAPS

-----------------------------------------------------------------------------
(* The inductive invariant *)

\* The step goes to the model, and without batches to the runtime, with an empty table:
\* one action at a time, while the agent runs.
Serial ==
    /\ step = "asking" => ~Outstanding
    /\ ~Parallel => /\ step # "parallel"
                    /\ step \in {"first", "serial"} => ~Outstanding
                    /\ batch # {} => agent = "running"
                    /\ \A a, b \in batch : a = b

\* What the user is asked about is the only row there is, and it is what the dialog shows.
Consent ==
    /\ AskedWhileConfirming
    /\ agent = "confirming" => ~Parallel /\ DOMAIN rows \subseteq {Unassigned}
    /\ dialog # Closed => agent = "confirming" /\ (Outstanding => dialog = rows[Unassigned])

\* Rows, executions and observations refer to each other by id.
Table ==
    /\ \A x \in runtime \cup inbox :
         x.cause < nextId /\ (x.cause \in DOMAIN rows => rows[x.cause] = x.act)
    /\ \A r, q \in runtime : r.cause = q.cause => r = q
    /\ \A r \in runtime, o \in inbox : r.cause # o.cause

\* A published row has its action with the runtime, or the observation not yet observed ...
RowsAwaited ==
    /\ \A id \in DOMAIN rows \ {Unassigned} : \E x \in runtime \cup inbox : x.cause = id
    /\ \A o \in inbox : o.at = "observe" => o.cause \notin DOMAIN rows
    /\ \A o \in inbox : o.at # "sent" => o.act \in seen.answered

\* ... and an action with the runtime has its row, unless it was given up.
RunsAccounted ==
    \A r \in runtime : r.cause \in DOMAIN rows \/ r.act \in seen.timedOut \cup seen.abandoned

\* A tool call that is not published yet is in one place only: not emitted, queued, in the
\* step's hands, or held back for the user.
Held == IF Unassigned \in DOMAIN rows THEN {rows[Unassigned]} ELSE {}
Unpublished == seen.fresh \cup Values(queue) \cup batch \cup Held
OnePlace ==
    /\ seen.fresh \cap (Values(queue) \cup batch \cup Held) = {}
    /\ Values(queue) \cap (batch \cup Held) = {}
    /\ batch \cap Held = {}
    /\ \A i, j \in DOMAIN queue : queue[i] = queue[j] => i = j

\* Nothing has happened to it yet, and what is with the runtime is there once and has no
\* reply yet.
Untouched ==
    /\ \A a \in Unpublished : /\ seen.executions[a] = 0 /\ a \notin seen.answered
                              /\ \A x \in runtime \cup inbox : x.act # a
    /\ \A r \in runtime : r.act \notin seen.answered
    /\ \A r, q \in runtime : r.act = q.act => r = q
    /\ \A r \in runtime, o \in inbox : r.act # o.act

Places == OnePlace /\ Untouched /\ ExecutedOnce /\ NothingRunsUnapproved

IInv == NoConsentInBatch =>
            /\ Serial /\ Consent /\ Table /\ RowsAwaited /\ RunsAccounted
            /\ NoCallIsLost /\ Places

-----------------------------------------------------------------------------
(* Tables and queues *)

LEMMA EmptyTable ==
  /\ <<>> \in [DOMAIN <<>> -> Actions] /\ <<>> \in Seq(Actions)
  /\ DOMAIN <<>> = {} /\ Values(<<>>) = {}
<1>1. <<>> \in Seq(Actions) /\ DOMAIN <<>> = {}
  BY EmptySeq
<1> QED
  BY <1>1 DEF Values

\* PendingActionService.set and pop_for_cause touch the row of one id.
LEMMA PutRow ==
  ASSUME NEW table, NEW id, NEW a
  PROVE  /\ DOMAIN Put(table, id, a) = DOMAIN table \cup {id}
         /\ Put(table, id, a)[id] = a
         /\ \A k \in DOMAIN table : k # id => Put(table, id, a)[k] = table[k]
         /\ table \in [DOMAIN table -> Actions] /\ a \in Actions
            => Put(table, id, a) \in [DOMAIN table \cup {id} -> Actions]
BY DEF Put

LEMMA WithoutRow ==
  ASSUME NEW table, NEW id
  PROVE  /\ DOMAIN Without(table, id) = DOMAIN table \ {id}
         /\ \A k \in DOMAIN table : k # id => Without(table, id)[k] = table[k]
         /\ table \in [DOMAIN table -> Actions]
            => Without(table, id) \in [DOMAIN table \ {id} -> Actions]
BY DEF Without

\* What the step takes off the queue, and what stays.
LEMMA TakeHead ==
  ASSUME NEW q \in Seq(Actions), q # <<>>
  PROVE  /\ Head(q) \in Actions /\ Tail(q) \in Seq(Actions)
         /\ Values(q) = {Head(q)} \cup Values(Tail(q))
         /\ (\A i, j \in DOMAIN q : q[i] = q[j] => i = j)
            => /\ Head(q) \notin Values(Tail(q))
               /\ \A i, j \in DOMAIN Tail(q) : Tail(q)[i] = Tail(q)[j] => i = j
<1>1. /\ Len(q) \in Nat \ {0} /\ DOMAIN q = 1 .. Len(q) /\ Head(q) = q[1]
      /\ Tail(q) \in Seq(Actions) /\ Len(Tail(q)) = Len(q) - 1
      /\ \A i \in 1 .. Len(Tail(q)) : Tail(q)[i] = q[i + 1]
  BY HeadTailProperties, EmptySeq, LenProperties
<1>2. DOMAIN Tail(q) = 1 .. Len(q) - 1
  BY <1>1, LenProperties
<1>3. \A i \in DOMAIN Tail(q) : i + 1 \in DOMAIN q /\ Tail(q)[i] = q[i + 1]
  BY <1>1, <1>2
<1>4. \A i \in DOMAIN q : i = 1 \/ (i - 1 \in DOMAIN Tail(q) /\ Tail(q)[i - 1] = q[i])
  <2> SUFFICES ASSUME NEW i \in DOMAIN q, i # 1
               PROVE  i - 1 \in DOMAIN Tail(q) /\ Tail(q)[i - 1] = q[i]
    OBVIOUS
  <2>1. i - 1 \in DOMAIN Tail(q) /\ (i - 1) + 1 = i
    BY <1>1, <1>2
  <2>2. Tail(q)[i - 1] = q[(i - 1) + 1]
    BY <1>3, <2>1
  <2> QED
    BY <2>1, <2>2
<1>5. 1 \in DOMAIN q /\ Head(q) \in Actions
  BY <1>1, ElementOfSeq
<1>6. Values(q) = {Head(q)} \cup Values(Tail(q))
  <2>1. \A i \in DOMAIN q : q[i] \in {Head(q)} \cup Values(Tail(q))
    BY <1>1, <1>4 DEF Values
  <2>2. Head(q) \in Values(q) /\ \A i \in DOMAIN Tail(q) : Tail(q)[i] \in Values(q)
    BY <1>1, <1>3, <1>5 DEF Values
  <2> QED
    BY <2>1, <2>2 DEF Values
<1>7. ASSUME \A i, j \in DOMAIN q : q[i] = q[j] => i = j
      PROVE  /\ Head(q) \notin Values(Tail(q))
             /\ \A i, j \in DOMAIN Tail(q) : Tail(q)[i] = Tail(q)[j] => i = j
  <2>1. \A i \in DOMAIN Tail(q) : i \in Int /\ i + 1 # 1
    BY <1>1, <1>2
  <2>2. Head(q) \notin Values(Tail(q))
    BY <1>1, <1>3, <1>5, <1>7, <2>1 DEF Values
  <2>3. ASSUME NEW i \in DOMAIN Tail(q), NEW j \in DOMAIN Tail(q), Tail(q)[i] = Tail(q)[j]
        PROVE  i = j
    <3>1. i + 1 = j + 1
      BY <1>3, <1>7, <2>3
    <3> QED
      BY <2>1, <3>1
  <2> QED
    BY <2>2, <2>3
<1> QED
  BY <1>1, <1>5, <1>6, <1>7

\* An answer is a queue of its actions, each once.
LEMMA AnswerQueue ==
  ASSUME NEW S, S \in SUBSET Actions, S # {}, NEW q \in Orders(S)
  PROVE  /\ q \in Seq(Actions) /\ q # <<>> /\ Values(q) = S
         /\ \A i, j \in DOMAIN q : q[i] = q[j] => i = j
<1>1. IsFiniteSet(S)
  BY PendingConstants, FS_Subset
<1>2. Cardinality(S) \in Nat
  BY <1>1, FS_CardinalityType
<1>3. /\ q \in [1 .. Cardinality(S) -> S] /\ Values(q) = S
      /\ DOMAIN q = 1 .. Cardinality(S)
  BY DEF Orders
<1>4. q \in Seq(Actions)
  <2>1. q \in [1 .. Cardinality(S) -> Actions]
    BY <1>3
  <2> QED
    BY <1>2, <2>1, SeqDef
<1>5. q # <<>>
  BY <1>3, EmptyTable
<1>6. q \in Surjection(1 .. Cardinality(S), S)
  BY <1>3 DEF Surjection, Values
<1>7. IsFiniteSet(1 .. Cardinality(S)) /\ Cardinality(1 .. Cardinality(S)) = Cardinality(S)
  BY <1>2, FS_Interval
<1>8. q \in Injection(1 .. Cardinality(S), S)
  BY <1>1, <1>6, <1>7, FS_SurjSameCardinalityImpliesInj
<1> QED
  BY <1>3, <1>4, <1>5, <1>8 DEF Injection, IsInjective

-----------------------------------------------------------------------------
(* Types *)

LEMMA HistoryTypes ==
  ASSUME NEW h \in History, NEW A \in SUBSET Actions, NEW B \in SUBSET Actions
  PROVE  /\ h.fresh \in SUBSET Actions
         /\ [h EXCEPT !.fresh = A] \in History
         /\ [h EXCEPT !.fresh = A, !.abandoned = @ \cup B] \in History
         /\ [h EXCEPT !.answered = @ \cup A] \in History
         /\ [h EXCEPT !.answered = @ \cup A, !.abandoned = @ \cup B] \in History
         /\ [h EXCEPT !.timedOut = @ \cup A] \in History
         /\ [h EXCEPT !.abandoned = @ \cup A] \in History
         /\ [h EXCEPT !.approved = @ \cup A] \in History
         /\ \A a \in Actions, n \in Nat :
              /\ [h EXCEPT !.executions[a] = @ + n] \in History
              /\ [h EXCEPT !.approved = @ \cup A, !.executions[a] = @ + n] \in History
<1>1. /\ h.fresh \in SUBSET Actions
      /\ [h EXCEPT !.fresh = A] \in History
      /\ [h EXCEPT !.fresh = A, !.abandoned = @ \cup B] \in History
  BY DEF History
<1>2. /\ [h EXCEPT !.answered = @ \cup A] \in History
      /\ [h EXCEPT !.answered = @ \cup A, !.abandoned = @ \cup B] \in History
  BY DEF History
<1>3. /\ [h EXCEPT !.timedOut = @ \cup A] \in History
      /\ [h EXCEPT !.abandoned = @ \cup A] \in History
      /\ [h EXCEPT !.approved = @ \cup A] \in History
  BY DEF History
<1>4. ASSUME NEW a \in Actions, NEW n \in Nat
      PROVE  /\ [h EXCEPT !.executions[a] = @ + n] \in History
             /\ [h EXCEPT !.approved = @ \cup A, !.executions[a] = @ + n] \in History
  <2>1. [h.executions EXCEPT ![a] = @ + n] \in [Actions -> Nat]
    BY DEF History
  <2>2. [h EXCEPT !.executions = [h.executions EXCEPT ![a] = @ + n]] \in History
    BY <2>1 DEF History
  <2>3. [h EXCEPT !.approved = @ \cup A, !.executions = [h.executions EXCEPT ![a] = @ + n]]
          \in History
    BY <2>1 DEF History
  <2> QED
    BY <2>2, <2>3 DEF History
<1> QED
  BY <1>1, <1>2, <1>3, <1>4

LEMMA InitTypes == Init => TypeOK
<1> SUFFICES ASSUME Init PROVE TypeOK
  OBVIOUS
<1>1. [a \in Actions |-> 0] \in [Actions -> Nat]
  OBVIOUS
<1>2. seen \in History
  BY <1>1 DEF Init, History
<1>3. risky \in Policies /\ turns \in 0 .. MaxTurns
  BY PendingConstants DEF Init
<1> QED
  BY <1>2, <1>3, EmptyTable DEF Init, TypeOK, Pcs

\* The table after a publication or a change of a row.
LEMMA PublishTypes ==
  ASSUME TypeOK, NEW a \in Actions, NEW table, NEW D \in SUBSET (Nat \cup {Unassigned}),
         table \in [D -> Actions], NEW running \in SUBSET Run, Publish(a, table, running)
  PROVE  /\ DOMAIN rows' \subseteq Nat \cup {Unassigned} /\ rows' \in [DOMAIN rows' -> Actions]
         /\ runtime' \subseteq Run /\ nextId' \in Nat
<1>1. nextId \in Nat /\ DOMAIN table = D
  BY DEF TypeOK
<1>2. DOMAIN rows' = D \cup {nextId} /\ rows' \in [D \cup {nextId} -> Actions]
  BY <1>1, PutRow DEF Publish
<1>3. [act |-> a, born |-> nextId, cause |-> nextId] \in Run
  BY <1>1 DEF Run
<1> QED
  BY <1>1, <1>2, <1>3 DEF Publish

\* Where execute_action leaves the step.
LEMMA PassesTypes ==
  ASSUME TypeOK, NEW a, Passes(a)
  PROVE  /\ a \in Actions /\ batch' \subseteq Actions /\ batch' = batch \ {a}
         /\ step \in {"first", "parallel", "serial"}
         /\ step' \in Pcs /\ (batch' # {} => step' = step)
         /\ batch' = {} => step' \in {"draining", "scheduling", "settling"}
<1>1. step \in {"first", "parallel", "serial"} /\ a \in Actions /\ batch' = batch \ {a}
  BY DEF TypeOK, Passes
<1>2. CASE batch' # {}
  BY <1>1, <1>2 DEF TypeOK, Passes, AfterExecute
<1>3. CASE batch' = {}
  BY <1>1, <1>3 DEF TypeOK, Passes, AfterExecute, Pcs
<1> QED
  BY <1>1, <1>2, <1>3 DEF TypeOK

LEMMA ExecuteTypes ==
  ASSUME TypeOK, UNCHANGED risky, Execute
  PROVE  TypeOK'
<1>1. PICK a \in Actions : ExecuteNow(a) \/ AskUser(a) \/ CannotAsk(a) \/ Blocked(a)
  BY DEF Execute
<1>2. Passes(a)
  BY <1>1 DEF ExecuteNow, AskUser, CannotAsk, Blocked
<1>3. /\ batch' \subseteq Actions /\ batch' = batch \ {a}
      /\ step \in {"first", "parallel", "serial"}
      /\ step' \in Pcs /\ (batch' # {} => step' = step)
  BY <1>2, PassesTypes
<1>4. CASE ExecuteNow(a)
  <2>1. /\ DOMAIN rows' \subseteq Nat \cup {Unassigned} /\ rows' \in [DOMAIN rows' -> Actions]
        /\ runtime' \subseteq Run /\ nextId' \in Nat
    BY <1>4, PublishTypes DEF TypeOK, ExecuteNow
  <2>2. seen' \in History
    <3>1. seen' = [seen EXCEPT !.executions[a] = @ + 1] /\ seen \in History
      BY <1>4 DEF TypeOK, ExecuteNow
    <3> QED
      BY <3>1, HistoryTypes
  <2> QED
    BY <1>3, <1>4, <2>1, <2>2 DEF TypeOK, ExecuteNow
<1>5. CASE AskUser(a)
  <2>1. /\ DOMAIN rows' \subseteq Nat \cup {Unassigned} /\ rows' \in [DOMAIN rows' -> Actions]
    <3>1. /\ DOMAIN rows \subseteq Nat \cup {Unassigned} /\ rows \in [DOMAIN rows -> Actions]
          /\ rows' = Put(rows, Unassigned, a)
      BY <1>5 DEF TypeOK, AskUser
    <3>2. Put(rows, Unassigned, a) \in [DOMAIN rows \cup {Unassigned} -> Actions]
      BY <3>1, PutRow
    <3> QED
      BY <3>1, <3>2
  <2> QED
    BY <1>3, <1>5, <2>1 DEF TypeOK, AskUser
<1>6. CASE CannotAsk(a)
  <2>1. <<a>> \in Seq(Actions)
    OBVIOUS
  <2>2. queue' \in Seq(Actions)
    BY <1>6, <2>1, ConcatProperties DEF TypeOK, CannotAsk
  <2> QED
    BY <1>3, <1>6, <2>2 DEF TypeOK, CannotAsk
<1>7. CASE Blocked(a)
  <2>1. /\ DOMAIN rows' \subseteq Nat \cup {Unassigned} /\ rows' \in [DOMAIN rows' -> Actions]
    <3>1. /\ DOMAIN rows \subseteq Nat \cup {Unassigned} /\ rows \in [DOMAIN rows -> Actions]
          /\ rows' = rows \/ rows' = Without(rows, Unassigned)
      BY <1>7 DEF TypeOK, Blocked
    <3>2. Without(rows, Unassigned) \in [DOMAIN rows \ {Unassigned} -> Actions]
      BY <3>1, WithoutRow
    <3> QED
      BY <3>1, <3>2
  <2>2. seen' \in History
    BY <1>7, HistoryTypes DEF TypeOK, Blocked
  <2> QED
    BY <1>3, <1>7, <2>1, <2>2 DEF TypeOK, Blocked
<1> QED
  BY <1>1, <1>4, <1>5, <1>6, <1>7

LEMMA GetActionTypes ==
  ASSUME TypeOK, UNCHANGED risky, GetAction
  PROVE  TypeOK'
<1>1. ASSUME NEW a \in Actions, NEW rest \in Seq(Actions), NEW fresh \in SUBSET Actions,
             HandOver(a, rest, fresh)
      PROVE  TypeOK'
  <2>1. /\ step' \in Pcs /\ batch' \subseteq Actions
        /\ batch' # {} => step' \in {"first", "parallel", "serial"}
    BY <1>1 DEF HandOver, Pcs
  <2>2. seen' \in History
    <3>1. (IF agent = "running" THEN {} ELSE {a}) \in SUBSET Actions
      OBVIOUS
    <3> QED
      BY <1>1, <3>1, HistoryTypes DEF TypeOK, HandOver
  <2>3. queue' \in Seq(Actions) /\ agent' = agent
    BY <1>1 DEF HandOver
  <2> QED
    BY <2>1, <2>2, <2>3 DEF TypeOK, GetAction
<1>2. CASE NextQueued
  <2>1. /\ queue \in Seq(Actions) /\ queue # <<>> /\ HandOver(Head(queue), Tail(queue), seen.fresh)
        /\ seen.fresh \in SUBSET Actions
    BY <1>2 DEF TypeOK, NextQueued, History
  <2> QED
    BY <1>1, <2>1, TakeHead
<1>3. CASE Answers
  <2>0. PICK S \in (SUBSET seen.fresh) \ {{}} :
               \E q \in Orders(S) :
                 \/ HandOver(Head(q), Tail(q), seen.fresh \ S)
                 \/ /\ queue' = q
                    /\ step' = "draining"
                    /\ seen' = [seen EXCEPT !.fresh = @ \ S]
                    /\ UNCHANGED <<agent, batch>>
    BY <1>3 DEF Answers
  <2>1. PICK q \in Orders(S) :
               \/ HandOver(Head(q), Tail(q), seen.fresh \ S)
               \/ /\ queue' = q
                  /\ step' = "draining"
                  /\ seen' = [seen EXCEPT !.fresh = @ \ S]
                  /\ UNCHANGED <<agent, batch>>
    BY <2>0
  <2>2. q \in Seq(Actions) /\ q # <<>>
    <3>1. S \in SUBSET Actions /\ S # {}
      BY <2>1 DEF TypeOK, History
    <3> QED
      BY <3>1, AnswerQueue
  <2>3. Head(q) \in Actions /\ Tail(q) \in Seq(Actions)
    BY <2>2, TakeHead
  <2>4. CASE HandOver(Head(q), Tail(q), seen.fresh \ S)
    <3>1. seen.fresh \ S \in SUBSET Actions
      BY DEF TypeOK, History
    <3> QED
      BY <1>1, <2>3, <2>4, <3>1
  <2>5. CASE /\ queue' = q
             /\ step' = "draining"
             /\ seen' = [seen EXCEPT !.fresh = @ \ S]
             /\ UNCHANGED <<agent, batch>>
    <3>1. seen.fresh \ S \in SUBSET Actions /\ seen \in History
      BY DEF TypeOK, History
    <3>2. seen' \in History
      BY <2>5, <3>1, HistoryTypes
    <3> QED
      BY <2>2, <2>5, <3>2 DEF TypeOK, GetAction, Pcs
  <2> QED
    BY <2>1, <2>4, <2>5
<1>4. CASE Finishes
  BY <1>4 DEF TypeOK, GetAction, Finishes, Pcs
<1> QED
  BY <1>2, <1>3, <1>4 DEF GetAction

LEMMA QueueValues == TypeOK => Values(queue) \subseteq Actions /\ Values(rows) \subseteq Actions
<1> SUFFICES ASSUME TypeOK PROVE Values(queue) \subseteq Actions /\ Values(rows) \subseteq Actions
  OBVIOUS
<1>1. \A i \in DOMAIN queue : queue[i] \in Actions
  BY ElementOfSeq, LenProperties DEF TypeOK
<1>2. \A k \in DOMAIN rows : rows[k] \in Actions
  BY DEF TypeOK
<1> QED
  BY <1>1, <1>2 DEF Values

LEMMA DrainTypes ==
  ASSUME TypeOK, UNCHANGED risky,
         BeginStep \/ DrainParallel \/ DrainSerial \/ DrainEnds \/ Settle \/ ScheduleNext
  PROVE  TypeOK'
<1>1. CASE DrainParallel
  BY <1>1, EmptyTable, QueueValues DEF TypeOK, DrainParallel, Pcs
<1>2. CASE DrainSerial
  <2>1. /\ queue \in Seq(Actions) /\ Head(queue) \in Actions /\ Tail(queue) \in Seq(Actions)
        /\ queue' = Tail(queue)
    BY <1>2, TakeHead DEF TypeOK, DrainSerial
  <2>2. seen' \in History
    BY <1>2, <2>1, HistoryTypes DEF TypeOK, DrainSerial, GiveUp
  <2>3. /\ step' \in Pcs /\ batch' \subseteq Actions
        /\ batch' # {} => step' \in {"first", "parallel", "serial"}
    BY <1>2, <2>1 DEF TypeOK, DrainSerial, Pcs
  <2> QED
    BY <1>2, <2>1, <2>2, <2>3 DEF TypeOK, DrainSerial
<1>3. CASE BeginStep \/ DrainEnds \/ Settle \/ ScheduleNext
  BY <1>3 DEF TypeOK, BeginStep, DrainEnds, Settle, ScheduleNext, Pcs
<1> QED
  BY <1>1, <1>2, <1>3

LEMMA HandlerTypes ==
  ASSUME TypeOK, UNCHANGED risky, Handlers \/ \E r \in runtime : RuntimeAnswers(r)
  PROVE  TypeOK'
<1>1. ASSUME NEW r \in runtime, RuntimeAnswers(r)
      PROVE  TypeOK'
  <2>1. [act |-> r.act, born |-> r.born, cause |-> r.cause, at |-> "sent"] \in Obs
    BY <1>1 DEF TypeOK, Run, Obs
  <2> QED
    BY <1>1, <2>1 DEF TypeOK, RuntimeAnswers, Obs
<1>2. ASSUME NEW o \in inbox, NEW at \in {"sent", "hook", "observe"}, MoveTo(o, at)
      PROVE  inbox' \subseteq Obs
  <2>1. inbox \subseteq Obs /\ o \in Obs
    BY DEF TypeOK, Obs
  <2>2. [o EXCEPT !.at = at] \in Obs
    BY <2>1 DEF Obs
  <2> QED
    BY <1>2, <2>1, <2>2 DEF MoveTo
<1>3. ASSUME NEW o \in inbox, Arrives(o)
      PROVE  TypeOK'
  <2>1. inbox' \subseteq Obs /\ wake' \in BOOLEAN /\ o.act \in Actions
    <3>1. inbox \subseteq Obs /\ o \in Obs /\ o.act \in Actions
      BY <1>3 DEF TypeOK, Obs
    <3> QED
      BY <1>2, <1>3, <3>1 DEF TypeOK, Arrives, MayWake
  <2>2. seen' \in History
    BY <1>3, <2>1, HistoryTypes DEF TypeOK, Arrives
  <2> QED
    BY <1>3, <2>1, <2>2 DEF TypeOK, Arrives
<1>4. ASSUME NEW o \in inbox, Resolve(o)
      PROVE  TypeOK'
  <2>1. inbox' \subseteq Obs /\ wake' \in BOOLEAN
    BY <1>2, <1>4 DEF TypeOK, Resolve, MayWake
  <2>2. DOMAIN rows' \subseteq Nat \cup {Unassigned} /\ rows' \in [DOMAIN rows' -> Actions]
    <3>1. rows' = rows \/ rows' = Without(rows, o.cause)
      BY <1>4 DEF Resolve
    <3>2. /\ DOMAIN rows \subseteq Nat \cup {Unassigned} /\ rows \in [DOMAIN rows -> Actions]
          /\ Without(rows, o.cause) \in [DOMAIN rows \ {o.cause} -> Actions]
      BY WithoutRow DEF TypeOK
    <3> QED
      BY <3>1, <3>2
  <2> QED
    BY <1>4, <2>1, <2>2 DEF TypeOK, Resolve
<1>5. ASSUME NEW o \in inbox, Observed(o)
      PROVE  TypeOK'
  BY <1>5 DEF TypeOK, Observed
<1>6. ASSUME NEW o \in inbox, HandlerTimesOut(o)
      PROVE  TypeOK'
  <2>1. seen' \in History
    BY <1>6, QueueValues, HistoryTypes DEF TypeOK, HandlerTimesOut, GiveUp
  <2> QED
    BY <1>6, <2>1, EmptyTable DEF TypeOK, HandlerTimesOut
<1> QED
  BY <1>1, <1>3, <1>4, <1>5, <1>6 DEF Handlers

\* Every id in the table has been given out.
Types == TypeOK /\ \A id \in DOMAIN rows : id < nextId

\* A set of integers with bounds has a largest member: _primary_entry finds one.
LEMMA Largest ==
  ASSUME NEW D, NEW m \in Int, NEW n \in Int, D \subseteq m .. n, D # {}
  PROVE  \E k \in D : \A j \in D : j <= k
<1> DEFINE Above(k) == {j \in D : j > k}
           T == {Above(k) : k \in D}
<1>0. T # {}
  OBVIOUS
<1>1. T \subseteq FiniteSubsetsOf(D) /\ T # {}
  <2>1. IsFiniteSet(D)
    BY FS_Interval, FS_Subset
  <2>2. SUBSET D = FiniteSubsetsOf(D)
    BY <2>1, FS_FiniteSubsetsOfFinite
  <2>3. T \subseteq SUBSET D
    OBVIOUS
  <2> QED
    BY <2>2, <2>3, <1>0
<1>2. PICK x \in T : \A y \in T : <<y, x>> \notin StrictSubsetOrdering(D)
  <2>1. IsWellFoundedOn(StrictSubsetOrdering(D), FiniteSubsetsOf(D))
    BY FS_StrictSubsetOrderingWellFounded
  <2> HIDE DEF T
  <2> QED
    BY <1>1, <2>1, WFMin
<1>3. PICK k \in D : x = Above(k)
  BY <1>2
<1>4. ASSUME NEW j \in D, ~(j <= k)
      PROVE  FALSE
  <2>1. D \subseteq Int /\ j \in Int /\ k \in Int /\ j > k
    BY <1>4
  <2>2. /\ j \in Above(k) /\ j \notin Above(j)
        /\ \A i \in Above(j) : i \in D /\ i \in Above(k)
    BY <2>1
  <2>3. <<Above(j), Above(k)>> \in StrictSubsetOrdering(D)
    <3>1. Above(j) \in SUBSET D /\ Above(k) \in SUBSET D
      OBVIOUS
    <3> HIDE DEF Above
    <3> QED
      BY <2>2, <3>1 DEF StrictSubsetOrdering
  <2>4. Above(j) \in T
    BY <1>4
  <2> HIDE DEF Above, T
  <2> QED
    BY <1>2, <1>3, <2>3, <2>4
<1> QED
  BY <1>3, <1>4

LEMMA PrimaryRow ==
  ASSUME Types, Outstanding
  PROVE  Primary \in DOMAIN rows /\ rows[Primary] \in Actions /\ \A j \in DOMAIN rows : j <= Primary
<1>1. DOMAIN rows \subseteq -1 .. nextId - 1 /\ DOMAIN rows # {} /\ nextId - 1 \in Int /\ -1 \in Int
  BY DEF Types, TypeOK, Outstanding, Unassigned
<1>2. \E k \in DOMAIN rows : \A j \in DOMAIN rows : j <= k
  BY <1>1, Largest
<1> QED
  BY <1>2 DEF Primary, Types, TypeOK

\* What the runtime and the handlers hold under another id.
LEMMA RenamedTypes ==
  ASSUME TypeOK, NEW k
  PROVE  /\ Renamed(runtime, k) \subseteq Run
         /\ (inbox \ Handling) \cup Renamed(Handling, k) \subseteq Obs
<1>1. \A x \in runtime : x \in Run /\ [x EXCEPT !.cause = nextId] \in Run
  BY DEF TypeOK, Run
<1>2. inbox \subseteq Obs /\ \A x \in inbox : [x EXCEPT !.cause = nextId] \in Obs
  BY DEF TypeOK, Obs
<1> QED
  BY <1>1, <1>2 DEF Renamed, Handling

LEMMA DecideTypes ==
  ASSUME Types, UNCHANGED risky, NEW approve \in BOOLEAN, Decide(approve)
  PROVE  TypeOK'
<1>1. CASE Outstanding
  <2>1. DecideOn(Primary, approve)
    BY <1>1 DEF Decide
  <2>2. Primary \in DOMAIN rows /\ rows[Primary] \in Actions
    BY <1>1, PrimaryRow
  <2> DEFINE k == Primary
  <2> HIDE DEF k
  <2>3. /\ k \in DOMAIN rows /\ rows[k] \in Actions /\ DecideOn(k, approve)
    BY <2>1, <2>2 DEF k
  <2>4. DOMAIN rows \ {k} \subseteq Nat \cup {Unassigned} /\ rows \in [DOMAIN rows -> Actions]
    BY DEF Types, TypeOK
  <2>5. Without(rows, k) \in [DOMAIN rows \ {k} -> Actions]
    BY <2>4, WithoutRow
  <2>6. /\ DOMAIN rows' \subseteq Nat \cup {Unassigned} /\ rows' \in [DOMAIN rows' -> Actions]
        /\ runtime' \subseteq Run /\ nextId' \in Nat
    BY <2>3, <2>4, <2>5, PublishTypes, RenamedTypes DEF Types, DecideOn
  <2>7. inbox' \subseteq Obs
    BY <2>3, RenamedTypes DEF Types, DecideOn
  <2>8. seen' \in History
    <3> DEFINE A == IF approve THEN {dialog} \cap Actions ELSE {}
               n == IF approve THEN 1 ELSE 0
    <3>1. A \in SUBSET Actions /\ n \in Nat
      OBVIOUS
    <3>2. seen' = [seen EXCEPT !.approved = @ \cup A, !.executions[rows[k]] = @ + n]
      BY <2>3 DEF DecideOn
    <3> HIDE DEF A, n
    <3> QED
      BY <2>3, <3>1, <3>2, HistoryTypes DEF Types, TypeOK
  <2> QED
    BY <2>3, <2>6, <2>7, <2>8 DEF Types, TypeOK, Decide, DecideOn, Obs
<1>2. CASE ~Outstanding
  <2> DEFINE A == IF approve THEN {dialog} \cap Actions ELSE {}
  <2>1. A \in SUBSET Actions
    OBVIOUS
  <2>2. seen' = [seen EXCEPT !.approved = @ \cup A]
    BY <1>2 DEF Decide, DecideOnNothing
  <2> HIDE DEF A
  <2>3. seen' \in History
    BY <2>1, <2>2, HistoryTypes DEF Types, TypeOK
  <2> QED
    BY <1>2, <2>3 DEF Types, TypeOK, Decide, DecideOnNothing
<1> QED
  BY <1>1, <1>2

LEMMA UserTypes ==
  ASSUME Types, UNCHANGED risky, User
  PROVE  TypeOK'
<1>1. CASE ShowDialog
  <2>1. dialog' \in Actions \cup {Nobody}
    BY <1>1, PrimaryRow DEF ShowDialog
  <2> QED
    BY <1>1, <2>1 DEF Types, TypeOK, ShowDialog
<1>2. ASSUME NEW approve \in BOOLEAN, Decide(approve)
      PROVE  TypeOK'
  BY <1>2, DecideTypes
<1>3. CASE UserMessage
  <2>1. seen' \in History
    BY <1>3, QueueValues, HistoryTypes DEF Types, TypeOK, UserMessage, GiveUp
  <2>2. turns' \in 0 .. MaxTurns
    BY <1>3, PendingConstants DEF Types, TypeOK, UserMessage
  <2> QED
    BY <1>3, <2>1, <2>2, EmptyTable DEF Types, TypeOK, UserMessage
<1>4. CASE Stop
  <2>1. Values(queue) \in SUBSET Actions /\ batch \cup Values(rows) \in SUBSET Actions
    BY QueueValues DEF Types, TypeOK
  <2>2. seen' \in History
    <3>1. seen' = [seen EXCEPT !.answered = @ \cup Values(queue),
                               !.abandoned = @ \cup (batch \cup Values(rows))]
      BY <1>4 DEF Stop, Types, TypeOK, History
    <3> QED
      BY <2>1, <3>1, HistoryTypes DEF Types, TypeOK
  <2> QED
    BY <1>4, <2>2, EmptyTable DEF Types, TypeOK, Stop, Pcs
<1> QED
  BY <1>1, <1>2, <1>3, <1>4 DEF User

LEMMA TimerTypes ==
  ASSUME TypeOK, UNCHANGED risky, Timers
  PROVE  TypeOK'
<1>1. ASSUME NEW id \in DOMAIN rows, Expires(id)
      PROVE  TypeOK'
  <2>1. DOMAIN rows' \subseteq Nat \cup {Unassigned} /\ rows' \in [DOMAIN rows' -> Actions]
    BY <1>1, WithoutRow DEF TypeOK, Expires
  <2>2. seen' \in History
    <3>1. {rows[id]} \in SUBSET Actions
      BY <1>1 DEF TypeOK
    <3> QED
      BY <1>1, <3>1, HistoryTypes DEF TypeOK, Expires
  <2> QED
    BY <1>1, <2>1, <2>2 DEF TypeOK, Expires
<1>2. CASE PendingWatchdogFires \/ StallWatchdogFires
  BY <1>2 DEF TypeOK, PendingWatchdogFires, StallWatchdogFires
<1> QED
  BY <1>1, <1>2 DEF Timers

-----------------------------------------------------------------------------
(* What the steps do to the table *)

\* The step task, short of execute_action.
StepMoves == BeginStep \/ GetAction \/ DrainParallel \/ DrainSerial \/ DrainEnds \/ Settle
             \/ ScheduleNext

\* It does not touch the table.
LEMMA MovesEffect ==
  ASSUME StepMoves
  PROVE  UNCHANGED <<rows, serialOnly, runtime, inbox, dialog, nextId, turns>>
BY DEF StepMoves, BeginStep, GetAction, DrainParallel, DrainSerial, DrainEnds, Settle,
       ScheduleNext

LEMMA PublishEffect ==
  ASSUME NEW a, NEW table, NEW running, Publish(a, table, running)
  PROVE  /\ DOMAIN rows' = DOMAIN table \cup {nextId}
         /\ rows'[nextId] = a
         /\ \A k \in DOMAIN table : k # nextId => rows'[k] = table[k]
         /\ runtime' = running \cup {[act |-> a, born |-> nextId, cause |-> nextId]}
         /\ nextId' = nextId + 1
BY DEF Publish, Put

LEMMA InitIds == Init => Types
BY InitTypes, EmptyTable DEF Types, Init

LEMMA TypesStep == Types /\ [Next /\ UNCHANGED risky]_<<risky, vars>> => Types'
<1> SUFFICES ASSUME Types, [Next /\ UNCHANGED risky]_<<risky, vars>> PROVE Types'
  OBVIOUS
<1>1. TypeOK /\ UNCHANGED risky
  BY DEF Types
<1>2. CASE UNCHANGED vars
  BY <1>1, <1>2 DEF Types, TypeOK, vars
<1>3. CASE Next
  <2>1. TypeOK'
    <3>1. CASE StepTask
      BY <1>1, <3>1, ExecuteTypes, GetActionTypes, DrainTypes DEF StepTask
    <3> QED
      BY <1>1, <1>3, <3>1, HandlerTypes, UserTypes, TimerTypes DEF Next
  <2>2. ASSUME DOMAIN rows' \subseteq DOMAIN rows \cup {Unassigned}, nextId' = nextId
        PROVE  \A id \in DOMAIN rows' : id < nextId'
    BY <2>2 DEF Types, TypeOK, Unassigned
  <2>3. ASSUME DOMAIN rows' \subseteq DOMAIN rows \cup {nextId}, nextId' = nextId + 1
        PROVE  \A id \in DOMAIN rows' : id < nextId'
    BY <2>3 DEF Types, TypeOK, Unassigned
  <2>4. ASSUME StepMoves
        PROVE  \A id \in DOMAIN rows' : id < nextId'
    <3>1. rows' = rows /\ nextId' = nextId
      BY <2>4, MovesEffect
    <3> QED
      BY <2>2, <3>1
  <2>5. ASSUME Execute
        PROVE  \A id \in DOMAIN rows' : id < nextId'
    <3>1. PICK a \in Actions : ExecuteNow(a) \/ AskUser(a) \/ CannotAsk(a) \/ Blocked(a)
      BY <2>5 DEF Execute
    <3>2. CASE ExecuteNow(a)
      <4>1. Publish(a, rows, runtime)
        BY <3>2 DEF ExecuteNow
      <4>2. DOMAIN rows' = DOMAIN rows \cup {nextId} /\ nextId' = nextId + 1
        BY <4>1, PublishEffect
      <4> QED
        BY <2>3, <4>2
    <3>3. CASE AskUser(a) \/ CannotAsk(a) \/ Blocked(a)
      <4>1. /\ nextId' = nextId
            /\ \/ rows' = rows \/ rows' = Put(rows, Unassigned, a)
               \/ rows' = Without(rows, Unassigned)
        BY <3>3 DEF AskUser, CannotAsk, Blocked
      <4>2. DOMAIN rows' \subseteq DOMAIN rows \cup {Unassigned}
        BY <4>1 DEF Put, Without
      <4> QED
        BY <2>2, <4>1, <4>2
    <3> QED
      BY <3>1, <3>2, <3>3
  <2>6. ASSUME \/ \E r \in runtime : RuntimeAnswers(r)
               \/ Handlers \/ Timers \/ ShowDialog \/ UserMessage \/ Stop
        PROVE  \A id \in DOMAIN rows' : id < nextId'
    <3>1. DOMAIN rows' \subseteq DOMAIN rows /\ nextId' = nextId
      <4>1. /\ nextId' = nextId
            /\ rows' = rows \/ rows' = <<>> \/ \E id : rows' = Without(rows, id)
        BY <2>6
           DEF RuntimeAnswers, Handlers, Arrives, Resolve, Observed, HandlerTimesOut, Timers,
               Expires, PendingWatchdogFires, StallWatchdogFires, ShowDialog, UserMessage, Stop
      <4> QED
        BY <4>1, EmptyTable DEF Without
    <3> QED
      BY <2>2, <3>1
  <2>7. ASSUME NEW approve \in BOOLEAN, Decide(approve)
        PROVE  \A id \in DOMAIN rows' : id < nextId'
    <3>1. CASE Outstanding
      <4>1. Publish(rows[Primary], Without(rows, Primary), Renamed(runtime, Primary))
        BY <2>7, <3>1 DEF Decide, DecideOn
      <4>2. /\ DOMAIN rows' = (DOMAIN rows \ {Primary}) \cup {nextId}
            /\ nextId' = nextId + 1
        <5>1. DOMAIN rows' = DOMAIN Without(rows, Primary) \cup {nextId} /\ nextId' = nextId + 1
          BY <4>1, PublishEffect
        <5> QED
          BY <5>1, WithoutRow
      <4> QED
        BY <2>3, <4>2
    <3>2. CASE ~Outstanding
      BY <2>2, <2>7, <3>2 DEF Decide, DecideOnNothing
    <3> QED
      BY <3>1, <3>2
  <2> QED
    BY <1>3, <2>1, <2>4, <2>5, <2>6, <2>7 DEF Types, Next, StepTask, StepMoves, User
<1> QED
  BY <1>2, <1>3

LEMMA TypesInvariant == Spec => []Types
BY InitIds, TypesStep, PTL DEF Spec

\* Every value the services compute is of its type, and execute_action runs only while the
\* step is where it is called from.
THEOREM PendingTypes == Spec => []TypeOK
<1>1. Types => TypeOK
  BY DEF Types
<1> QED
  BY <1>1, TypesInvariant, PTL

-----------------------------------------------------------------------------
(* One action at a time, and the user's consent *)

\* The runtime, the handlers of observations and the timers only take rows away.
Outside == (\E r \in runtime : RuntimeAnswers(r)) \/ Handlers \/ Timers

LEMMA OutsideEffect ==
  ASSUME Outside
  PROVE  /\ UNCHANGED <<agent, queue, serialOnly, step, batch, dialog, nextId, turns>>
         /\ DOMAIN rows' \subseteq DOMAIN rows /\ \A k \in DOMAIN rows' : rows'[k] = rows[k]
<1>1. /\ UNCHANGED <<agent, queue, serialOnly, step, batch, dialog, nextId, turns>>
      /\ rows' = rows \/ rows' = <<>> \/ \E id : rows' = Without(rows, id)
  BY DEF Outside, RuntimeAnswers, Handlers, Arrives, Resolve, Observed, HandlerTimesOut, Timers,
         Expires, PendingWatchdogFires, StallWatchdogFires
<1> QED
  BY <1>1, EmptyTable DEF Without

\* In the step's hands there is something only while nobody is asked.
LEMMA NobodyAsked ==
  ASSUME Serial, Consent, batch # {}
  PROVE  agent # "confirming" /\ Unassigned \notin DOMAIN rows /\ dialog = Closed
BY DEF Serial, Consent, AskedWhileConfirming

\* execute_action publishes, or asks about the only action there is, or replies itself.
Replies(a) == /\ UNCHANGED <<agent, rows, queue, serialOnly, wake, runtime, inbox, dialog,
                             nextId, turns>>
              /\ seen' = [seen EXCEPT !.answered = @ \cup {a}]

Asks(a) == /\ ~Parallel /\ agent = "running" /\ ~Outstanding /\ a \in risky
           /\ agent' = "confirming"
           /\ DOMAIN rows' = {Unassigned} /\ rows'[Unassigned] = a
           /\ UNCHANGED <<queue, serialOnly, wake, runtime, inbox, dialog, nextId, turns, seen>>

LEMMA ExecuteEffect ==
  ASSUME Types, NoConsentInBatch, Serial, Consent, Execute
  PROVE  \E a \in Actions : Passes(a) /\ (ExecuteNow(a) \/ Asks(a) \/ Replies(a))
<1>1. PICK a \in Actions : ExecuteNow(a) \/ AskUser(a) \/ CannotAsk(a) \/ Blocked(a)
  BY DEF Execute
<1>2. Passes(a) /\ a \in batch
  BY <1>1 DEF ExecuteNow, AskUser, CannotAsk, Blocked, Passes
<1>3. step \in {"first", "parallel", "serial"}
  BY <1>2 DEF Types, TypeOK
<1>4. CASE ExecuteNow(a)
  BY <1>2, <1>4
<1>5. CASE AskUser(a)
  <2>1. ~Parallel /\ a \in risky
    BY <1>5 DEF AskUser, NoConsentInBatch
  <2>2. ~Outstanding /\ agent = "running"
    BY <1>2, <1>3, <2>1 DEF Serial
  <2>3. DOMAIN rows' = {Unassigned} /\ rows'[Unassigned] = a
    BY <1>5, <2>2 DEF AskUser, Put, Outstanding
  <2> QED
    BY <1>2, <1>5, <2>1, <2>2, <2>3 DEF AskUser, Asks
<1>6. CASE CannotAsk(a)
  BY <1>6 DEF CannotAsk, NoConsentInBatch, Serial
<1>7. CASE Blocked(a)
  <2>1. Unassigned \notin DOMAIN rows /\ rows \in [DOMAIN rows -> Actions]
    BY <1>2, NobodyAsked DEF Types, TypeOK
  <2>2. Without(rows, Unassigned) = rows
    BY <2>1 DEF Without
  <2> QED
    BY <1>2, <1>7, <2>2 DEF Blocked, Replies
<1> QED
  BY <1>1, <1>4, <1>5, <1>6, <1>7

\* The user decides on what the dialog shows, or on nothing.
Releases(approve) ==
  /\ dialog \in Actions /\ DOMAIN rows = {Unassigned} /\ rows[Unassigned] = dialog
  /\ DOMAIN rows' = {nextId} /\ rows'[nextId] = dialog
  /\ runtime' = runtime \cup {[act |-> dialog, born |-> nextId, cause |-> nextId]}
  /\ inbox' = inbox /\ nextId' = nextId + 1
  /\ seen' = [seen EXCEPT !.approved = @ \cup (IF approve THEN {dialog} \cap Actions ELSE {}),
                          !.executions[dialog] = @ + IF approve THEN 1 ELSE 0]

LEMMA DecideEffect ==
  ASSUME Types, Consent, NEW approve \in BOOLEAN, Decide(approve)
  PROVE  /\ agent = "confirming" /\ ~Parallel /\ agent' \in {"running", "input"}
         /\ dialog' = Closed /\ UNCHANGED <<queue, serialOnly, step, batch, turns>>
         /\ \/ Releases(approve)
            \/ /\ DOMAIN rows = {} /\ UNCHANGED <<rows, runtime, inbox, nextId>>
               /\ seen' = [seen EXCEPT !.approved =
                             @ \cup (IF approve THEN {dialog} \cap Actions ELSE {})]
<1>1. /\ agent = "confirming" /\ ~Parallel /\ DOMAIN rows \subseteq {Unassigned}
      /\ Outstanding => dialog = rows[Unassigned]
      /\ dialog' = Closed /\ UNCHANGED <<queue, serialOnly, step, batch, turns>>
  BY DEF Decide, Consent
<1>2. CASE Outstanding
  <2>1. DecideOn(Primary, approve)
    BY <1>2 DEF Decide
  <2>2. Primary = Unassigned /\ rows[Unassigned] = dialog /\ dialog \in Actions
        /\ DOMAIN rows = {Unassigned}
    BY <1>1, <1>2, PrimaryRow DEF Outstanding
  <2>3. /\ Publish(dialog, Without(rows, Unassigned), Renamed(runtime, Unassigned))
        /\ inbox' = (inbox \ Handling) \cup Renamed(Handling, Unassigned)
        /\ seen' = [seen EXCEPT !.approved = @ \cup (IF approve THEN {dialog} \cap Actions ELSE {}),
                                !.executions[dialog] = @ + IF approve THEN 1 ELSE 0]
        /\ agent' \in {"running", "input"}
    BY <2>1, <2>2 DEF DecideOn
  <2>4. Renamed(runtime, Unassigned) = runtime /\ Renamed(Handling, Unassigned) = Handling
    <3>1. \A x \in runtime \cup inbox : x.cause # Unassigned
      BY DEF Types, TypeOK, Run, Obs, Unassigned
    <3> QED
      BY <3>1 DEF Renamed, Handling
  <2>5. inbox' = inbox
    BY <2>3, <2>4 DEF Handling
  <2>6. DOMAIN Without(rows, Unassigned) = {}
    BY <2>2 DEF Without
  <2>7. /\ DOMAIN rows' = {nextId} /\ rows'[nextId] = dialog /\ nextId' = nextId + 1
        /\ runtime' = runtime \cup {[act |-> dialog, born |-> nextId, cause |-> nextId]}
    BY <2>3, <2>4, <2>6, PublishEffect
  <2> QED
    BY <1>1, <2>2, <2>3, <2>5, <2>7 DEF Releases
<1>3. CASE ~Outstanding
  BY <1>1, <1>3 DEF Decide, DecideOnNothing, Outstanding
<1> QED
  BY <1>2, <1>3

LEMMA SerialStep ==
  ASSUME Types, NoConsentInBatch, Serial, Consent, Next
  PROVE  Serial'
<1> USE DEF Outstanding
<1>1. CASE StepMoves
  <2>1. rows' = rows
    BY <1>1, MovesEffect
  <2>2. CASE BeginStep
    BY <2>1, <2>2 DEF Types, TypeOK, Serial, BeginStep, CanStep
  <2>3. CASE GetAction
    <3>1. step = "asking" /\ batch = {} /\ DOMAIN rows = {}
      BY <2>3 DEF GetAction, Serial, Types, TypeOK
    <3>2. \/ \E a : /\ step' = IF agent = "running" THEN "first" ELSE "draining"
                    /\ batch' = IF agent = "running" THEN {a} ELSE {}
                    /\ agent' = agent
          \/ step' \in {"draining", "idle"} /\ batch' = batch
      BY <2>3 DEF GetAction, NextQueued, Answers, Finishes, HandOver
    <3> QED
      BY <2>1, <3>1, <3>2 DEF Serial
  <2>4. CASE DrainParallel
    BY <2>4 DEF DrainParallel, BatchAllowed, Serial
  <2>5. CASE DrainSerial
    BY <2>1, <2>5 DEF DrainSerial, Types, TypeOK, Serial
  <2>6. CASE DrainEnds \/ Settle \/ ScheduleNext
    BY <2>6 DEF DrainEnds, Settle, ScheduleNext, Types, TypeOK, Serial
  <2> QED
    BY <1>1, <2>2, <2>3, <2>4, <2>5, <2>6 DEF StepMoves
<1>2. CASE Execute
  <2>1. PICK a \in Actions : Passes(a) /\ (ExecuteNow(a) \/ Asks(a) \/ Replies(a))
    BY <1>2, ExecuteEffect
  <2>2. /\ batch' = batch \ {a} /\ a \in batch
        /\ step \in {"first", "parallel", "serial"}
        /\ batch' # {} => step' = step
        /\ batch' = {} => step' \in {"draining", "scheduling", "settling"}
    BY <2>1, PassesTypes DEF Types, Passes
  <2>3. ~Parallel => batch' = {}
    BY <2>2 DEF Serial
  <2> QED
    BY <2>2, <2>3 DEF Serial
<1>3. CASE Outside
  BY <1>3, OutsideEffect DEF Serial
<1>4. CASE ShowDialog
  BY <1>4 DEF ShowDialog, Serial
<1>5. ASSUME NEW approve \in BOOLEAN, Decide(approve)
      PROVE  Serial'
  <2>1. /\ agent = "confirming" /\ ~Parallel /\ UNCHANGED <<step, batch>>
        /\ rows' = rows \/ DOMAIN rows = {Unassigned}
    BY <1>5, DecideEffect DEF Releases
  <2> QED
    BY <2>1 DEF Serial
<1>6. CASE UserMessage
  BY <1>6, EmptyTable DEF UserMessage, Serial
<1>7. CASE Stop
  BY <1>7, EmptyTable DEF Stop, Serial
<1> QED
  BY <1>1, <1>2, <1>3, <1>4, <1>5, <1>6, <1>7 DEF Next, StepTask, StepMoves, Outside, User

LEMMA ConsentStep ==
  ASSUME Types, NoConsentInBatch, Serial, Consent, Next
  PROVE  Consent'
<1> USE DEF Outstanding, Unassigned, AskedWhileConfirming
<1>1. CASE StepMoves
  <2>1. rows' = rows /\ dialog' = dialog
    BY <1>1, MovesEffect
  <2>2. agent' = agent \/ (agent = "running" /\ agent' = "input")
    BY <1>1 DEF StepMoves, BeginStep, GetAction, DrainParallel, DrainSerial, DrainEnds, Settle,
                ScheduleNext, NextQueued, Answers, Finishes, HandOver
  <2> QED
    BY <2>1, <2>2 DEF Consent
<1>2. CASE Execute
  <2>1. PICK a \in Actions : Passes(a) /\ (ExecuteNow(a) \/ Asks(a) \/ Replies(a))
    BY <1>2, ExecuteEffect
  <2>2. agent # "confirming" /\ Unassigned \notin DOMAIN rows /\ dialog = Closed
    BY <2>1, NobodyAsked DEF Passes
  <2>3. CASE ExecuteNow(a)
    <3>1. DOMAIN rows' = DOMAIN rows \cup {nextId} /\ nextId \in Nat
      BY <2>3, PublishEffect DEF ExecuteNow, Types, TypeOK
    <3> QED
      BY <2>2, <2>3, <3>1 DEF ExecuteNow, Consent
  <2>4. CASE Asks(a)
    BY <2>2, <2>4 DEF Asks, Consent
  <2>5. CASE Replies(a)
    BY <2>2, <2>5 DEF Replies, Consent
  <2> QED
    BY <2>1, <2>3, <2>4, <2>5
<1>3. CASE Outside
  BY <1>3, OutsideEffect DEF Consent
<1>4. CASE ShowDialog
  BY <1>4, PrimaryRow DEF ShowDialog, Consent
<1>5. ASSUME NEW approve \in BOOLEAN, Decide(approve)
      PROVE  Consent'
  <2>1. /\ agent' # "confirming" /\ dialog' = Closed
        /\ DOMAIN rows' = {nextId} \/ DOMAIN rows' = {}
    BY <1>5, DecideEffect DEF Releases
  <2> QED
    BY <2>1 DEF Consent, Types, TypeOK
<1>6. CASE UserMessage
  BY <1>6, EmptyTable DEF UserMessage, Consent
<1>7. CASE Stop
  BY <1>7, EmptyTable DEF Stop, Consent
<1> QED
  BY <1>1, <1>2, <1>3, <1>4, <1>5, <1>6, <1>7 DEF Next, StepTask, StepMoves, Outside, User

-----------------------------------------------------------------------------
(* Rows, executions and observations *)

\* A new row and its action with the runtime get the next id; the row of the action the user
\* was asked about may go.
LEMMA PublishTable ==
  ASSUME Types, Table, NEW a,
         DOMAIN rows' \subseteq DOMAIN rows \cup {nextId}, rows'[nextId] = a,
         \A k \in DOMAIN rows' : k # nextId => rows'[k] = rows[k],
         runtime' = runtime \cup {[act |-> a, born |-> nextId, cause |-> nextId]},
         inbox' = inbox, nextId' = nextId + 1
  PROVE  Table'
<1> DEFINE new == [act |-> a, born |-> nextId, cause |-> nextId]
<1>1. /\ nextId \in Nat
      /\ \A x \in runtime \cup inbox : x.cause \in Nat /\ x.cause < nextId
  BY DEF Types, TypeOK, Table, Run, Obs
<1>2. new.act = a /\ new.cause = nextId /\ runtime' = runtime \cup {new}
  OBVIOUS
<1> HIDE DEF new
<1>3. ASSUME NEW x \in runtime' \cup inbox'
      PROVE  x.cause < nextId' /\ (x.cause \in DOMAIN rows' => rows'[x.cause] = x.act)
  <2>1. CASE x = new
    BY <1>1, <1>2, <2>1
  <2>2. CASE x \in runtime \cup inbox
    <3>1. x.cause \in Nat /\ x.cause < nextId /\ x.cause # nextId
      BY <1>1, <2>2
    <3>2. x.cause \in DOMAIN rows => rows[x.cause] = x.act
      BY <2>2 DEF Table
    <3> QED
      BY <1>1, <3>1, <3>2
  <2> QED
    BY <1>2, <1>3, <2>1, <2>2
<1>4. ASSUME NEW r \in runtime', NEW q \in runtime', r.cause = q.cause
      PROVE  r = q
  BY <1>1, <1>2, <1>4 DEF Table
<1>5. ASSUME NEW r \in runtime', NEW o \in inbox'
      PROVE  r.cause # o.cause
  BY <1>1, <1>2 DEF Table
<1> QED
  BY <1>3, <1>4, <1>5 DEF Table

\* Each observation being handled was on its way.
LEMMA InboxOrigin ==
  ASSUME Types, Handlers
  PROVE  /\ runtime' = runtime
         /\ \A x \in inbox' : \E o \in inbox : o.act = x.act /\ o.cause = x.cause
<1>1. ASSUME NEW o \in inbox, NEW at, MoveTo(o, at)
      PROVE  \A x \in inbox' : \E y \in inbox : y.act = x.act /\ y.cause = x.cause
  <2>1. o \in Obs
    BY DEF Types, TypeOK
  <2>2. [o EXCEPT !.at = at].act = o.act /\ [o EXCEPT !.at = at].cause = o.cause
    BY <2>1 DEF Obs
  <2> QED
    BY <1>1, <2>2 DEF MoveTo
<1>2. PICK o \in inbox : Arrives(o) \/ Resolve(o) \/ Observed(o) \/ HandlerTimesOut(o)
  BY DEF Handlers
<1>3. runtime' = runtime /\ (inbox' \subseteq inbox \/ \E at : MoveTo(o, at))
  BY <1>2 DEF Arrives, Resolve, Observed, HandlerTimesOut
<1> QED
  BY <1>1, <1>3

\* An answer of the runtime takes the place of its action.
LEMMA AnswerEffect ==
  ASSUME Types, NEW r \in runtime, RuntimeAnswers(r)
  PROVE  \E o \in Obs :
            /\ o.act = r.act /\ o.cause = r.cause /\ o.at = "sent"
            /\ runtime' = runtime \ {r} /\ inbox' = inbox \cup {o} /\ seen' = seen
            /\ rows' = rows /\ nextId' = nextId
<1> DEFINE o == [act |-> r.act, born |-> r.born, cause |-> r.cause, at |-> "sent"]
<1>1. o \in Obs
  BY DEF Types, TypeOK, Run, Obs
<1> QED
  BY <1>1 DEF RuntimeAnswers

LEMMA TableStep ==
  ASSUME Types, NoConsentInBatch, Serial, Consent, Table, Next
  PROVE  Table'
<1>1. ASSUME UNCHANGED <<runtime, inbox, nextId>>,
             \A k \in DOMAIN rows' : k # Unassigned => k \in DOMAIN rows /\ rows'[k] = rows[k]
      PROVE  Table'
  <2>1. \A x \in runtime \cup inbox : x.cause # Unassigned
    BY DEF Types, TypeOK, Run, Obs, Unassigned
  <2> QED
    BY <1>1, <2>1 DEF Table
<1>2. CASE StepMoves
  BY <1>1, <1>2, MovesEffect
<1>3. CASE Execute
  <2>1. PICK a \in Actions : Passes(a) /\ (ExecuteNow(a) \/ Asks(a) \/ Replies(a))
    BY <1>3, ExecuteEffect
  <2>2. CASE ExecuteNow(a)
    <3>1. Publish(a, rows, runtime) /\ inbox' = inbox
      BY <2>2 DEF ExecuteNow
    <3>2. /\ DOMAIN rows' = DOMAIN rows \cup {nextId}
          /\ rows'[nextId] = a
          /\ \A k \in DOMAIN rows : k # nextId => rows'[k] = rows[k]
          /\ runtime' = runtime \cup {[act |-> a, born |-> nextId, cause |-> nextId]}
          /\ nextId' = nextId + 1
      BY <3>1, PublishEffect
    <3> QED
      BY <3>1, <3>2, PublishTable
  <2>3. CASE Asks(a)
    BY <1>1, <2>3 DEF Asks
  <2>4. CASE Replies(a)
    BY <1>1, <2>4 DEF Replies
  <2> QED
    BY <2>1, <2>2, <2>3, <2>4
<1>4. ASSUME NEW r \in runtime, RuntimeAnswers(r)
      PROVE  Table'
  <2>1. PICK o \in Obs :
            /\ o.act = r.act /\ o.cause = r.cause /\ o.at = "sent"
            /\ runtime' = runtime \ {r} /\ inbox' = inbox \cup {o} /\ seen' = seen
            /\ rows' = rows /\ nextId' = nextId
    BY <1>4, AnswerEffect
  <2>2. \A x \in runtime' \cup inbox' :
          x.cause < nextId' /\ (x.cause \in DOMAIN rows' => rows'[x.cause] = x.act)
    BY <2>1 DEF Table
  <2>3. \A q \in runtime' : q.cause # o.cause
    BY <2>1 DEF Table
  <2> QED
    BY <2>1, <2>2, <2>3 DEF Table
<1>5. CASE Handlers
  <2>1. /\ nextId' = nextId
        /\ DOMAIN rows' \subseteq DOMAIN rows /\ \A k \in DOMAIN rows' : rows'[k] = rows[k]
    BY <1>5, OutsideEffect DEF Outside
  <2>2. /\ runtime' = runtime
        /\ \A x \in inbox' : \E o \in inbox : o.act = x.act /\ o.cause = x.cause
    BY <1>5, InboxOrigin
  <2> QED
    BY <2>1, <2>2 DEF Table
<1>6. CASE Timers
  <2>1. UNCHANGED <<runtime, inbox>>
    BY <1>6 DEF Timers, Expires, PendingWatchdogFires, StallWatchdogFires
  <2> QED
    BY <1>1, <1>6, <2>1, OutsideEffect DEF Outside
<1>7. CASE ShowDialog
  BY <1>1, <1>7 DEF ShowDialog
<1>8. ASSUME NEW approve \in BOOLEAN, Decide(approve)
      PROVE  Table'
  <2>1. CASE Releases(approve)
    BY <2>1, PublishTable DEF Releases
  <2>2. CASE ~Releases(approve)
    BY <1>1, <1>8, <2>2, DecideEffect
  <2> QED
    BY <2>1, <2>2
<1>9. CASE UserMessage \/ Stop
  BY <1>1, <1>9, EmptyTable DEF UserMessage, Stop
<1> QED
  BY <1>2, <1>3, <1>4, <1>5, <1>6, <1>7, <1>8, <1>9 DEF Next, StepTask, StepMoves, User

\* The step task itself answers nothing and executes nothing.
LEMMA MovesSeen ==
  ASSUME Types, StepMoves
  PROVE  /\ seen'.answered = seen.answered /\ seen'.timedOut = seen.timedOut
         /\ seen'.approved = seen.approved /\ seen'.executions = seen.executions
         /\ seen.abandoned \subseteq seen'.abandoned /\ seen'.fresh \subseteq seen.fresh
<1>1. seen \in History
  BY DEF Types, TypeOK
<1>2. \/ seen' = seen
      \/ \E A, B : A \subseteq seen.fresh
                   /\ seen' = [seen EXCEPT !.fresh = A, !.abandoned = @ \cup B]
      \/ \E A : A \subseteq seen.fresh /\ seen' = [seen EXCEPT !.fresh = A]
      \/ \E B : seen' = [seen EXCEPT !.abandoned = @ \cup B]
  <2>1. ASSUME NEW a, NEW rest, NEW fresh, fresh \subseteq seen.fresh, HandOver(a, rest, fresh)
        PROVE  \E A, B : A \subseteq seen.fresh
                         /\ seen' = [seen EXCEPT !.fresh = A, !.abandoned = @ \cup B]
    BY <2>1 DEF HandOver
  <2>2. CASE NextQueued
    BY <2>1, <2>2 DEF NextQueued
  <2>3. CASE Answers
    <3>1. \E S : \/ \E q : HandOver(Head(q), Tail(q), seen.fresh \ S)
                 \/ seen' = [seen EXCEPT !.fresh = @ \ S]
      BY <2>3 DEF Answers
    <3> QED
      BY <2>1, <3>1
  <2>4. CASE Finishes
    BY <2>4 DEF Finishes
  <2>5. CASE GetAction
    BY <2>2, <2>3, <2>4, <2>5 DEF GetAction
  <2>6. CASE \/ BeginStep \/ DrainParallel \/ DrainSerial \/ DrainEnds \/ Settle
             \/ ScheduleNext
    BY <2>6 DEF BeginStep, DrainParallel, DrainSerial, DrainEnds, Settle, ScheduleNext, GiveUp
  <2> QED
    BY <2>5, <2>6 DEF StepMoves
<1>3. CASE seen' = seen
  BY <1>3
<1>4. CASE \E A, B : A \subseteq seen.fresh
                     /\ seen' = [seen EXCEPT !.fresh = A, !.abandoned = @ \cup B]
  BY <1>1, <1>4 DEF History
<1>5. CASE \E A : A \subseteq seen.fresh /\ seen' = [seen EXCEPT !.fresh = A]
  BY <1>1, <1>5 DEF History
<1>6. CASE \E B : seen' = [seen EXCEPT !.abandoned = @ \cup B]
  BY <1>1, <1>6 DEF History
<1> QED
  BY <1>2, <1>3, <1>4, <1>5, <1>6

\* An action that is executed leaves the rest of the history alone.
LEMMA ExecuteSeen ==
  ASSUME Types, NEW a \in Actions, ExecuteNow(a)
  PROVE  /\ seen'.fresh = seen.fresh /\ seen'.answered = seen.answered
         /\ seen'.timedOut = seen.timedOut /\ seen'.abandoned = seen.abandoned
         /\ seen'.approved = seen.approved
         /\ seen'.executions[a] = seen.executions[a] + 1
         /\ \A b \in Actions : b # a => seen'.executions[b] = seen.executions[b]
<1>1. seen' = [seen EXCEPT !.executions[a] = @ + 1]
  BY DEF ExecuteNow
<1> QED
  BY <1>1 DEF Types, TypeOK, History

LEMMA ReleaseSeen ==
  ASSUME Types, NEW approve \in BOOLEAN, Releases(approve)
  PROVE  /\ seen'.fresh = seen.fresh /\ seen'.answered = seen.answered
         /\ seen'.timedOut = seen.timedOut /\ seen'.abandoned = seen.abandoned
         /\ seen.approved \subseteq seen'.approved
         /\ approve => dialog \in seen'.approved
         /\ seen'.executions[dialog] = seen.executions[dialog] + IF approve THEN 1 ELSE 0
         /\ \A b \in Actions : b # dialog => seen'.executions[b] = seen.executions[b]
<1>1. /\ dialog \in Actions
      /\ seen' = [seen EXCEPT !.approved = @ \cup (IF approve THEN {dialog} \cap Actions ELSE {}),
                              !.executions[dialog] = @ + IF approve THEN 1 ELSE 0]
  BY DEF Releases
<1> QED
  BY <1>1 DEF Types, TypeOK, History

\* Whatever happens, replies and what was given up stay in the history.
LEMMA HandlerSeen ==
  ASSUME Types, Outside
  PROVE  /\ seen'.fresh = seen.fresh
         /\ seen'.approved = seen.approved /\ seen'.executions = seen.executions
         /\ seen.answered \subseteq seen'.answered
         /\ seen.timedOut \subseteq seen'.timedOut /\ seen.abandoned \subseteq seen'.abandoned
<1>1. \/ seen' = seen
      \/ \E A : seen' = [seen EXCEPT !.answered = @ \cup A]
      \/ \E A : seen' = [seen EXCEPT !.abandoned = @ \cup A]
      \/ \E A : seen' = [seen EXCEPT !.timedOut = @ \cup A]
  BY DEF Outside, Handlers, RuntimeAnswers, Arrives, Resolve, Observed, HandlerTimesOut, Timers,
         Expires, PendingWatchdogFires, StallWatchdogFires, GiveUp
<1>2. seen \in History
  BY DEF Types, TypeOK
<1> QED
  BY <1>1, <1>2 DEF History

\* The same of the user's message and of stop(), which give up every row.
LEMMA PreemptSeen ==
  ASSUME Types, UserMessage \/ Stop
  PROVE  /\ seen'.fresh = seen.fresh /\ seen'.timedOut = seen.timedOut
         /\ seen'.approved = seen.approved /\ seen'.executions = seen.executions
         /\ seen'.answered = seen.answered \cup IF Stop THEN Values(queue) ELSE {}
         /\ seen.abandoned \cup Values(rows) \subseteq seen'.abandoned
         /\ Stop => batch \subseteq seen'.abandoned
<1>1. seen \in History
  BY DEF Types, TypeOK
<1>2. CASE Stop
  <2>1. seen' = [seen EXCEPT !.answered = @ \cup Values(queue),
                             !.abandoned = @ \cup batch \cup Values(rows)]
    BY <1>2 DEF Stop
  <2> QED
    BY <1>1, <1>2, <2>1 DEF History
<1>3. CASE UserMessage /\ ~Stop
  <2>1. seen' = [seen EXCEPT !.abandoned = @ \cup Values(rows)]
    BY <1>3 DEF UserMessage, GiveUp
  <2> QED
    BY <1>1, <1>3, <2>1 DEF History
<1> QED
  BY <1>2, <1>3

LEMMA RowsAwaitedStep ==
  ASSUME Types, NoConsentInBatch, Serial, Consent, Table, RowsAwaited, Next
  PROVE  RowsAwaited'
<1>1. ASSUME UNCHANGED <<runtime, inbox>>, seen.answered \subseteq seen'.answered,
             DOMAIN rows' \subseteq DOMAIN rows \cup {Unassigned}
      PROVE  RowsAwaited'
  <2>1. \A x \in inbox : x.cause # Unassigned
    BY DEF Types, TypeOK, Obs, Unassigned
  <2> QED
    BY <1>1, <2>1 DEF RowsAwaited
<1>2. ASSUME NEW a, DOMAIN rows' \subseteq DOMAIN rows \cup {nextId}, inbox' = inbox,
             runtime' = runtime \cup {[act |-> a, born |-> nextId, cause |-> nextId]},
             seen.answered \subseteq seen'.answered
      PROVE  RowsAwaited'
  <2> DEFINE new == [act |-> a, born |-> nextId, cause |-> nextId]
  <2>1. new.cause = nextId /\ runtime' = runtime \cup {new}
    BY <1>2
  <2> HIDE DEF new
  <2>2. \A o \in inbox : o.cause # nextId
    BY DEF Types, TypeOK, Obs, Table
  <2> QED
    BY <1>2, <2>1, <2>2 DEF RowsAwaited
<1>3. CASE StepMoves
  BY <1>1, <1>3, MovesEffect, MovesSeen
<1>4. CASE Execute
  <2>1. PICK a \in Actions : Passes(a) /\ (ExecuteNow(a) \/ Asks(a) \/ Replies(a))
    BY <1>4, ExecuteEffect
  <2>2. CASE ExecuteNow(a)
    <3>1. Publish(a, rows, runtime) /\ inbox' = inbox /\ seen'.answered = seen.answered
      BY <2>2, ExecuteSeen DEF ExecuteNow
    <3>2. /\ DOMAIN rows' = DOMAIN rows \cup {nextId}
          /\ runtime' = runtime \cup {[act |-> a, born |-> nextId, cause |-> nextId]}
      BY <3>1, PublishEffect
    <3> QED
      BY <1>2, <3>1, <3>2
  <2>3. CASE Asks(a)
    BY <1>1, <2>3 DEF Asks
  <2>4. CASE Replies(a)
    <3>1. seen.answered \subseteq seen'.answered
      BY <2>4 DEF Replies, Types, TypeOK, History
    <3> QED
      BY <1>1, <2>4, <3>1 DEF Replies
  <2> QED
    BY <2>1, <2>2, <2>3, <2>4
<1>5. ASSUME NEW r \in runtime, RuntimeAnswers(r)
      PROVE  RowsAwaited'
  <2>1. PICK o \in Obs :
            /\ o.act = r.act /\ o.cause = r.cause /\ o.at = "sent"
            /\ runtime' = runtime \ {r} /\ inbox' = inbox \cup {o} /\ seen' = seen
            /\ rows' = rows /\ nextId' = nextId
    BY <1>5, AnswerEffect
  <2> QED
    BY <2>1 DEF RowsAwaited
<1>6. ASSUME NEW o \in inbox, Arrives(o) \/ Resolve(o)
      PROVE  RowsAwaited'
  <2>1. o \in Obs /\ runtime' = runtime /\ seen.answered \subseteq seen'.answered
    BY <1>6, HandlerSeen DEF Outside, Handlers, Types, TypeOK, Arrives, Resolve
  <2>2. o.act \in seen'.answered
    <3>1. CASE Arrives(o)
      BY <2>1, <3>1 DEF Arrives, Types, TypeOK, History
    <3>2. CASE Resolve(o)
      BY <2>1, <3>2 DEF Resolve, RowsAwaited
    <3> QED
      BY <1>6, <3>1, <3>2
  <2>3. ASSUME NEW at \in {"hook", "observe"}, MoveTo(o, at), DOMAIN rows' \subseteq DOMAIN rows,
               at = "observe" => o.cause \notin DOMAIN rows'
        PROVE  RowsAwaited'
    <3> DEFINE m == [o EXCEPT !.at = at]
    <3>1. m.act = o.act /\ m.cause = o.cause /\ m.at = at /\ inbox' = (inbox \ {o}) \cup {m}
      BY <2>1, <2>3 DEF MoveTo, Obs
    <3> HIDE DEF m
    <3> QED
      BY <2>1, <2>2, <2>3, <3>1 DEF RowsAwaited
  <2>4. ASSUME inbox' = inbox \ {o}, rows' = rows, o.cause \notin DOMAIN rows \ {Unassigned}
        PROVE  RowsAwaited'
    BY <2>1, <2>4 DEF RowsAwaited
  <2>5. CASE Arrives(o)
    BY <2>3, <2>4, <2>5 DEF Arrives
  <2>6. CASE Resolve(o)
    <3>1. CASE agent = "confirming"
      BY <2>4, <2>6, <3>1 DEF Resolve, Consent
    <3>2. CASE agent # "confirming"
      <4>1. MoveTo(o, "observe") /\ DOMAIN rows' = DOMAIN rows \ {o.cause}
        BY <2>6, <3>2 DEF Resolve, Without
      <4> QED
        BY <2>3, <4>1
    <3> QED
      BY <3>1, <3>2
  <2> QED
    BY <1>6, <2>5, <2>6
<1>7. ASSUME NEW o \in inbox, Observed(o)
      PROVE  RowsAwaited'
  BY <1>7 DEF Observed, RowsAwaited
<1>8. ASSUME NEW o \in inbox, HandlerTimesOut(o)
      PROVE  RowsAwaited'
  <2>1. DOMAIN rows' = {} /\ inbox' \subseteq inbox /\ seen.answered \subseteq seen'.answered
    BY <1>8, EmptyTable, HandlerSeen DEF HandlerTimesOut, Outside, Handlers
  <2> QED
    BY <2>1 DEF RowsAwaited
<1>9. CASE Timers
  <2>1. UNCHANGED <<runtime, inbox>>
    BY <1>9 DEF Timers, Expires, PendingWatchdogFires, StallWatchdogFires
  <2> QED
    BY <1>1, <1>9, <2>1, OutsideEffect, HandlerSeen DEF Outside
<1>10. CASE ShowDialog
  BY <1>1, <1>10 DEF ShowDialog
<1>11. ASSUME NEW approve \in BOOLEAN, Decide(approve)
       PROVE  RowsAwaited'
  <2>1. CASE Releases(approve)
    BY <1>2, <2>1, ReleaseSeen DEF Releases
  <2>2. CASE ~Releases(approve)
    <3>1. /\ UNCHANGED <<rows, runtime, inbox>>
          /\ seen' = [seen EXCEPT !.approved =
                        @ \cup (IF approve THEN {dialog} \cap Actions ELSE {})]
      BY <1>11, <2>2, DecideEffect
    <3>2. seen'.answered = seen.answered
      BY <3>1 DEF Types, TypeOK, History
    <3> QED
      BY <1>1, <3>1, <3>2
  <2> QED
    BY <2>1, <2>2
<1>12. CASE UserMessage \/ Stop
  <2>1. seen.answered \subseteq seen'.answered
    BY <1>12, PreemptSeen
  <2> QED
    BY <1>1, <1>12, <2>1, EmptyTable DEF UserMessage, Stop
<1> QED
  BY <1>3, <1>4, <1>5, <1>6, <1>7, <1>8, <1>9, <1>10, <1>11, <1>12
     DEF Next, StepTask, StepMoves, Handlers, User

\* A handler that takes too long gives up every row.
LEMMA TimeoutSeen ==
  ASSUME Types, NEW o, HandlerTimesOut(o)
  PROVE  /\ seen'.answered = seen.answered /\ seen'.timedOut = seen.timedOut
         /\ seen'.abandoned = seen.abandoned \cup Values(rows)
BY DEF HandlerTimesOut, GiveUp, Types, TypeOK, History

\* A row that expires leaves its action in the history.
LEMMA ExpirySeen ==
  ASSUME Types, NEW id, Expires(id)
  PROVE  /\ seen'.answered = seen.answered /\ seen'.abandoned = seen.abandoned
         /\ seen'.timedOut = seen.timedOut \cup {rows[id]}
BY DEF Expires, Types, TypeOK, History

LEMMA RunsAccountedStep ==
  ASSUME Types, NoConsentInBatch, Serial, Consent, Table, RunsAccounted, Next
  PROVE  RunsAccounted'
<1>1. ASSUME runtime' \subseteq runtime, DOMAIN rows \subseteq DOMAIN rows' \cup {Unassigned},
             seen.timedOut \cup seen.abandoned \subseteq seen'.timedOut \cup seen'.abandoned
      PROVE  RunsAccounted'
  <2>1. \A x \in runtime : x.cause # Unassigned
    BY DEF Types, TypeOK, Run, Unassigned
  <2> QED
    BY <1>1, <2>1 DEF RunsAccounted
<1>2. ASSUME NEW a, nextId \in DOMAIN rows', DOMAIN rows \subseteq DOMAIN rows' \cup {Unassigned},
             runtime' = runtime \cup {[act |-> a, born |-> nextId, cause |-> nextId]},
             seen'.timedOut = seen.timedOut, seen'.abandoned = seen.abandoned
      PROVE  RunsAccounted'
  <2> DEFINE new == [act |-> a, born |-> nextId, cause |-> nextId]
  <2>1. new.cause = nextId /\ runtime' = runtime \cup {new}
    BY <1>2
  <2> HIDE DEF new
  <2>2. \A x \in runtime : x.cause # Unassigned
    BY DEF Types, TypeOK, Run, Unassigned
  <2> QED
    BY <1>2, <2>1, <2>2 DEF RunsAccounted
<1>3. ASSUME runtime' = runtime, Values(rows) \subseteq seen'.abandoned,
             seen.timedOut \cup seen.abandoned \subseteq seen'.timedOut \cup seen'.abandoned
      PROVE  RunsAccounted'
  <2>1. \A x \in runtime : x.cause \in DOMAIN rows => x.act \in Values(rows)
    BY DEF Table, Values
  <2> QED
    BY <1>3, <2>1 DEF RunsAccounted
<1>4. CASE StepMoves
  BY <1>1, <1>4, MovesEffect, MovesSeen
<1>5. CASE Execute
  <2>1. PICK a \in Actions : Passes(a) /\ (ExecuteNow(a) \/ Asks(a) \/ Replies(a))
    BY <1>5, ExecuteEffect
  <2>2. CASE ExecuteNow(a)
    <3>1. Publish(a, rows, runtime)
      BY <2>2 DEF ExecuteNow
    <3>2. /\ DOMAIN rows' = DOMAIN rows \cup {nextId}
          /\ runtime' = runtime \cup {[act |-> a, born |-> nextId, cause |-> nextId]}
      BY <3>1, PublishEffect
    <3>3. seen'.timedOut = seen.timedOut /\ seen'.abandoned = seen.abandoned
      BY <2>2, ExecuteSeen
    <3> QED
      BY <1>2, <3>2, <3>3
  <2>3. CASE Asks(a)
    BY <1>1, <2>3 DEF Asks, Outstanding
  <2>4. CASE Replies(a)
    <3>1. seen'.timedOut = seen.timedOut /\ seen'.abandoned = seen.abandoned
      BY <2>4 DEF Replies, Types, TypeOK, History
    <3> QED
      BY <1>1, <2>4, <3>1 DEF Replies
  <2> QED
    BY <2>1, <2>2, <2>3, <2>4
<1>6. ASSUME NEW r \in runtime, RuntimeAnswers(r)
      PROVE  RunsAccounted'
  BY <1>1, <1>6 DEF RuntimeAnswers
<1>7. ASSUME NEW o \in inbox, Arrives(o) \/ Observed(o)
      PROVE  RunsAccounted'
  <2>1. /\ UNCHANGED <<runtime, rows>>
        /\ seen'.timedOut = seen.timedOut /\ seen'.abandoned = seen.abandoned
    BY <1>7 DEF Arrives, Observed, Types, TypeOK, History
  <2> QED
    BY <1>1, <2>1
<1>8. ASSUME NEW o \in inbox, Resolve(o)
      PROVE  RunsAccounted'
  <2>1. /\ UNCHANGED <<runtime, seen>>
        /\ DOMAIN rows \subseteq DOMAIN rows' \cup {o.cause}
    BY <1>8 DEF Resolve, Without
  <2>2. \A r \in runtime : r.cause # o.cause
    BY DEF Table
  <2> QED
    BY <2>1, <2>2 DEF RunsAccounted
<1>9. ASSUME NEW o \in inbox, HandlerTimesOut(o)
      PROVE  RunsAccounted'
  <2>1. runtime' = runtime
    BY <1>9 DEF HandlerTimesOut
  <2> QED
    BY <1>3, <1>9, <2>1, TimeoutSeen
<1>10. CASE Timers
  <2>1. ASSUME NEW id \in DOMAIN rows, Expires(id)
        PROVE  RunsAccounted'
    <3>1. /\ runtime' = runtime /\ DOMAIN rows \subseteq DOMAIN rows' \cup {id}
      BY <2>1 DEF Expires, Without
    <3>2. \A r \in runtime : r.cause = id => r.act = rows[id]
      BY DEF Table
    <3> QED
      BY <2>1, <3>1, <3>2, ExpirySeen DEF RunsAccounted
  <2>2. CASE PendingWatchdogFires \/ StallWatchdogFires
    BY <1>1, <2>2 DEF PendingWatchdogFires, StallWatchdogFires
  <2> QED
    BY <1>10, <2>1, <2>2 DEF Timers
<1>11. CASE ShowDialog
  BY <1>1, <1>11 DEF ShowDialog
<1>12. ASSUME NEW approve \in BOOLEAN, Decide(approve)
       PROVE  RunsAccounted'
  <2>1. CASE Releases(approve)
    BY <1>2, <2>1, ReleaseSeen DEF Releases
  <2>2. CASE ~Releases(approve)
    <3>1. /\ UNCHANGED <<rows, runtime, inbox>>
          /\ seen' = [seen EXCEPT !.approved =
                        @ \cup (IF approve THEN {dialog} \cap Actions ELSE {})]
      BY <1>12, <2>2, DecideEffect
    <3>2. seen'.timedOut = seen.timedOut /\ seen'.abandoned = seen.abandoned
      BY <3>1 DEF Types, TypeOK, History
    <3> QED
      BY <1>1, <3>1, <3>2
  <2> QED
    BY <2>1, <2>2
<1>13. CASE UserMessage \/ Stop
  <2>1. runtime' = runtime
    BY <1>13 DEF UserMessage, Stop
  <2> QED
    BY <1>3, <1>13, <2>1, PreemptSeen
<1> QED
  BY <1>4, <1>5, <1>6, <1>7, <1>8, <1>9, <1>10, <1>11, <1>12, <1>13
     DEF Next, StepTask, StepMoves, Handlers, User

-----------------------------------------------------------------------------
(* No call is lost, and each is in one place *)

\* The step task hands tool calls on: from the answer to the queue, from there to
\* execute_action, or gives them up.
HandsOn ==
  /\ seen'.fresh \subseteq seen.fresh
  /\ seen.fresh \cup Values(queue) \cup batch
       \subseteq seen'.fresh \cup Values(queue') \cup batch' \cup seen'.abandoned
  /\ seen'.fresh \cup Values(queue') \cup batch' \subseteq seen.fresh \cup Values(queue) \cup batch

\* It never has one twice.
Apart(fresh, q, hands) ==
  /\ fresh \cap (Values(q) \cup hands) = {}
  /\ Values(q) \cap hands = {}
  /\ \A i, j \in DOMAIN q : q[i] = q[j] => i = j

LEMMA HandOverPlaces ==
  ASSUME Types, batch = {}, NEW q \in Seq(Actions), q # <<>>, NEW fresh \in SUBSET Actions,
         fresh \subseteq seen.fresh, HandOver(Head(q), Tail(q), fresh),
         seen.fresh \cup Values(queue) = fresh \cup Values(q)
  PROVE  HandsOn /\ (Apart(fresh, q, {}) => Apart(seen'.fresh, queue', batch'))
<1>1. /\ Values(q) = {Head(q)} \cup Values(Tail(q))
      /\ (\A i, j \in DOMAIN q : q[i] = q[j] => i = j)
            => /\ Head(q) \notin Values(Tail(q))
               /\ \A i, j \in DOMAIN Tail(q) : Tail(q)[i] = Tail(q)[j] => i = j
  BY TakeHead
<1>2. /\ queue' = Tail(q)
      /\ batch' = IF agent = "running" THEN {Head(q)} ELSE {}
      /\ seen' = [seen EXCEPT !.fresh = fresh,
                              !.abandoned = @ \cup IF agent = "running" THEN {} ELSE {Head(q)}]
  BY DEF HandOver
<1>3. /\ seen'.fresh = fresh
      /\ seen'.abandoned = seen.abandoned \cup IF agent = "running" THEN {} ELSE {Head(q)}
  BY <1>2 DEF Types, TypeOK, History
<1>4. HandsOn
  BY <1>1, <1>2, <1>3 DEF HandsOn
<1>5. ASSUME Apart(fresh, q, {})
      PROVE  Apart(seen'.fresh, queue', batch')
  BY <1>1, <1>2, <1>3, <1>5 DEF Apart
<1> QED
  BY <1>4, <1>5

LEMMA MovesPlaces ==
  ASSUME Types, StepMoves
  PROVE  HandsOn /\ (Apart(seen.fresh, queue, batch) => Apart(seen'.fresh, queue', batch'))
<1>0. seen \in History /\ queue \in Seq(Actions) /\ seen.fresh \in SUBSET Actions
  BY DEF Types, TypeOK, History
<1>1. CASE GetAction
  <2>1. batch = {}
    BY <1>1 DEF GetAction, Types, TypeOK
  <2>2. CASE NextQueued
    BY <1>0, <2>1, <2>2, HandOverPlaces DEF NextQueued
  <2>3. CASE Answers
    <3>0. PICK S \in (SUBSET seen.fresh) \ {{}} :
                 \E q \in Orders(S) :
                   \/ HandOver(Head(q), Tail(q), seen.fresh \ S)
                   \/ /\ queue' = q
                      /\ step' = "draining"
                      /\ seen' = [seen EXCEPT !.fresh = @ \ S]
                      /\ UNCHANGED <<agent, batch>>
      BY <2>3 DEF Answers
    <3>1. PICK q \in Orders(S) :
                 \/ HandOver(Head(q), Tail(q), seen.fresh \ S)
                 \/ /\ queue' = q
                    /\ step' = "draining"
                    /\ seen' = [seen EXCEPT !.fresh = @ \ S]
                    /\ UNCHANGED <<agent, batch>>
      BY <3>0
    <3>2. S \in SUBSET Actions /\ S # {} /\ S \subseteq seen.fresh
      BY <1>0
    <3>3. /\ q \in Seq(Actions) /\ q # <<>> /\ Values(q) = S
          /\ \A i, j \in DOMAIN q : q[i] = q[j] => i = j
      BY <3>2, AnswerQueue
    <3>4. queue = <<>> /\ Values(queue) = {}
      BY <2>3, EmptyTable DEF Answers
    <3>5. Apart(seen.fresh \ S, q, {}) /\ seen.fresh \ S \in SUBSET Actions
      BY <1>0, <3>3 DEF Apart
    <3>6. CASE HandOver(Head(q), Tail(q), seen.fresh \ S)
      <4>1. seen.fresh \cup Values(queue) = (seen.fresh \ S) \cup Values(q)
        BY <3>2, <3>3, <3>4
      <4> QED
        BY <2>1, <3>3, <3>5, <3>6, <4>1, HandOverPlaces
    <3>7. CASE /\ queue' = q
               /\ step' = "draining"
               /\ seen' = [seen EXCEPT !.fresh = @ \ S]
               /\ UNCHANGED <<agent, batch>>
      <4>1. seen'.fresh = seen.fresh \ S /\ batch' = {} /\ queue' = q
        BY <1>0, <2>1, <3>7 DEF History
      <4> QED
        BY <2>1, <3>2, <3>3, <3>4, <3>5, <4>1 DEF HandsOn
    <3> QED
      BY <3>1, <3>6, <3>7
  <2>4. CASE Finishes
    BY <2>4 DEF Finishes, HandsOn
  <2> QED
    BY <1>1, <2>2, <2>3, <2>4 DEF GetAction
<1>2. CASE DrainParallel
  <2>1. batch = {} /\ batch' = Values(queue) /\ queue' = <<>> /\ seen' = seen
    BY <1>2 DEF DrainParallel, Types, TypeOK
  <2> QED
    BY <2>1, EmptyTable DEF HandsOn, Apart
<1>3. CASE DrainSerial
  <2>1. batch = {} /\ queue # <<>> /\ queue' = Tail(queue)
    BY <1>3 DEF DrainSerial, Types, TypeOK
  <2>2. /\ Values(queue) = {Head(queue)} \cup Values(Tail(queue))
        /\ (\A i, j \in DOMAIN queue : queue[i] = queue[j] => i = j)
              => /\ Head(queue) \notin Values(Tail(queue))
                 /\ \A i, j \in DOMAIN Tail(queue) : Tail(queue)[i] = Tail(queue)[j] => i = j
    BY <1>0, <2>1, TakeHead
  <2>3. /\ seen'.fresh = seen.fresh
        /\ \/ batch' = {Head(queue)}
           \/ batch' = {} /\ Head(queue) \in seen'.abandoned
    BY <1>0, <1>3, <2>1 DEF DrainSerial, GiveUp, History
  <2> QED
    BY <2>1, <2>2, <2>3 DEF HandsOn, Apart
<1>4. CASE BeginStep \/ DrainEnds \/ Settle \/ ScheduleNext
  BY <1>4 DEF BeginStep, DrainEnds, Settle, ScheduleNext, HandsOn
<1> QED
  BY <1>1, <1>2, <1>3, <1>4 DEF StepMoves

\* All the places a tool call can be in.
Located == seen.fresh \cup Values(queue) \cup batch \cup Values(rows)
             \cup seen.answered \cup seen.timedOut \cup seen.abandoned
             \cup {x.act : x \in runtime \cup inbox}

LEMMA LocatedStep ==
  ASSUME Types, NoConsentInBatch, Serial, Consent, Table, RowsAwaited, Next
  PROVE  Located \subseteq Located'
<1>1. CASE StepMoves
  <2>1. HandsOn /\ UNCHANGED <<rows, runtime, inbox>>
    BY <1>1, MovesPlaces, MovesEffect
  <2>2. /\ seen'.answered = seen.answered /\ seen'.timedOut = seen.timedOut
        /\ seen.abandoned \subseteq seen'.abandoned
    BY <1>1, MovesSeen
  <2> QED
    BY <2>1, <2>2 DEF HandsOn, Located
<1>2. CASE Execute
  <2>1. PICK a \in Actions : Passes(a) /\ (ExecuteNow(a) \/ Asks(a) \/ Replies(a))
    BY <1>2, ExecuteEffect
  <2>2. batch' = batch \ {a}
    BY <2>1 DEF Passes
  <2>3. CASE ExecuteNow(a)
    <3>1. Publish(a, rows, runtime) /\ UNCHANGED <<queue, inbox>>
      BY <2>3 DEF ExecuteNow
    <3>2. /\ DOMAIN rows' = DOMAIN rows \cup {nextId} /\ rows'[nextId] = a
          /\ \A k \in DOMAIN rows : k # nextId => rows'[k] = rows[k]
          /\ runtime \subseteq runtime'
      <4>1. /\ DOMAIN rows' = DOMAIN rows \cup {nextId} /\ rows'[nextId] = a
            /\ \A k \in DOMAIN rows : k # nextId => rows'[k] = rows[k]
            /\ runtime' = runtime \cup {[act |-> a, born |-> nextId, cause |-> nextId]}
        BY <3>1, PublishEffect
      <4> QED
        BY <4>1
    <3>3. nextId \notin DOMAIN rows
      BY DEF Types, TypeOK, Unassigned
    <3>4. Values(rows) \cup {a} \subseteq Values(rows')
      BY <3>2, <3>3 DEF Values
    <3>5. /\ seen'.fresh = seen.fresh /\ seen'.answered = seen.answered
          /\ seen'.timedOut = seen.timedOut /\ seen'.abandoned = seen.abandoned
      BY <2>3, ExecuteSeen
    <3> QED
      BY <2>2, <3>1, <3>2, <3>4, <3>5 DEF Located
  <2>4. CASE Asks(a)
    <3>1. Values(rows) = {} /\ a \in Values(rows')
      BY <2>4 DEF Asks, Outstanding, Values
    <3> QED
      BY <2>2, <2>4, <3>1 DEF Asks, Located
  <2>5. CASE Replies(a)
    <3>1. /\ seen'.fresh = seen.fresh /\ seen'.answered = seen.answered \cup {a}
          /\ seen'.timedOut = seen.timedOut /\ seen'.abandoned = seen.abandoned
      BY <2>5 DEF Replies, Types, TypeOK, History
    <3> QED
      BY <2>2, <2>5, <3>1 DEF Replies, Located
  <2> QED
    BY <2>1, <2>3, <2>4, <2>5
<1>3. ASSUME NEW r \in runtime, RuntimeAnswers(r)
      PROVE  Located \subseteq Located'
  <2>1. PICK o \in Obs :
            /\ o.act = r.act /\ o.cause = r.cause /\ o.at = "sent"
            /\ runtime' = runtime \ {r} /\ inbox' = inbox \cup {o} /\ seen' = seen
            /\ rows' = rows /\ nextId' = nextId
    BY <1>3, AnswerEffect
  <2>2. UNCHANGED <<queue, batch>>
    BY <1>3 DEF RuntimeAnswers
  <2>3. {x.act : x \in runtime \cup inbox} \subseteq {x.act : x \in runtime' \cup inbox'}
    BY <2>1
  <2> QED
    BY <2>1, <2>2, <2>3 DEF Located
<1>4. ASSUME NEW o \in inbox, o.act \in seen'.answered, runtime' = runtime,
             inbox \ {o} \subseteq inbox', UNCHANGED <<queue, batch>>,
             seen'.fresh = seen.fresh, seen'.timedOut = seen.timedOut,
             seen.answered \subseteq seen'.answered, seen.abandoned \subseteq seen'.abandoned,
             Values(rows) \subseteq Values(rows') \cup seen'.abandoned \cup seen'.answered
      PROVE  Located \subseteq Located'
  <2>1. {x.act : x \in runtime \cup inbox}
          \subseteq {x.act : x \in runtime' \cup inbox'} \cup seen'.answered
    BY <1>4
  <2> QED
    BY <1>4, <2>1 DEF Located
<1>5. ASSUME NEW o \in inbox, Arrives(o)
      PROVE  Located \subseteq Located'
  <2>1. /\ seen'.fresh = seen.fresh /\ seen'.answered = seen.answered \cup {o.act}
        /\ seen'.timedOut = seen.timedOut /\ seen'.abandoned = seen.abandoned
    BY <1>5 DEF Arrives, Types, TypeOK, History
  <2>2. UNCHANGED <<queue, batch, rows, runtime>> /\ inbox \ {o} \subseteq inbox'
    BY <1>5 DEF Arrives, MoveTo
  <2> QED
    BY <1>4, <2>1, <2>2
<1>6. ASSUME NEW o \in inbox, Resolve(o)
      PROVE  Located \subseteq Located'
  <2>1. /\ UNCHANGED <<queue, batch, runtime, seen>> /\ inbox \ {o} \subseteq inbox'
        /\ rows' = rows \/ rows' = Without(rows, o.cause)
    BY <1>6 DEF Resolve, MoveTo
  <2>2. o.act \in seen.answered
    BY <1>6 DEF Resolve, RowsAwaited
  <2>3. Values(rows) \subseteq Values(rows') \cup {o.act}
    <3>1. o.cause \in DOMAIN rows => rows[o.cause] = o.act
      BY DEF Table
    <3> QED
      BY <2>1, <3>1 DEF Values, Without
  <2> QED
    BY <1>4, <2>1, <2>2, <2>3
<1>7. ASSUME NEW o \in inbox, Observed(o)
      PROVE  Located \subseteq Located'
  <2>1. UNCHANGED <<queue, batch, runtime, seen, rows>> /\ inbox' = inbox \ {o}
    BY <1>7 DEF Observed
  <2>2. o.act \in seen.answered
    BY <1>7 DEF Observed, RowsAwaited
  <2> QED
    BY <1>4, <2>1, <2>2
<1>8. ASSUME NEW o \in inbox, HandlerTimesOut(o)
      PROVE  Located \subseteq Located'
  <2>1. UNCHANGED <<queue, batch, runtime>> /\ inbox' = inbox \ {o}
    BY <1>8 DEF HandlerTimesOut
  <2>2. o.act \in seen.answered
    BY <1>8 DEF HandlerTimesOut, RowsAwaited
  <2>3. seen'.fresh = seen.fresh
    BY <1>8, HandlerSeen DEF Outside, Handlers
  <2> QED
    BY <1>4, <1>8, <2>1, <2>2, <2>3, TimeoutSeen
<1>9. ASSUME NEW id \in DOMAIN rows, Expires(id)
      PROVE  Located \subseteq Located'
  <2>1. UNCHANGED <<queue, batch, runtime, inbox>> /\ rows' = Without(rows, id)
    BY <1>9 DEF Expires
  <2>2. Values(rows) \subseteq Values(rows') \cup {rows[id]}
    BY <2>1 DEF Values, Without
  <2>3. seen'.fresh = seen.fresh
    BY <1>9, HandlerSeen DEF Outside, Timers
  <2> QED
    BY <1>9, <2>1, <2>2, <2>3, ExpirySeen DEF Located
<1>10. CASE PendingWatchdogFires \/ StallWatchdogFires \/ ShowDialog
  BY <1>10 DEF PendingWatchdogFires, StallWatchdogFires, ShowDialog, Located
<1>11. ASSUME NEW approve \in BOOLEAN, Decide(approve)
       PROVE  Located \subseteq Located'
  <2>1. UNCHANGED <<queue, batch>>
    BY <1>11, DecideEffect
  <2>2. CASE Releases(approve)
    <3>1. Values(rows) = {dialog} /\ Values(rows') = {dialog}
      BY <2>2 DEF Releases, Values
    <3>2. runtime \subseteq runtime' /\ inbox' = inbox
      BY <2>2 DEF Releases
    <3> QED
      BY <2>1, <2>2, <3>1, <3>2, ReleaseSeen DEF Located
  <2>3. CASE ~Releases(approve)
    <3>1. /\ UNCHANGED <<rows, runtime, inbox>>
          /\ seen' = [seen EXCEPT !.approved =
                        @ \cup (IF approve THEN {dialog} \cap Actions ELSE {})]
      BY <1>11, <2>3, DecideEffect
    <3>2. /\ seen'.fresh = seen.fresh /\ seen'.answered = seen.answered
          /\ seen'.timedOut = seen.timedOut /\ seen'.abandoned = seen.abandoned
      BY <3>1 DEF Types, TypeOK, History
    <3> QED
      BY <2>1, <3>1, <3>2 DEF Located
  <2> QED
    BY <2>2, <2>3
<1>12. CASE UserMessage \/ Stop
  <2>1. /\ UNCHANGED <<runtime, inbox>>
        /\ (queue' = queue /\ batch' = batch) \/ Stop
    BY <1>12 DEF UserMessage, Stop
  <2> QED
    BY <1>12, <2>1, PreemptSeen DEF Located
<1> QED
  BY <1>1, <1>2, <1>3, <1>5, <1>6, <1>7, <1>8, <1>9, <1>10, <1>11, <1>12
     DEF Next, StepTask, StepMoves, Handlers, Timers, User

LEMMA LocatedMeans == NoConsentInBatch => (NoCallIsLost <=> Actions \subseteq Located)
BY DEF NoCallIsLost, Located

\* A step that publishes nothing and gives replies only to what is neither unpublished nor
\* with the runtime.
LEMMA QuietStep ==
  ASSUME Types, UNCHANGED risky, Untouched, ExecutedOnce, NothingRunsUnapproved,
         Unpublished' \subseteq Unpublished, NEW N,
         seen'.answered \subseteq seen.answered \cup N, N \cap Unpublished' = {},
         \A r \in runtime : r.act \notin N,
         seen'.executions = seen.executions, seen.approved \subseteq seen'.approved,
         runtime' \subseteq runtime, \A x \in inbox' : \E o \in inbox : o.act = x.act
  PROVE  Untouched' /\ ExecutedOnce' /\ NothingRunsUnapproved'
<1>1. Untouched'
  <2>1. \A a \in Unpublished' : /\ seen'.executions[a] = 0 /\ a \notin seen'.answered
                                /\ \A x \in runtime' \cup inbox' : x.act # a
    <3> SUFFICES ASSUME NEW a \in Unpublished'
                 PROVE  /\ seen'.executions[a] = 0 /\ a \notin seen'.answered
                        /\ \A x \in runtime' \cup inbox' : x.act # a
      OBVIOUS
    <3>1. /\ a \in Unpublished /\ a \notin N
      OBVIOUS
    <3> QED
      BY <3>1 DEF Untouched
  <2>2. \A r \in runtime' : r.act \notin seen'.answered
    BY DEF Untouched
  <2>3. \A r, q \in runtime' : r.act = q.act => r = q
    BY DEF Untouched
  <2>4. \A r \in runtime', o \in inbox' : r.act # o.act
    BY DEF Untouched
  <2> QED
    BY <2>1, <2>2, <2>3, <2>4 DEF Untouched
<1> QED
  BY <1>1 DEF ExecutedOnce, NothingRunsUnapproved

\* A step that publishes an action nobody has seen before, if need be with the user's consent.
LEMMA PublishStep ==
  ASSUME Types, UNCHANGED risky, Untouched, ExecutedOnce, NothingRunsUnapproved,
         NEW a \in Unpublished, a \in Actions, Unpublished' \subseteq Unpublished \ {a},
         NEW n \in {0, 1}, seen'.executions[a] = seen.executions[a] + n,
         \A b \in Actions : b # a => seen'.executions[b] = seen.executions[b],
         n = 1 /\ a \in risky => a \in seen'.approved, seen.approved \subseteq seen'.approved,
         seen'.answered = seen.answered, inbox' = inbox,
         runtime' = runtime \cup {[act |-> a, born |-> nextId, cause |-> nextId]}
  PROVE  Untouched' /\ ExecutedOnce' /\ NothingRunsUnapproved'
<1> DEFINE new == [act |-> a, born |-> nextId, cause |-> nextId]
<1>1. new.act = a /\ runtime' = runtime \cup {new}
  OBVIOUS
<1> HIDE DEF new
<1>2. /\ seen.executions[a] = 0 /\ a \notin seen.answered
      /\ \A x \in runtime \cup inbox : x.act # a
  BY DEF Untouched
<1>3. Unpublished' \subseteq Actions
  <2>1. Unpublished \subseteq Actions
    BY QueueValues DEF Unpublished, Held, Types, TypeOK, History
  <2> QED
    BY <2>1
<1>4. Untouched'
  <2>1. \A b \in Unpublished' : /\ seen'.executions[b] = 0 /\ b \notin seen'.answered
                                /\ \A x \in runtime' \cup inbox' : x.act # b
    <3> SUFFICES ASSUME NEW b \in Unpublished'
                 PROVE  /\ seen'.executions[b] = 0 /\ b \notin seen'.answered
                        /\ \A x \in runtime' \cup inbox' : x.act # b
      OBVIOUS
    <3>1. b \in Unpublished /\ b # a /\ b \in Actions
      BY <1>3
    <3> QED
      BY <1>1, <3>1 DEF Untouched
  <2>2. \A r \in runtime' : r.act \notin seen'.answered
    BY <1>1, <1>2 DEF Untouched
  <2>3. \A r, q \in runtime' : r.act = q.act => r = q
    BY <1>1, <1>2 DEF Untouched
  <2>4. \A r \in runtime', o \in inbox' : r.act # o.act
    BY <1>1, <1>2 DEF Untouched
  <2> QED
    BY <2>1, <2>2, <2>3, <2>4 DEF Untouched
<1>5. ExecutedOnce'
  BY <1>2 DEF ExecutedOnce
<1>6. NothingRunsUnapproved'
  <2> SUFFICES ASSUME NEW b \in risky, seen'.executions[b] > 0
               PROVE  b \in seen'.approved
    BY DEF NothingRunsUnapproved
  <2>1. b \in Actions
    BY PendingConstants DEF Types, TypeOK
  <2>2. CASE b = a
    BY <1>2, <2>2
  <2>3. CASE b # a
    BY <2>1, <2>3 DEF NothingRunsUnapproved
  <2> QED
    BY <2>2, <2>3
<1> QED
  BY <1>4, <1>5, <1>6

LEMMA OnePlaceParts ==
  OnePlace <=> Apart(seen.fresh, queue, batch)
               /\ Held \cap (seen.fresh \cup Values(queue) \cup batch) = {}
BY DEF OnePlace, Apart

\* The table keeps what waits for the user, or loses it.
LEMMA HeldStays ==
  ASSUME Unassigned \in DOMAIN rows'
           => Unassigned \in DOMAIN rows /\ rows'[Unassigned] = rows[Unassigned]
  PROVE  Held' \subseteq Held
BY DEF Held

\* A step that takes tool calls away, at most.
LEMMA FewerPlaces ==
  ASSUME OnePlace, seen'.fresh = seen.fresh, queue' = queue \/ queue' = <<>>,
         batch' \subseteq batch, Held' \subseteq Held
  PROVE  OnePlace' /\ Unpublished' \subseteq Unpublished
<1>1. CASE queue' = queue
  BY <1>1 DEF OnePlace, Unpublished
<1>2. CASE queue' = <<>>
  BY <1>2, EmptyTable DEF OnePlace, Unpublished
<1> QED
  BY <1>1, <1>2

LEMMA PlacesStep ==
  ASSUME Types, UNCHANGED risky, NoConsentInBatch, Serial, Consent, Table, RowsAwaited, Places, Next
  PROVE  Places'
<1>0. OnePlace /\ Untouched /\ ExecutedOnce /\ NothingRunsUnapproved
  BY DEF Places
<1>1. ASSUME OnePlace', Unpublished' \subseteq Unpublished, seen'.answered = seen.answered,
             seen'.executions = seen.executions, seen.approved \subseteq seen'.approved,
             runtime' \subseteq runtime, \A x \in inbox' : \E o \in inbox : o.act = x.act
      PROVE  Places'
  <2>1. {} \cap Unpublished' = {}
    OBVIOUS
  <2>2. seen'.answered \subseteq seen.answered \cup {}
    BY <1>1
  <2> QED
    BY <1>0, <1>1, <2>1, <2>2, QuietStep DEF Places
<1>2. \A x \in runtime \cup inbox : x.cause # Unassigned
  BY DEF Types, TypeOK, Run, Obs, Unassigned
<1>3. CASE StepMoves
  <2>1. HandsOn /\ Apart(seen'.fresh, queue', batch') /\ UNCHANGED <<rows, runtime, inbox>>
    BY <1>0, <1>3, MovesPlaces, MovesEffect, OnePlaceParts
  <2>2. Held' = Held
    BY <2>1 DEF Held
  <2>3. Unpublished' \subseteq Unpublished
    BY <2>1, <2>2 DEF HandsOn, Unpublished
  <2>4. OnePlace'
    BY <1>0, <2>1, <2>2 DEF OnePlace, Apart, HandsOn
  <2> QED
    BY <1>1, <1>3, <2>1, <2>3, <2>4, MovesSeen
<1>4. CASE Execute
  <2>1. PICK a \in Actions : Passes(a) /\ (ExecuteNow(a) \/ Asks(a) \/ Replies(a))
    BY <1>4, ExecuteEffect
  <2>2. batch' = batch \ {a} /\ a \in batch /\ Held = {}
    BY <2>1, NobodyAsked DEF Passes, Held
  <2>3. a \in Unpublished /\ a \notin seen.fresh \cup Values(queue)
    BY <1>0, <2>2 DEF OnePlace, Unpublished
  <2>4. CASE ExecuteNow(a)
    <3>1. Publish(a, rows, runtime) /\ UNCHANGED <<queue, inbox>> /\ a \notin risky
      BY <2>4 DEF ExecuteNow
    <3>2. /\ DOMAIN rows' = DOMAIN rows \cup {nextId}
          /\ runtime' = runtime \cup {[act |-> a, born |-> nextId, cause |-> nextId]}
      BY <3>1, PublishEffect
    <3>3. Held' = {}
      <4>1. Unassigned \notin DOMAIN rows
        BY <2>2, NobodyAsked
      <4> QED
        BY <3>2, <4>1 DEF Held, Types, TypeOK, Unassigned
    <3>4. seen'.fresh = seen.fresh
      BY <2>4, ExecuteSeen
    <3>5. OnePlace'
      BY <1>0, <2>2, <3>1, <3>3, <3>4, FewerPlaces
    <3>6. Unpublished' \subseteq Unpublished \ {a}
      BY <2>2, <2>3, <3>1, <3>3, <3>4 DEF Unpublished
    <3>7. Untouched' /\ ExecutedOnce' /\ NothingRunsUnapproved'
      BY <1>0, <2>3, <2>4, <3>1, <3>2, <3>6, ExecuteSeen, PublishStep
    <3> QED
      BY <3>5, <3>7 DEF Places
  <2>5. CASE Asks(a)
    <3>1. Held' = {a} /\ UNCHANGED <<queue, runtime, inbox, seen>>
      BY <2>5 DEF Asks, Held
    <3>2. OnePlace' /\ Unpublished' \subseteq Unpublished
      BY <1>0, <2>2, <2>3, <3>1 DEF OnePlace, Unpublished
    <3> QED
      BY <1>1, <3>1, <3>2
  <2>6. CASE Replies(a)
    <3>1. /\ seen'.fresh = seen.fresh /\ seen'.answered = seen.answered \cup {a}
          /\ seen'.approved = seen.approved /\ seen'.executions = seen.executions
      BY <2>6 DEF Replies, Types, TypeOK, History
    <3>2. UNCHANGED <<queue, rows, runtime, inbox>> /\ Held' = Held
      BY <2>6 DEF Replies, Held
    <3>3. OnePlace' /\ Unpublished' \subseteq Unpublished
      BY <1>0, <2>2, <3>1, <3>2, FewerPlaces
    <3>4. {a} \cap Unpublished' = {}
      BY <2>2, <2>3, <3>1, <3>2 DEF Unpublished
    <3>5. \A r \in runtime : r.act \notin {a}
      BY <1>0, <2>3 DEF Untouched
    <3>6. Untouched' /\ ExecutedOnce' /\ NothingRunsUnapproved'
      BY <1>0, <3>1, <3>2, <3>3, <3>4, <3>5, QuietStep
    <3> QED
      BY <3>3, <3>6 DEF Places
  <2> QED
    BY <2>1, <2>4, <2>5, <2>6
<1>5. ASSUME NEW r \in runtime, RuntimeAnswers(r)
      PROVE  Places'
  <2>1. PICK o \in Obs :
            /\ o.act = r.act /\ o.cause = r.cause /\ o.at = "sent"
            /\ runtime' = runtime \ {r} /\ inbox' = inbox \cup {o} /\ seen' = seen
            /\ rows' = rows /\ nextId' = nextId
    BY <1>5, AnswerEffect
  <2>2. UNCHANGED <<queue, batch>> /\ Held' = Held
    BY <1>5 DEF RuntimeAnswers, Held
  <2>3. OnePlace' /\ Unpublished' = Unpublished
    BY <1>0, <2>1, <2>2 DEF OnePlace, Unpublished
  <2>4. Untouched'
    <3>1. \A a \in Unpublished : \A x \in runtime' \cup inbox' : x.act # a
      BY <1>0, <2>1 DEF Untouched
    <3>2. \A q \in runtime' : q.act # o.act
      BY <1>0, <2>1 DEF Untouched
    <3> QED
      BY <1>0, <2>1, <2>3, <3>1, <3>2 DEF Untouched
  <2> QED
    BY <1>0, <2>1, <2>3, <2>4 DEF Places, ExecutedOnce, NothingRunsUnapproved
<1>6. ASSUME NEW o \in inbox, Arrives(o)
      PROVE  Places'
  <2>1. /\ seen'.fresh = seen.fresh /\ seen'.answered = seen.answered \cup {o.act}
        /\ seen'.approved = seen.approved /\ seen'.executions = seen.executions
    BY <1>6 DEF Arrives, Types, TypeOK, History
  <2>2. UNCHANGED <<queue, batch, rows, runtime>> /\ Held' = Held
    BY <1>6 DEF Arrives, Held
  <2>3. \A x \in inbox' : \E y \in inbox : y.act = x.act
    BY <1>6, InboxOrigin DEF Handlers
  <2>4. OnePlace' /\ Unpublished' \subseteq Unpublished
    BY <1>0, <2>1, <2>2, FewerPlaces
  <2>5. {o.act} \cap Unpublished' = {} /\ \A r \in runtime : r.act \notin {o.act}
    BY <1>0, <2>4 DEF Untouched
  <2>6. Untouched' /\ ExecutedOnce' /\ NothingRunsUnapproved'
    BY <1>0, <2>1, <2>2, <2>3, <2>4, <2>5, QuietStep
  <2> QED
    BY <2>4, <2>6 DEF Places
<1>7. ASSUME NEW o \in inbox, Resolve(o) \/ Observed(o) \/ HandlerTimesOut(o)
      PROVE  Places'
  <2>1. /\ runtime' = runtime /\ \A x \in inbox' : \E y \in inbox : y.act = x.act
    BY <1>7, InboxOrigin DEF Handlers
  <2>2. UNCHANGED <<queue, batch>> /\ seen'.fresh = seen.fresh /\ seen'.approved = seen.approved
        /\ seen'.executions = seen.executions
    BY <1>7, OutsideEffect, HandlerSeen DEF Outside, Handlers
  <2>3. seen'.answered = seen.answered
    BY <1>7, TimeoutSeen DEF Resolve, Observed
  <2>4. Held' \subseteq Held
    BY <1>7, OutsideEffect, HeldStays DEF Outside, Handlers
  <2>5. OnePlace' /\ Unpublished' \subseteq Unpublished
    BY <1>0, <2>2, <2>4, FewerPlaces
  <2> QED
    BY <1>1, <2>1, <2>2, <2>3, <2>5
<1>8. CASE Timers
  <2>1. UNCHANGED <<queue, batch, runtime, inbox>> /\ seen'.fresh = seen.fresh
        /\ seen'.approved = seen.approved /\ seen'.executions = seen.executions
    <3>1. UNCHANGED <<runtime, inbox>>
      BY <1>8 DEF Timers, Expires, PendingWatchdogFires, StallWatchdogFires
    <3> QED
      BY <1>8, <3>1, OutsideEffect, HandlerSeen DEF Outside
  <2>2. seen'.answered = seen.answered
    <3>1. \/ seen' = seen
          \/ \E id \in DOMAIN rows : Expires(id)
      BY <1>8 DEF Timers, PendingWatchdogFires, StallWatchdogFires
    <3> QED
      BY <3>1, ExpirySeen
  <2>3. Held' \subseteq Held
    BY <1>8, OutsideEffect, HeldStays DEF Outside
  <2>4. OnePlace' /\ Unpublished' \subseteq Unpublished
    BY <1>0, <2>1, <2>3, FewerPlaces
  <2> QED
    BY <1>1, <2>1, <2>2, <2>4
<1>9. CASE ShowDialog
  <2>1. UNCHANGED <<queue, batch, rows, runtime, inbox, seen>>
    BY <1>9 DEF ShowDialog
  <2>2. Held' = Held
    BY <2>1 DEF Held
  <2>3. OnePlace' /\ Unpublished' \subseteq Unpublished
    BY <1>0, <2>1, <2>2, FewerPlaces
  <2> QED
    BY <1>1, <2>1, <2>3
<1>10. ASSUME NEW approve \in BOOLEAN, Decide(approve)
       PROVE  Places'
  <2>1. UNCHANGED <<queue, batch>>
    BY <1>10, DecideEffect
  <2>2. CASE Releases(approve)
    <3>1. Held = {dialog} /\ dialog \in Actions /\ inbox' = inbox
          /\ runtime' = runtime \cup {[act |-> dialog, born |-> nextId, cause |-> nextId]}
      BY <2>2 DEF Releases, Held
    <3>2. Held' = {}
      BY <2>2 DEF Releases, Held, Types, TypeOK, Unassigned
    <3>3. /\ seen'.fresh = seen.fresh /\ seen'.answered = seen.answered
          /\ seen.approved \subseteq seen'.approved
          /\ approve => dialog \in seen'.approved
          /\ seen'.executions[dialog] = seen.executions[dialog] + IF approve THEN 1 ELSE 0
          /\ \A b \in Actions : b # dialog => seen'.executions[b] = seen.executions[b]
      BY <2>2, ReleaseSeen
    <3>4. OnePlace'
      BY <1>0, <2>1, <3>2, <3>3, FewerPlaces
    <3>5. Unpublished' \subseteq Unpublished \ {dialog} /\ dialog \in Unpublished
      BY <1>0, <2>1, <3>1, <3>2, <3>3 DEF OnePlace, Unpublished
    <3>6. Untouched' /\ ExecutedOnce' /\ NothingRunsUnapproved'
      <4> DEFINE n == IF approve THEN 1 ELSE 0
      <4>1. n \in {0, 1} /\ (n = 1 => approve) /\ seen'.executions[dialog] = seen.executions[dialog] + n
        BY <3>3
      <4> HIDE DEF n
      <4> QED
        BY <1>0, <3>1, <3>3, <3>5, <4>1, PublishStep
    <3> QED
      BY <3>4, <3>6 DEF Places
  <2>3. CASE ~Releases(approve)
    <3>1. /\ UNCHANGED <<rows, runtime, inbox>>
          /\ seen' = [seen EXCEPT !.approved =
                        @ \cup (IF approve THEN {dialog} \cap Actions ELSE {})]
      BY <1>10, <2>3, DecideEffect
    <3>2. /\ seen'.fresh = seen.fresh /\ seen'.answered = seen.answered
          /\ seen.approved \subseteq seen'.approved /\ seen'.executions = seen.executions
      BY <3>1 DEF Types, TypeOK, History
    <3>3. Held' = Held
      BY <3>1 DEF Held
    <3>4. OnePlace' /\ Unpublished' \subseteq Unpublished
      BY <1>0, <2>1, <3>2, <3>3, FewerPlaces
    <3> QED
      BY <1>1, <3>1, <3>2, <3>4
  <2> QED
    BY <2>2, <2>3
<1>11. CASE UserMessage \/ Stop
  <2>1. /\ UNCHANGED <<runtime, inbox>> /\ DOMAIN rows' = {}
        /\ \/ queue' = queue /\ batch' = batch
           \/ queue' = <<>> /\ batch' = {} /\ Stop
    BY <1>11, EmptyTable DEF UserMessage, Stop
  <2>2. /\ seen'.fresh = seen.fresh /\ seen'.approved = seen.approved
        /\ seen'.executions = seen.executions
        /\ seen'.answered = seen.answered \cup IF Stop THEN Values(queue) ELSE {}
    BY <1>11, PreemptSeen
  <2>3. Held' = {}
    BY <2>1 DEF Held
  <2>4. OnePlace' /\ Unpublished' \subseteq Unpublished
    BY <1>0, <2>1, <2>2, <2>3, FewerPlaces
  <2> DEFINE N == IF Stop THEN Values(queue) ELSE {}
  <2>5. seen'.answered = seen.answered \cup N
    BY <2>2
  <2>6. N \cap Unpublished' = {}
    <3>1. CASE Stop
      <4>1. queue' = <<>> /\ batch' = {} /\ N = Values(queue)
        BY <3>1 DEF Stop
      <4> QED
        BY <1>0, <2>2, <2>3, <4>1, EmptyTable DEF Unpublished, OnePlace
    <3>2. CASE ~Stop
      BY <3>2
    <3> QED
      BY <3>1, <3>2
  <2>7. \A r \in runtime : r.act \notin N
    BY <1>0 DEF Untouched, Unpublished
  <2> HIDE DEF N
  <2>8. Untouched' /\ ExecutedOnce' /\ NothingRunsUnapproved'
    BY <1>0, <2>1, <2>2, <2>4, <2>5, <2>6, <2>7, QuietStep
  <2> QED
    BY <2>4, <2>8 DEF Places
<1> QED
  BY <1>3, <1>4, <1>5, <1>6, <1>7, <1>8, <1>9, <1>10, <1>11
     DEF Next, StepTask, StepMoves, Handlers, User

-----------------------------------------------------------------------------
(* The invariant, and what it says *)

LEMMA InitIInv == Init => IInv
<1> SUFFICES ASSUME Init PROVE IInv
  OBVIOUS
<1> USE DEF Init, Outstanding
<1>1. DOMAIN rows = {} /\ Values(rows) = {} /\ Values(queue) = {} /\ DOMAIN queue = {}
      /\ Held = {}
  BY EmptyTable DEF Held
<1>2. Serial /\ Consent
  BY <1>1, PendingConstants DEF Serial, Consent, AskedWhileConfirming
<1>3. Table /\ RowsAwaited /\ RunsAccounted
  BY <1>1 DEF Table, RowsAwaited, RunsAccounted
<1>4. NoCallIsLost
  BY DEF NoCallIsLost
<1>5. OnePlace /\ Untouched
  <2>1. Unpublished = Actions
    BY <1>1 DEF Unpublished
  <2> QED
    BY <1>1, <2>1 DEF OnePlace, Untouched
<1>6. ExecutedOnce /\ NothingRunsUnapproved
  <2>1. \A a \in Actions : seen.executions[a] = 0
    OBVIOUS
  <2>2. risky \subseteq Actions
    BY PendingConstants
  <2> QED
    BY <2>1, <2>2 DEF ExecutedOnce, NothingRunsUnapproved
<1> QED
  BY <1>2, <1>3, <1>4, <1>5, <1>6 DEF IInv, Places

LEMMA NextIInv == Types /\ IInv /\ [Next /\ UNCHANGED risky]_<<risky, vars>> => IInv'
<1> SUFFICES ASSUME Types, IInv, [Next /\ UNCHANGED risky]_<<risky, vars>>, NoConsentInBatch'
             PROVE  /\ Serial' /\ Consent' /\ Table' /\ RowsAwaited' /\ RunsAccounted'
                    /\ NoCallIsLost' /\ Places'
  BY DEF IInv
<1>1. UNCHANGED risky /\ NoConsentInBatch
  BY DEF NoConsentInBatch
<1>2. Serial /\ Consent /\ Table /\ RowsAwaited /\ RunsAccounted /\ NoCallIsLost /\ Places
  BY <1>1 DEF IInv
<1>3. CASE UNCHANGED vars
  <2>1. /\ UNCHANGED <<agent, rows, queue, serialOnly, step, batch, wake>>
        /\ UNCHANGED <<runtime, inbox, dialog, nextId, turns, seen>>
    BY <1>3 DEF vars
  <2>2. Serial' /\ Consent' /\ Table' /\ RowsAwaited' /\ RunsAccounted'
    BY <1>1, <1>2, <2>1 DEF Serial, Outstanding, Consent, AskedWhileConfirming, Table,
                            RowsAwaited, RunsAccounted
  <2>3. NoCallIsLost'
    BY <1>1, <1>2, <2>1 DEF NoCallIsLost, NoConsentInBatch
  <2>4. Places'
    BY <1>1, <1>2, <2>1 DEF Places, OnePlace, Untouched, Unpublished, Held, ExecutedOnce,
                            NothingRunsUnapproved
  <2> QED
    BY <2>2, <2>3, <2>4
<1>4. CASE Next
  <2>1. Serial' /\ Consent' /\ Table'
    BY <1>1, <1>2, <1>4, SerialStep, ConsentStep, TableStep
  <2>2. RowsAwaited' /\ RunsAccounted'
    BY <1>1, <1>2, <1>4, RowsAwaitedStep, RunsAccountedStep
  <2>3. NoCallIsLost'
    <3>1. Actions \subseteq Located /\ Located \subseteq Located'
      BY <1>1, <1>2, <1>4, LocatedMeans, LocatedStep
    <3>2. Actions \subseteq Located'
      BY <3>1
    <3> QED
      BY <3>2 DEF NoCallIsLost, Located
  <2>4. Places'
    BY <1>1, <1>2, <1>4, PlacesStep
  <2> QED
    BY <2>1, <2>2, <2>3, <2>4
<1> QED
  BY <1>3, <1>4

LEMMA PendingInvariant == Spec => [](Types /\ IInv)
<1>1. Init => Types /\ IInv
  BY InitIds, InitIInv
<1>2. Types /\ IInv /\ [Next /\ UNCHANGED risky]_<<risky, vars>> => (Types /\ IInv)'
  BY TypesStep, NextIInv
<1> QED
  BY <1>1, <1>2, PTL DEF Spec

\* A tool call the model emitted is queued, in the step's hands, outstanding or with the
\* runtime, or it has its reply or was given up on purpose: whatever order registrations,
\* clearances, drains, timeouts and resets come in, none of them drops one.
THEOREM ToolCallsAreKept == Spec => []NoCallIsLost
<1>1. Types /\ IInv => NoCallIsLost
  BY DEF IInv, NoCallIsLost
<1> QED
  BY <1>1, PendingInvariant, PTL

\* The model is asked again only when every tool call it emitted has come to its end or was
\* given up: can_step and the barriers look at a table that has a row for each of them.
THEOREM ModelSeesResults == Spec => []StepsSeeEveryResult
<1>1. Types /\ IInv => StepsSeeEveryResult
  BY DEF IInv, Serial, RunsAccounted, Outstanding, StepsSeeEveryResult
<1> QED
  BY <1>1, PendingInvariant, PTL

\* An action waits for the user only in the state in which the user is asked.  This is where
\* batches that may hold such actions are excluded: one of their siblings can release the
\* state.
THEOREM ConsentIsAskedFor == Spec => [](NoConsentInBatch => AskedWhileConfirming)
<1>1. Types /\ IInv => (NoConsentInBatch => AskedWhileConfirming)
  BY DEF IInv, Consent
<1> QED
  BY <1>1, PendingInvariant, PTL

\* What the policy asks the user about is executed only after the user approved it in a
\* dialog that showed it: apply_user_decision publishes the action that is pending, which is
\* the one that was held back and shown.
THEOREM ConsentBeforeExecution == Spec => [](NoConsentInBatch => NothingRunsUnapproved)
<1>1. Types /\ IInv => (NoConsentInBatch => NothingRunsUnapproved)
  BY DEF IInv, Places
<1> QED
  BY <1>1, PendingInvariant, PTL

\* No tool call is executed twice: what apply_user_decision publishes was held back, and what
\* waits in the queue or in the step's hands was not published yet.
THEOREM CallsRunOnce == Spec => [](NoConsentInBatch => ExecutedOnce)
<1>1. Types /\ IInv => (NoConsentInBatch => ExecutedOnce)
  BY DEF IInv, Places
<1> QED
  BY <1>1, PendingInvariant, PTL

\* No action times out after its observation was delivered and handled: a row that is still
\* there has its action with the runtime, without a reply, or an observation being handled.
THEOREM TimeoutsAreReal == Spec /\ NoConsentInBatch => NoFalseTimeout
<1> DEFINE Real == \A a \in seen'.timedOut \ seen.timedOut :
                     a \in seen.answered => \E o \in inbox : o.act = a
<1>1. Types /\ IInv /\ NoConsentInBatch /\ [Next /\ UNCHANGED risky]_<<risky, vars>> => [Real]_vars
  <2> SUFFICES ASSUME Types, IInv, NoConsentInBatch, Next,
                      NEW a \in seen'.timedOut \ seen.timedOut, a \in seen.answered
               PROVE  \E o \in inbox : o.act = a
    BY DEF vars
  <2>1. Consent /\ Table /\ RowsAwaited /\ Untouched
    BY DEF IInv, Places
  <2>2. PICK id \in DOMAIN rows : Expires(id)
    <3>1. CASE StepTask
      <4>1. CASE Execute
        <5>1. PICK b \in Actions : ExecuteNow(b) \/ Asks(b) \/ Replies(b)
          BY <4>1, ExecuteEffect DEF IInv
        <5>2. seen'.timedOut = seen.timedOut
          BY <5>1, ExecuteSeen DEF Asks, Replies, Types, TypeOK, History
        <5> QED
          BY <5>2
      <4>2. CASE StepMoves
        BY <4>2, MovesSeen
      <4> QED
        BY <3>1, <4>1, <4>2 DEF StepTask, StepMoves
    <3>2. CASE \E r \in runtime : RuntimeAnswers(r)
      BY <3>2 DEF RuntimeAnswers
    <3>3. ASSUME NEW o \in inbox, Arrives(o) \/ Resolve(o) \/ Observed(o) \/ HandlerTimesOut(o)
          PROVE  FALSE
      <4>1. seen'.timedOut = seen.timedOut
        BY <3>3, TimeoutSeen DEF Arrives, Resolve, Observed, Types, TypeOK, History
      <4> QED
        BY <4>1
    <3>4. CASE Timers
      BY <3>4 DEF Timers, PendingWatchdogFires, StallWatchdogFires
    <3>5. ASSUME NEW approve \in BOOLEAN, Decide(approve)
          PROVE  FALSE
      <4>1. CASE Releases(approve)
        BY <4>1, ReleaseSeen
      <4>2. CASE ~Releases(approve)
        <5>1. seen' = [seen EXCEPT !.approved =
                         @ \cup (IF approve THEN {dialog} \cap Actions ELSE {})]
          BY <2>1, <3>5, <4>2, DecideEffect
        <5> QED
          BY <5>1 DEF Types, TypeOK, History
      <4> QED
        BY <4>1, <4>2
    <3>6. CASE ShowDialog \/ UserMessage \/ Stop
      BY <3>6, PreemptSeen DEF ShowDialog
    <3> QED
      BY <3>1, <3>2, <3>3, <3>4, <3>5, <3>6 DEF Next, Handlers, User
  <2>3. a = rows[id] /\ id # Unassigned
    BY <2>2, ExpirySeen DEF Expires
  <2>4. PICK x \in runtime \cup inbox : x.cause = id
    BY <2>1, <2>3 DEF RowsAwaited
  <2>5. x.act = a
    BY <2>1, <2>3, <2>4 DEF Table
  <2>6. x \notin runtime
    BY <2>1, <2>5 DEF Untouched
  <2> QED
    BY <2>4, <2>5, <2>6
<1>2. NoConsentInBatch /\ [Next /\ UNCHANGED risky]_<<risky, vars>> => NoConsentInBatch'
  BY DEF NoConsentInBatch, vars
<1> QED
  BY <1>1, <1>2, PendingInvariant, PTL DEF Spec, NoFalseTimeout
=============================================================================
