------------------------------ MODULE EventLog ------------------------------
(***************************************************************************)
(* What the event ledger of a conversation promises, whatever stores it: a *)
(* log that is only ever appended to, ids that are handed out above all    *)
(* that the log holds, and an acknowledgement that is given only for an    *)
(* event of which a copy exists and which binds from then on.              *)
(*                                                                         *)
(* <<i, s>> is the event that session s numbered i; Current(i) is the one  *)
(* its id was last handed out to.  `log` is what a reader of the ledger    *)
(* sees, `held` the events of which the store has a copy of any kind.      *)
(***************************************************************************)
EXTENDS Integers

CONSTANTS Ids, Sessions, NoEvent

VARIABLES
    log,    \* [Ids -> {NoEvent} \cup Sessions]
    held,   \* set of <<id, session>>
    owner,  \* [Ids -> {NoEvent} \cup Sessions], who was last given each id
    acked   \* set of <<id, session>>

vars == <<log, held, owner, acked>>

Current(i) == <<i, owner[i]>>

\* The copies that may go: those of events that are not in the log, and of which
\* nobody was told that they are safe or whose id has gone to another event.
Expendable == {e \in held : /\ log[e[1]] # e[2]
                            /\ e \notin acked \/ e # Current(e[1])}

\* A ledger may take over what earlier sessions left.
Init ==
    /\ log \in [Ids -> {NoEvent} \cup Sessions]
    /\ owner \in [Ids -> {NoEvent} \cup Sessions]
    /\ \A i \in Ids : log[i] # NoEvent => <<i, log[i]>> \in held
    /\ acked \subseteq held
    /\ held \subseteq Ids \X Sessions

\* Session s numbers a new event.  A later session may be given an id again, but
\* never one at or below an event of the log.
Take(i, s) ==
    /\ owner[i] # s
    /\ \A j \in Ids : j >= i => log[j] = NoEvent
    /\ owner' = [owner EXCEPT ![i] = s]
    /\ UNCHANGED <<log, held, acked>>

\* A copy is made outside the log, perhaps in the place of expendable ones.
Store(i, s) ==
    /\ owner[i] # NoEvent
    /\ \E gone \in SUBSET Expendable : held' = (held \ gone) \cup {<<i, s>>}
    /\ UNCHANGED <<log, owner, acked>>

Discard ==
    /\ \E gone \in SUBSET Expendable : held' = held \ gone
    /\ UNCHANGED <<log, owner, acked>>

\* An event enters the log, where nothing was before: a new one, or one of which
\* there was a copy.
Publish(i, s) ==
    /\ log[i] = NoEvent
    /\ s = owner[i] \/ <<i, s>> \in held
    /\ log' = [log EXCEPT ![i] = s]
    /\ held' = held \cup {<<i, s>>}
    /\ UNCHANGED <<owner, acked>>

\* The caller is told that its event is safe.
Acknowledge(i, s) ==
    /\ <<i, s>> \in held
    /\ acked' = acked \cup {<<i, s>>}
    /\ UNCHANGED <<log, held, owner>>

Next ==
    \/ \E i \in Ids, s \in Sessions :
         Take(i, s) \/ Store(i, s) \/ Publish(i, s) \/ Acknowledge(i, s)
    \/ Discard

Spec == Init /\ [][Next]_vars
=============================================================================
