------------------------------ MODULE EventFeed ------------------------------
(***************************************************************************)
(* What the event bus promises when its events are durable, with no         *)
(* deque, no generator, no connection and no process that can die: one log  *)
(* that only grows, a window on its newest MaxEvents entries, and readers   *)
(* that hear the events of their vault in log order, missing only what the  *)
(* window has moved past.  EventBus implements it (EventBus!Feed).          *)
(***************************************************************************)
EXTENDS Integers, Sequences

CONSTANTS
  Clients, Follows, UrlCursor, NoCursor, MaxEvents,   \* as in EventBus
  Event   \* the events that may be published: records with an id and a vault

VARIABLES
  log,    \* every event ever published, in order
  at,     \* at[c]: id of the last event reader c heard
  heard   \* heard[c]: every event reader c heard

vars == <<log, at, heard>>

Positions == DOMAIN log

InWindow(i) == i > Len(log) - MaxEvents

\* Positions of c's vault that lie past event id n.
Beyond(c, n) == {i \in Positions : log[i].vault = Follows[c] /\ log[i].id > n}

\* A reader goes on after the last event it heard; one whose URL names a
\* cursor may also go back to that.
Starts(c) == {at[c]} \cup (IF UrlCursor[c] = NoCursor THEN {} ELSE {UrlCursor[c]})

Announce ==
  \E e \in Event :
    /\ \A i \in Positions : log[i].id < e.id
    /\ log' = Append(log, e)
    /\ UNCHANGED <<at, heard>>

\* Reader c hears one event: the next of its vault, except for events that
\* have left the window.
Hear(c) ==
  \E from \in Starts(c) : \E i \in Beyond(c, from) :
    /\ \A j \in Beyond(c, from) : j < i => ~InWindow(j)
    /\ at' = [at EXCEPT ![c] = log[i].id]
    /\ heard' = [heard EXCEPT ![c] = @ \cup {log[i]}]
    /\ UNCHANGED log

\* Reader c is handed everything in the window at once.
CatchUp(c) ==
  LET fresh == {i \in Beyond(c, at[c]) : InWindow(i)}
  IN  \E last \in fresh :
        /\ \A i \in fresh : i <= last
        /\ at' = [at EXCEPT ![c] = log[last].id]
        /\ heard' = [heard EXCEPT ![c] = @ \cup {log[i] : i \in fresh}]
        /\ UNCHANGED log

Init ==
  /\ log = <<>>
  /\ at = [c \in Clients |-> 0]
  /\ heard = [c \in Clients |-> {}]

Next == Announce \/ \E c \in Clients : Hear(c) \/ CatchUp(c)

Spec == Init /\ [][Next]_vars

=============================================================================
