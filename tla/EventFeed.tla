------------------------------ MODULE EventFeed ------------------------------
(* What the bridge between a session and the application promises           *)
(* (internal/tui/bridge.go): the events a session publishes reach the       *)
(* application one at a time, in the order they were published, each once,  *)
(* none skipped.  Events are numbered from 1 in that order.                 *)
EXTENDS Naturals, Sequences

CONSTANT Feeds   \* the sessions, each a feed of its own

VARIABLES
    pending,  \* for each feed, the numbers published and not yet handled
    seen      \* for each feed, the number handled last

Init ==
    /\ pending = [f \in Feeds |-> <<>>]
    /\ seen = [f \in Feeds |-> 0]

Publish(f) ==
    /\ pending' = [pending EXCEPT ![f] = Append(@, seen[f] + Len(@) + 1)]
    /\ UNCHANGED seen

Handle(f) ==
    /\ pending[f] # <<>>
    /\ seen' = [seen EXCEPT ![f] = Head(pending[f])]
    /\ pending' = [pending EXCEPT ![f] = Tail(@)]

Next == \E f \in Feeds : Publish(f) \/ Handle(f)

Spec == Init /\ [][Next]_<<pending, seen>>
==============================================================================
