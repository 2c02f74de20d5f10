------------------------------ MODULE Delivery ------------------------------
(***************************************************************************)
(* What the consumer promises about the messages of a channel: a message   *)
(* is finished only once a callback has handled it, a finished message     *)
(* stays finished, and every message is finished in the end.  It may be    *)
(* handled more than once; that is not visible here.                       *)
(***************************************************************************)
CONSTANT Messages

VARIABLES
    handled,   \* messages some callback has handled with success
    finished   \* messages nsqd has struck off the channel

vars == <<handled, finished>>

Init == handled = {} /\ finished = {}

Handle(m) ==
    /\ m \notin handled
    /\ handled' = handled \cup {m}
    /\ UNCHANGED finished

Finish(m) ==
    /\ m \in handled \ finished
    /\ finished' = finished \cup {m}
    /\ UNCHANGED handled

Next == \E m \in Messages : Handle(m) \/ Finish(m)

Spec == Init /\ [][Next]_vars

EveryMessageFinishes == \A m \in Messages : <>[](m \in finished)
=============================================================================
