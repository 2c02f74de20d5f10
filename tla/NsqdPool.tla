------------------------------ MODULE NsqdPool ------------------------------
(***************************************************************************)
(* What an Nsq object promises a publishing script: connectNsqd() gives it *)
(* connections to all the nsqds asked for or to none, closing takes all of *)
(* them away, and publish() reaches one of them and no other.              *)
(***************************************************************************)
CONSTANTS
    Object, Address,
    Requests,      \* the sets of addresses that are asked for
    Nothing

VARIABLES pool, published    \* connected nsqds of each object; the last publication

vars == <<pool, published>>

Init == pool = [o \in Object |-> {}] /\ published = Nothing

Connect(o, addresses) ==
    /\ pool[o] = {}
    /\ pool' = [pool EXCEPT ![o] = addresses]
    /\ UNCHANGED published

Close(o) ==
    /\ pool' = [pool EXCEPT ![o] = {}]
    /\ UNCHANGED published

Publish(o, address) ==
    /\ address \in pool[o]
    /\ published' = <<o, address>>
    /\ UNCHANGED pool

Next == \E o \in Object :
    \/ \E addresses \in Requests : Connect(o, addresses)
    \/ Close(o)
    \/ \E address \in Address : Publish(o, address)

Spec == Init /\ [][Next]_vars
=============================================================================
