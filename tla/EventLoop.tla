----------------------------- MODULE EventLoop -----------------------------
(***************************************************************************)
(* The worker's event loop with its queue: Heartbeat's loop, and the       *)
(* messages that wait for it.  nsqd takes a message back when it has been  *)
(* out for its timeout without FIN, REQ or TOUCH, and the messages of one  *)
(* connection are handled one after the other (sub.c:184-201), so all but  *)
(* the first spend part of their time waiting.                             *)
(***************************************************************************)
EXTENDS Heartbeat, Integers, Sequences

CONSTANTS
    Rdy,   \* config "rdy": messages nsqd has out on the connection at most
    C,     \* longest callback, touch() or no touch()
    T      \* nsqd's message timeout

ASSUME EventLoopAssumption == Rdy \in Nat \ {0} /\ C \in Nat /\ T \in Nat

VARIABLES
    ages,     \* ticks since nsqd last heard of each message it has out, first in queue first
    queued,   \* how many of them readcb has queued
    spent     \* ticks the callback of the first has run

queue == <<ages, queued, spent>>
loopVars == <<vars, queue>>

LoopInit == Init /\ ages = <<>> /\ queued = 0 /\ spent = 0

(* Slip: one message more than "rdy". *)
DeliverOneMore ==
    /\ ~Closed /\ Len(ages) <= Rdy
    /\ ages' = Append(ages, 0)
    /\ UNCHANGED <<vars, queued, spent>>

(* nsqd sends another message while it may. *)
Deliver ==
    /\ ~Closed /\ Len(ages) < Rdy
    /\ ages' = Append(ages, 0)
    /\ UNCHANGED <<vars, queued, spent>>

LoopPoll == Poll /\ UNCHANGED queue

(* readcb queues the messages that had arrived at the poll. *)
LoopInputOutput ==
    /\ InputOutput
    /\ queued' \in queued..Len(ages)
    /\ UNCHANGED <<ages, spent>>

(* The callback of the first message that is queued, if one is. *)
LoopTimer ==
    /\ process_message_queue
    /\ pc' = "callback" <=> queued > 0
    /\ UNCHANGED queue

(* The message starts its timeout afresh, as the connection its silence. *)
LoopTouch ==
    /\ touch
    /\ ages' = [ages EXCEPT ![1] = 0]
    /\ UNCHANGED <<queued, spent>>

(* FIN or REQ goes out with the next poll, before another callback starts. *)
LoopReturn ==
    /\ CallbackReturns
    /\ ages' = Tail(ages) /\ queued' = queued - 1 /\ spent' = 0

(* The poll has nothing to do only when no message is out. *)
LoopTick ==
    /\ Tick
    /\ IF pc = "poll" THEN ages = <<>> /\ UNCHANGED spent
                      ELSE spent < C /\ spent' = spent + 1
    /\ ages' = [i \in 1..Len(ages) |-> ages[i] + 1]
    /\ UNCHANGED queued

LoopNext ==
    \/ Deliver
    \/ LoopPoll \/ LoopInputOutput \/ LoopTimer \/ LoopTouch \/ LoopReturn \/ LoopTick

LoopSpec == LoopInit /\ [][LoopNext]_loopVars

-----------------------------------------------------------------------------
(* Properties, with Heartbeat's. *)

(* A callback runs on a message that is queued, for at most C ticks. *)
QueueOK ==
    /\ ages \in Seq(Nat) /\ queued \in 0..Len(ages) /\ spent \in 0..C
    /\ pc = "callback" => queued > 0
    /\ pc # "callback" => spent = 0
LoopTypeOK == TypeOK /\ QueueOK

(* README.md:179, "If your execution time is more than 1 minute" (nsqd's   *)
(* message timeout) "you should use 'touch()'": a message whose callback   *)
(* stays under the timeout is not taken back by nsqd.  It is true of the   *)
(* time a message has been with the worker only if Rdy callbacks stay      *)
(* under the timeout.                                                      *)
NeverTimedOut == \A i \in 1..Len(ages) : ages[i] < T

(* Why: the message in place i has waited for at most Rdy - i callbacks    *)
(* besides the one that is running.                                        *)
WaitBounded ==
    /\ Len(ages) <= Rdy
    /\ \A i \in 1..Len(ages) : ages[i] <= (Rdy - i) * C + spent
=============================================================================
