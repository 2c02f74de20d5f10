----------------------------- MODULE Heartbeat -----------------------------
(***************************************************************************)
(* Time on one consumer connection: nsqd's heartbeats, and the worker's    *)
(* single thread that answers them between two callbacks.                  *)
(*                                                                         *)
(* nsqd beats every HB ticks and closes a connection that has been silent  *)
(* for twice that.  The worker's event loop (libevent's, entered at        *)
(* sub.c:245) polls, runs the I/O that was ready at the poll, then the     *)
(* timer, and polls again.  All of it is instantaneous except the callback *)
(* that the timer may run.  What a handler writes to the bufferevent waits *)
(* for the next poll; only touch() writes to the socket itself.            *)
(***************************************************************************)
EXTENDS Naturals

CONSTANTS
    HB,   \* heartbeat interval
    D     \* longest stretch of a callback without a touch()

ASSUME HeartbeatAssumption == HB \in Nat \ {0} /\ D \in Nat

VARIABLES
    silence,    \* ticks since nsqd last received anything
    sinceBeat,  \* ticks since it last sent a heartbeat
    beat,       \* a heartbeat is waiting in the worker's socket
    outbuf,     \* the bufferevent has something to write
    pc,         \* "poll", "io", "timer", "callback"
    writing,    \* the socket was found writable, and wanted, at the poll
    quiet       \* ticks of the callback since its start or its last touch()

vars == <<silence, sinceBeat, beat, outbuf, pc, writing, quiet>>

(* SUB and RDY are in the output when the connection starts to count. *)
Init ==
    /\ silence = 0 /\ sinceBeat \in 0..(HB - 1) /\ beat = FALSE
    /\ outbuf = TRUE /\ pc = "poll" /\ writing = FALSE /\ quiet = 0

Poll ==
    /\ pc = "poll"
    /\ pc' = "io" /\ writing' = outbuf
    /\ UNCHANGED <<silence, sinceBeat, beat, outbuf, quiet>>

(* The read event runs readcb, which puts NOP in the output for a          *)
(* heartbeat; the write event empties the output.  If both are ready they  *)
(* run in either order.                                                    *)
InputOutput ==
    /\ pc = "io"
    /\ pc' = "timer" /\ beat' = FALSE
    /\ IF writing THEN silence' = 0 /\ outbuf' \in {beat, FALSE}
                  ELSE outbuf' = beat /\ UNCHANGED silence
    /\ UNCHANGED <<sinceBeat, writing, quiet>>

(* process_message_queue runs the callback of one message, if there is one *)
(* in the queue.                                                           *)
process_message_queue ==
    /\ pc = "timer"
    /\ \/ pc' = "callback" /\ quiet' = 0
       \/ pc' = "poll" /\ UNCHANGED quiet
    /\ UNCHANGED <<silence, sinceBeat, beat, outbuf, writing>>

touch ==
    /\ pc = "callback"
    /\ silence' = 0 /\ quiet' = 0
    /\ UNCHANGED <<sinceBeat, beat, outbuf, pc, writing>>

(* Slip: the queue is worked off in one go. *)
CallbackReturnsToTimer ==
    /\ pc = "callback"
    /\ outbuf' = TRUE /\ pc' = "timer"
    /\ UNCHANGED <<silence, sinceBeat, beat, writing, quiet>>

(* FIN or REQ, and RDY, go to the output. *)
CallbackReturns ==
    /\ pc = "callback"
    /\ outbuf' = TRUE /\ pc' = "poll"
    /\ UNCHANGED <<silence, sinceBeat, beat, writing, quiet>>

Closed == silence >= 2 * HB

(* Time passes while the poll finds nothing to do, and in the callback. *)
Tick ==
    /\ ~Closed
    /\ \/ pc = "poll" /\ ~beat /\ ~outbuf /\ UNCHANGED quiet
       \/ pc = "callback" /\ quiet < D /\ quiet' = quiet + 1
    /\ silence' = silence + 1
    /\ IF sinceBeat + 1 = HB THEN sinceBeat' = 0 /\ beat' = TRUE
                             ELSE sinceBeat' = sinceBeat + 1 /\ UNCHANGED beat
    /\ UNCHANGED <<outbuf, pc, writing>>

Next == Poll \/ InputOutput \/ process_message_queue \/ touch \/ CallbackReturns \/ Tick

Spec == Init /\ [][Next]_vars

-----------------------------------------------------------------------------
(* Properties. *)

(* The clocks and flags of the loop keep to their types. *)
ClocksOK == silence \in Nat /\ sinceBeat \in 0..(HB - 1) /\ quiet \in 0..D
FlagsOK ==
    /\ beat \in BOOLEAN /\ outbuf \in BOOLEAN /\ writing \in BOOLEAN
    /\ pc \in {"poll", "io", "timer", "callback"}
TypeOK == ClocksOK /\ FlagsOK

(* nsqd never finds the connection silent for two heartbeat intervals, so  *)
(* it is not closed under a working consumer: "Process at most one message *)
(* at a time to ensure timely heartbeat processing" (sub.c:189).  It takes *)
(* a callback that stays under ONE interval, or calls touch() that often:  *)
(* a NOP may have to wait in the output for the callback that comes next.  *)
NeverClosed == ~Closed

(* Why: only a callback can hold back the answer to a heartbeat, and what  *)
(* it holds back goes out before the next callback.                        *)
SilenceBounded ==
    /\ pc = "callback" => silence <= HB + quiet
    /\ pc = "timer" => silence <= HB
    /\ pc = "io" => (writing = outbuf) /\ (writing \/ silence <= HB)
    /\ pc = "poll" => outbuf \/ silence <= HB
    /\ silence <= HB + D
    /\ (pc # "callback" /\ ~beat /\ ~outbuf) => silence <= sinceBeat
=============================================================================
