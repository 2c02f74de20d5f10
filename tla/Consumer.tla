------------------------------ MODULE Consumer ------------------------------
(***************************************************************************)
(* The consumer, message by message: the worker processes of subscribe()   *)
(* (sub.c, message.c, command.c) and the one channel they share on nsqd.   *)
(*                                                                         *)
(* A worker is one thread in event_base_dispatch.  Its bufferevent calls   *)
(* conn_eventcb and readcb; a timer calls process_message_queue, which     *)
(* takes one message off the static queue and runs the user's callback.    *)
(* Commands go through the bufferevent's output buffer, except those the   *)
(* code writes to the socket itself ("  V2", IDENTIFY, TOUCH), which       *)
(* overtake it.  Each subscribe(), nested ones included, opens a fresh     *)
(* connection: the output of the old one is lost, the queue is not.        *)
(*                                                                         *)
(* Frames are taken whole here; FrameReader says when readcb does so.      *)
(* nsqd and the network are external: modelled as far as they decide what  *)
(* the worker sees.                                                        *)
(***************************************************************************)
EXTENDS Integers, Sequences, FiniteSets, SequencesExt

CONSTANTS
    Messages,        \* the messages of the channel
    NoMessage,       \* stands for "none"
    Workers,         \* worker processes, one connection each
    Rdy,             \* config "rdy"
    AutoFinish,      \* config "auto_finish"
    Identify,        \* whether the Nsq object was given an IDENTIFY config
    MaxConnections,  \* bound: connections opened in the run
    Faults,          \* kinds of fault that may happen
    MaxFaults,       \* bound: faults in the run
    MaxFailures,     \* bound: callbacks that do not finish their message
    MaxTouches       \* bound: calls of touch()

ASSUME ConsumerAssumption ==
    /\ NoMessage \notin Messages
    /\ Rdy \in Nat \ {0}
    /\ AutoFinish \in BOOLEAN /\ Identify \in BOOLEAN
    /\ MaxConnections \in Nat
    /\ MaxFaults \in Nat /\ MaxFailures \in Nat /\ MaxTouches \in Nat
    /\ Faults \subseteq {"close", "error", "crash", "timeout", "double_answer"}

VARIABLES
    (* nsqd *)
    status,    \* of each message: "queued", "inflight", "deferred", "finished"
    holder,    \* the connection a message is in flight on, or 0
    phase,     \* of each connection: "none", "new", "identified", "subscribed", "closed"
    ready,     \* the RDY count of each connection
    opened,    \* connections opened so far
    (* the sockets of each connection *)
    toNsqd,    \* commands on their way to nsqd
    toClient,  \* frames on their way to the worker
    (* the workers *)
    conn,      \* the connection of the innermost subscribe()
    up,        \* BEV_EVENT_CONNECTED has been handled on it
    pc,        \* "dispatch", "identify", "callback", "dead"
    queue,     \* message_queue_head ... message_queue_tail
    current,   \* the message the callback is running on
    called,    \* what that callback has asked for: "none", "FIN", "REQ"
    outbuf,    \* the bufferevent's output
    (* history and bounds *)
    handled,   \* messages a callback has handled with success
    faults,    \* faults left
    failures,  \* failures left
    touches    \* touches left

nsqd == <<status, holder, phase, ready>>
sockets == <<toNsqd, toClient>>
loop == <<conn, up, pc>>
work == <<queue, current, called>>
bounds == <<faults, failures, touches>>
vars == <<nsqd, opened, sockets, loop, work, outbuf, handled, bounds>>

Connections == 1..MaxConnections
Command(name, m) == [name |-> name, id |-> m]
Bare(name) == Command(name, NoMessage)
Commands == [name : {"V2", "SUB", "RDY"}, id : {NoMessage}]
                \cup [name : {"FIN", "REQ", "TOUCH"}, id : Messages]
Frame(kind, m) == [kind |-> kind, id |-> m]
Frames == [kind : {"message"}, id : Messages] \cup [kind : {"response", "error"}, id : {NoMessage}]

InFlight(c) == {m \in Messages : holder[m] = c}
Open(c) == phase[c] \in {"new", "identified", "subscribed"}

Fault(kind) == kind \in Faults /\ faults > 0 /\ faults' = faults - 1 /\ UNCHANGED <<failures, touches>>
Failure == failures > 0 /\ failures' = failures - 1 /\ UNCHANGED <<faults, touches>>

(* A write to the socket of c: nsqd's end may be gone already. *)
Written(c, command) ==
    IF Open(c) THEN [toNsqd EXCEPT ![c] = Append(@, command)] ELSE toNsqd

-----------------------------------------------------------------------------
(* subscribe(): a new event base, bufferevent and timer; the connection is *)
(* being established.                                                      *)

subscribe(w) ==
    /\ opened < MaxConnections
    /\ opened' = opened + 1
    /\ phase' = [phase EXCEPT ![opened + 1] = "new"]
    /\ conn' = [conn EXCEPT ![w] = opened + 1]
    /\ up' = [up EXCEPT ![w] = FALSE]
    /\ pc' = [pc EXCEPT ![w] = "dispatch"]
    /\ outbuf' = [outbuf EXCEPT ![w] = <<>>]
    /\ UNCHANGED <<status, holder, ready, toNsqd>>

(* A forked worker: the first one of its slot, or one the master starts    *)
(* in place of a dead one.                                                 *)
StartWorker(w) ==
    /\ pc[w] = "dead"
    /\ subscribe(w)
    /\ UNCHANGED <<toClient, work, handled, bounds>>

(* Slip: RDY ahead of SUB. *)
GreetReadyFirst(w) ==
    /\ pc' = [pc EXCEPT ![w] = "dispatch"]
    /\ up' = [up EXCEPT ![w] = TRUE]
    /\ outbuf' = [outbuf EXCEPT ![w] = @ \o <<Bare("RDY"), Bare("SUB")>>]

(* nsq_subscribe and nsq_ready, once the handshake is done. *)
Greet(w) ==
    /\ pc' = [pc EXCEPT ![w] = "dispatch"]
    /\ up' = [up EXCEPT ![w] = TRUE]
    /\ outbuf' = [outbuf EXCEPT ![w] = @ \o <<Bare("SUB"), Bare("RDY")>>]

(* conn_eventcb, BEV_EVENT_CONNECTED: "  V2" and IDENTIFY go straight to   *)
(* the socket; send_identify then reads nsqd's reply where it stands.      *)
Connected(w) ==
    /\ pc[w] = "dispatch" /\ ~up[w]
    /\ toNsqd' = Written(conn[w], Bare("V2"))
    /\ IF Identify THEN pc' = [pc EXCEPT ![w] = "identify"] /\ UNCHANGED <<up, outbuf>>
                   ELSE Greet(w)
    /\ UNCHANGED <<nsqd, opened, toClient, conn, work, handled, bounds>>

(* send_identify's loops end only with a reply: without one (the peer has  *)
(* closed, read() returns 0) the worker stays in them.                     *)
send_identify(w) ==
    /\ pc[w] = "identify"
    /\ toClient[conn[w]] # <<>>
    /\ toClient' = [toClient EXCEPT ![conn[w]] = Tail(@)]
    /\ Greet(w)
    /\ UNCHANGED <<nsqd, opened, toNsqd, conn, work, handled, bounds>>

(* conn_eventcb, BEV_EVENT_EOF: what nsqd sent before has been read. *)
ConnEof(w) ==
    /\ pc[w] = "dispatch" /\ up[w]
    /\ phase[conn[w]] = "closed" /\ toClient[conn[w]] = <<>>
    /\ subscribe(w)
    /\ UNCHANGED <<toClient, work, handled, bounds>>

(* conn_eventcb, BEV_EVENT_ERROR: what was on its way is lost, and nsqd    *)
(* does not know yet.                                                      *)
ConnError(w) ==
    /\ pc[w] = "dispatch"
    /\ Fault("error")
    /\ toClient' = [toClient EXCEPT ![conn[w]] = <<>>]
    /\ subscribe(w)
    /\ UNCHANGED <<work, handled>>

(* The event loop writes the output buffer to the socket, in order. *)
Flush(w) ==
    /\ pc[w] = "dispatch" /\ up[w] /\ outbuf[w] # <<>>
    /\ toNsqd' = Written(conn[w], Head(outbuf[w]))
    /\ outbuf' = [outbuf EXCEPT ![w] = Tail(@)]
    /\ UNCHANGED <<nsqd, opened, toClient, loop, work, handled, bounds>>

(* Slip: the frame is not cleared, and enqueued again. *)
readcbTwice(w) ==
    LET c == conn[w] IN
    /\ pc[w] = "dispatch" /\ up[w] /\ toClient[c] # <<>>
    /\ toClient' = [toClient EXCEPT ![c] = Tail(@)]
    /\ queue' = IF Head(toClient[c]).kind = "message"
                THEN [queue EXCEPT ![w] = @ \o <<Head(toClient[c]).id, Head(toClient[c]).id>>]
                ELSE queue
    /\ UNCHANGED <<nsqd, opened, toNsqd, loop, current, called, outbuf, handled, bounds>>

(* readcb: a message goes to the end of the queue; of the other frames it  *)
(* keeps nothing (heartbeats are Heartbeat's subject).                     *)
readcb(w) ==
    LET c == conn[w] IN
    /\ pc[w] = "dispatch" /\ up[w] /\ toClient[c] # <<>>
    /\ toClient' = [toClient EXCEPT ![c] = Tail(@)]
    /\ queue' = IF Head(toClient[c]).kind = "message"
                THEN [queue EXCEPT ![w] = Append(@, Head(toClient[c]).id)]
                ELSE queue
    /\ UNCHANGED <<nsqd, opened, toNsqd, loop, current, called, outbuf, handled, bounds>>

-----------------------------------------------------------------------------
(* process_message_queue() and the user's callback.  The timer also fires  *)
(* while the connection is being established.                              *)

(* Slip: FIN is written ahead of the callback, as TOUCH is. *)
process_message_queueFinishesFirst(w) ==
    /\ pc[w] = "dispatch" /\ queue[w] # <<>>
    /\ current' = [current EXCEPT ![w] = Head(queue[w])]
    /\ queue' = [queue EXCEPT ![w] = Tail(@)]
    /\ called' = [called EXCEPT ![w] = "none"]
    /\ pc' = [pc EXCEPT ![w] = "callback"]
    /\ toNsqd' = Written(conn[w], Command("FIN", Head(queue[w])))
    /\ UNCHANGED <<nsqd, opened, toClient, conn, up, outbuf, handled, bounds>>

process_message_queue(w) ==
    /\ pc[w] = "dispatch" /\ queue[w] # <<>>
    /\ current' = [current EXCEPT ![w] = Head(queue[w])]
    /\ queue' = [queue EXCEPT ![w] = Tail(@)]
    /\ called' = [called EXCEPT ![w] = "none"]
    /\ pc' = [pc EXCEPT ![w] = "callback"]
    /\ UNCHANGED <<nsqd, opened, sockets, conn, up, outbuf, handled, bounds>>

(* $msg->touch(): written to the socket, connected or not; on a socket     *)
(* still connecting the write may fail.                                    *)
touch(w) ==
    /\ pc[w] = "callback" /\ called[w] = "none"
    /\ touches > 0 /\ touches' = touches - 1
    /\ \/ toNsqd' = Written(conn[w], Command("TOUCH", current[w]))
       \/ ~up[w] /\ UNCHANGED toNsqd
    /\ UNCHANGED <<nsqd, opened, toClient, loop, work, outbuf, handled, faults, failures>>

(* $msg->finish() and $msg->requeue(): at most one of them per callback,   *)
(* as message.c:39 asks of the user.  With auto_finish the worker answers  *)
(* for the message too: the user's fault.                                  *)
MayAnswer(w) ==
    /\ pc[w] = "callback" /\ called[w] = "none"
    /\ AutoFinish => "double_answer" \in Faults /\ faults > 0
    /\ faults' = IF AutoFinish THEN faults - 1 ELSE faults
    /\ UNCHANGED touches

(* Slip: nothing is written. *)
finishWritesNothing(w) ==
    /\ MayAnswer(w)
    /\ called' = [called EXCEPT ![w] = "FIN"]
    /\ handled' = handled \cup {current[w]}
    /\ UNCHANGED <<nsqd, opened, sockets, loop, queue, current, outbuf, failures>>

finish(w) ==
    /\ MayAnswer(w)
    /\ called' = [called EXCEPT ![w] = "FIN"]
    /\ outbuf' = [outbuf EXCEPT ![w] = Append(@, Command("FIN", current[w]))]
    /\ handled' = handled \cup {current[w]}
    /\ UNCHANGED <<nsqd, opened, sockets, loop, queue, current, failures>>

requeue(w) ==
    /\ MayAnswer(w)
    /\ failures > 0 /\ failures' = failures - 1
    /\ called' = [called EXCEPT ![w] = "REQ"]
    /\ outbuf' = [outbuf EXCEPT ![w] = Append(@, Command("REQ", current[w]))]
    /\ UNCHANGED <<nsqd, opened, sockets, loop, queue, current, handled>>

(* process_business_message from the callback's return on, and the RDY     *)
(* that process_message_queue adds.                                        *)
Return(w, commands) ==
    /\ pc' = [pc EXCEPT ![w] = "dispatch"]
    /\ outbuf' = [outbuf EXCEPT ![w] = @ \o commands \o <<Bare("RDY")>>]
    /\ current' = [current EXCEPT ![w] = NoMessage]
    /\ called' = [called EXCEPT ![w] = "none"]
    /\ UNCHANGED <<nsqd, opened, sockets, conn, up, queue>>

(* Slip: no FIN after a success. *)
CallbackSucceedsSilently(w) ==
    /\ pc[w] = "callback"
    /\ Return(w, <<>>)
    /\ handled' = handled \cup {current[w]}
    /\ UNCHANGED bounds

CallbackSucceeds(w) ==
    /\ pc[w] = "callback"
    /\ IF AutoFinish
       THEN /\ Return(w, <<Command("FIN", current[w])>>)
            /\ handled' = handled \cup {current[w]}
            /\ UNCHANGED bounds
       ELSE /\ Return(w, <<>>)
            /\ UNCHANGED handled
            /\ IF called[w] = "none" THEN Failure ELSE UNCHANGED bounds

(* It threw: the exception is cleared. *)
CallbackThrows(w) ==
    /\ pc[w] = "callback"
    /\ Failure
    /\ Return(w, IF AutoFinish THEN <<Command("REQ", current[w])>> ELSE <<>>)
    /\ UNCHANGED handled

(* The process ends, in a callback or not: exit(), a signal, memory. What  *)
(* it wrote to the socket is still on its way.                             *)
Crash(w) ==
    /\ pc[w] # "dead"
    /\ Fault("crash")
    /\ pc' = [pc EXCEPT ![w] = "dead"]
    /\ conn' = [conn EXCEPT ![w] = 0]
    /\ up' = [up EXCEPT ![w] = FALSE]
    /\ queue' = [queue EXCEPT ![w] = <<>>]
    /\ current' = [current EXCEPT ![w] = NoMessage]
    /\ called' = [called EXCEPT ![w] = "none"]
    /\ outbuf' = [outbuf EXCEPT ![w] = <<>>]
    /\ UNCHANGED <<nsqd, opened, sockets, handled>>

-----------------------------------------------------------------------------
(* nsqd. *)

(* A message goes to a connection that is ready for one more. *)
NsqdDelivers(c, m) ==
    /\ phase[c] = "subscribed" /\ status[m] = "queued"
    /\ Cardinality(InFlight(c)) < ready[c]
    /\ status' = [status EXCEPT ![m] = "inflight"]
    /\ holder' = [holder EXCEPT ![m] = c]
    /\ toClient' = [toClient EXCEPT ![c] = Append(@, Frame("message", m))]
    /\ UNCHANGED <<phase, ready, opened, toNsqd, loop, work, outbuf, handled, bounds>>

(* The connection is over for nsqd: unread commands are dropped, some of   *)
(* the last frames may not get out, and messages in flight are requeued.   *)
Closed(c) ==
    /\ phase' = [phase EXCEPT ![c] = "closed"]
    /\ status' = [m \in Messages |-> IF holder[m] = c THEN "queued" ELSE status[m]]
    /\ holder' = [m \in Messages |-> IF holder[m] = c THEN 0 ELSE holder[m]]
    /\ toNsqd' = [toNsqd EXCEPT ![c] = <<>>]
    /\ \E n \in 0..Len(toClient[c]) : toClient' = [toClient EXCEPT ![c] = SubSeq(@, 1, n)]
    /\ UNCHANGED <<ready, opened, loop, work, outbuf, handled>>

(* nsqd goes down, or misses the client's heartbeats. *)
NsqdCloses(c) == Open(c) /\ Fault("close") /\ Closed(c)

(* The worker no longer uses the connection, and nsqd has read all of it. *)
NsqdNotices(c) ==
    /\ Open(c) /\ toNsqd[c] = <<>>
    /\ \A w \in Workers : conn[w] # c
    /\ Closed(c)
    /\ UNCHANGED bounds

Receives(c, command) == Open(c) /\ toNsqd[c] # <<>> /\ command = Head(toNsqd[c])
Taken(c) == toNsqd' = [toNsqd EXCEPT ![c] = Tail(@)]
Reply(c, kind) == toClient' = [toClient EXCEPT ![c] = Append(@, Frame(kind, NoMessage))]

NsqdGreets(c) == \E command \in Commands :
    /\ Receives(c, command) /\ command.name = "V2" /\ phase[c] = "new"
    /\ phase' = [phase EXCEPT ![c] = "identified"]
    /\ IF Identify THEN Reply(c, "response") ELSE UNCHANGED toClient
    /\ Taken(c)
    /\ UNCHANGED <<status, holder, ready, opened, loop, work, outbuf, handled, bounds>>

NsqdSubscribes(c) == \E command \in Commands :
    /\ Receives(c, command) /\ command.name = "SUB" /\ phase[c] = "identified"
    /\ phase' = [phase EXCEPT ![c] = "subscribed"]
    /\ Taken(c)
    /\ UNCHANGED <<status, holder, ready, opened, toClient, loop, work, outbuf, handled, bounds>>

NsqdReady(c) == \E command \in Commands :
    /\ Receives(c, command) /\ command.name = "RDY" /\ phase[c] = "subscribed"
    /\ ready' = [ready EXCEPT ![c] = Rdy]
    /\ Taken(c)
    /\ UNCHANGED <<status, holder, phase, opened, toClient, loop, work, outbuf, handled, bounds>>

(* FIN, REQ and TOUCH of a message in flight on the connection; of any     *)
(* other message they earn an error frame and nothing more.                *)
NsqdAnswers(c) == \E command \in Commands :
    /\ Receives(c, command) /\ command.name \in {"FIN", "REQ", "TOUCH"}
    /\ phase[c] = "subscribed"
    /\ Taken(c)
    /\ IF command.id \in InFlight(c)
       THEN /\ status' = [status EXCEPT ![command.id] =
                            CASE command.name = "FIN" -> "finished"
                              [] command.name = "REQ" -> "deferred"
                              [] OTHER -> @]
            /\ holder' = [holder EXCEPT ![command.id] = IF command.name = "TOUCH" THEN @ ELSE 0]
            /\ UNCHANGED toClient
       ELSE Reply(c, "error") /\ UNCHANGED <<status, holder>>
    /\ UNCHANGED <<phase, ready, opened, loop, work, outbuf, handled, bounds>>

(* A command out of its turn (a bad protocol magic, or E_INVALID) costs    *)
(* the connection.                                                         *)
NsqdRejects(c) == \E command \in Commands :
    /\ Receives(c, command)
    /\ \/ phase[c] = "new" /\ command.name # "V2"
       \/ phase[c] = "identified" /\ command.name # "SUB"
    /\ Closed(c)
    /\ UNCHANGED bounds

NsqdReceives(c) == NsqdGreets(c) \/ NsqdSubscribes(c) \/ NsqdReady(c) \/ NsqdAnswers(c) \/ NsqdRejects(c)

(* The places a message in flight on c may be: it, or the answer to it. *)
Answers(m) == {Command("FIN", m), Command("REQ", m)}
InHand(m, c) ==
    \/ Frame("message", m) \in ToSet(toClient[c])
    \/ \E command \in Answers(m) : command \in ToSet(toNsqd[c])
    \/ \E w \in Workers :
        /\ conn[w] = c
        /\ \/ m \in ToSet(queue[w]) \/ current[w] = m
           \/ \E command \in Answers(m) : command \in ToSet(outbuf[w])

(* The message timeout: a fault (within the bound) while the worker still  *)
(* has the message, certain to come when nobody has it any more.           *)
Expires(m) ==
    /\ status[m] = "inflight"
    /\ status' = [status EXCEPT ![m] = "queued"]
    /\ holder' = [holder EXCEPT ![m] = 0]
    /\ UNCHANGED <<phase, ready, opened, sockets, loop, work, outbuf, handled>>

NsqdTimesOut(m) == Expires(m) /\ InHand(m, holder[m]) /\ Fault("timeout")
NsqdReclaims(m) == Expires(m) /\ ~InHand(m, holder[m]) /\ UNCHANGED bounds

(* The delay of a REQ has passed. *)
DelayEnds(m) ==
    /\ status[m] = "deferred"
    /\ status' = [status EXCEPT ![m] = "queued"]
    /\ UNCHANGED <<holder, phase, ready, opened, sockets, loop, work, outbuf, handled, bounds>>

-----------------------------------------------------------------------------
Init ==
    /\ status = [m \in Messages |-> "queued"] /\ holder = [m \in Messages |-> 0]
    /\ phase = [c \in Connections |-> "none"] /\ ready = [c \in Connections |-> 0]
    /\ toNsqd = [c \in Connections |-> <<>>] /\ toClient = [c \in Connections |-> <<>>]
    /\ opened = 0
    /\ conn = [w \in Workers |-> 0] /\ up = [w \in Workers |-> FALSE]
    /\ pc = [w \in Workers |-> "dead"]
    /\ queue = [w \in Workers |-> <<>>] /\ outbuf = [w \in Workers |-> <<>>]
    /\ current = [w \in Workers |-> NoMessage] /\ called = [w \in Workers |-> "none"]
    /\ handled = {} /\ faults = MaxFaults /\ failures = MaxFailures /\ touches = MaxTouches

conn_eventcb(w) == Connected(w) \/ send_identify(w) \/ ConnEof(w) \/ ConnError(w)
Callback(w) == touch(w) \/ finish(w) \/ requeue(w) \/ CallbackSucceeds(w) \/ CallbackThrows(w)

WorkerStep(w) == \/ StartWorker(w) \/ conn_eventcb(w) \/ Flush(w) \/ readcb(w)
                 \/ process_message_queue(w) \/ Callback(w) \/ Crash(w)
NsqdStep(c) == \/ \E m \in Messages : NsqdDelivers(c, m)
               \/ NsqdCloses(c) \/ NsqdNotices(c) \/ NsqdReceives(c)

Next == \/ \E w \in Workers : WorkerStep(w)
        \/ \E c \in Connections : NsqdStep(c)
        \/ \E m \in Messages : NsqdTimesOut(m) \/ NsqdReclaims(m) \/ DelayEnds(m)

(* libevent runs every handler whose event is active on each turn of the   *)
(* loop, a callback comes to its end, the master replaces dead workers,    *)
(* and nsqd serves its connections; faults are never obliged to happen.    *)
Fairness ==
    /\ \A w \in Workers :
        /\ WF_vars(StartWorker(w))
        /\ WF_vars(Connected(w)) /\ WF_vars(send_identify(w)) /\ WF_vars(ConnEof(w))
        /\ WF_vars(Flush(w)) /\ WF_vars(readcb(w)) /\ WF_vars(process_message_queue(w))
        /\ WF_vars(finish(w) \/ CallbackSucceeds(w))
    /\ \A c \in Connections :
        /\ WF_vars(\E m \in Messages : NsqdDelivers(c, m))
        /\ WF_vars(NsqdNotices(c)) /\ WF_vars(NsqdReceives(c))
    /\ \A m \in Messages :
        /\ WF_vars(NsqdReclaims(m)) /\ WF_vars(DelayEnds(m))

Safety == Init /\ [][Next]_vars
Spec == Safety /\ Fairness

-----------------------------------------------------------------------------
(* Properties. *)

(* Variables keep to their types; a message has a holder exactly while it  *)
(* is in flight, and a worker has a current message exactly while the      *)
(* callback runs (the static queue and NSQMsg of sub.c).                   *)
NsqdTypeOK ==
    /\ status \in [Messages -> {"queued", "inflight", "deferred", "finished"}]
    /\ holder \in [Messages -> 0..MaxConnections]
    /\ \A m \in Messages : (status[m] = "inflight") <=> (holder[m] # 0)
    /\ phase \in [Connections -> {"none", "new", "identified", "subscribed", "closed"}]
    /\ ready \in [Connections -> {0, Rdy}]
SocketsTypeOK ==
    /\ toNsqd \in [Connections -> Seq(Commands)]
    /\ toClient \in [Connections -> Seq(Frames)]
LoopTypeOK ==
    /\ opened \in 0..MaxConnections
    /\ conn \in [Workers -> 0..opened] /\ up \in [Workers -> BOOLEAN]
    /\ pc \in [Workers -> {"dispatch", "identify", "callback", "dead"}]
    /\ \A w \in Workers : (pc[w] = "dead") <=> (conn[w] = 0)
WorkTypeOK ==
    /\ queue \in [Workers -> Seq(Messages)] /\ outbuf \in [Workers -> Seq(Commands)]
    /\ current \in [Workers -> Messages \cup {NoMessage}]
    /\ called \in [Workers -> {"none", "FIN", "REQ"}]
    /\ \A w \in Workers : (pc[w] = "callback") <=> (current[w] # NoMessage)
    /\ handled \subseteq Messages
BoundsTypeOK == faults \in Nat /\ failures \in Nat /\ touches \in Nat
TypeOK == NsqdTypeOK /\ SocketsTypeOK /\ LoopTypeOK /\ WorkTypeOK /\ BoundsTypeOK

Finished == {m \in Messages : status[m] = "finished"}
D == INSTANCE Delivery WITH finished <- Finished

(* At-least-once: whatever is lost, requeued, delivered twice or answered  *)
(* for a stale copy, nsqd strikes a message off only after a callback has  *)
(* handled that message with success.                                      *)
ImplementsDelivery == D!Spec

(* Why ImplementsDelivery holds, and the inductive form of its proof: a    *)
(* FIN is for a message a callback has handled, wherever it is between the *)
(* bufferevent and nsqd, and so is what nsqd has made of it.               *)
Honest(commands, done) ==
    \A i \in DOMAIN commands : commands[i].name = "FIN" => commands[i].id \in done
FinAfterHandling ==
    /\ \A w \in Workers : Honest(outbuf[w], handled)
    /\ \A c \in Connections : Honest(toNsqd[c], handled)
    /\ \A m \in Messages : status[m] = "finished" => m \in handled

(* Every message is finished in the end, faults and failures being finite. *)
EveryMessageFinishes == D!EveryMessageFinishes

(* A callback that fails answers for its message all the same with         *)
(* auto_finish; without it the message may be forgotten.                   *)
NoneForgotten == AutoFinish \/ failures = MaxFailures

(* Unless a callback forgets it, no delivery is lost inside the worker: a  *)
(* message in flight on a connection some worker still uses is on its way  *)
(* to that worker, in its queue or its callback, or its FIN or REQ is on   *)
(* the way back.  Without this it would block a slot of "rdy" until nsqd's *)
(* message timeout.                                                        *)
InFlightAccounted ==
    NoneForgotten => \A m \in Messages, w \in Workers :
        status[m] = "inflight" /\ holder[m] = conn[w] => InHand(m, conn[w])

(* Until the first fault, and unless a callback forgets a message without  *)
(* auto_finish, nsqd has nothing to object to: no command reaches it out   *)
(* of turn or for a message that is not in flight, though TOUCH overtakes  *)
(* what is still in the output buffer.                                     *)
NothingToObject ==
    faults = MaxFaults /\ NoneForgotten =>
        \A c \in Connections :
            /\ phase[c] # "closed"
            /\ \A i \in DOMAIN toClient[c] : toClient[c][i].kind # "error"

(* The queue survives reconnects, so "rdy" bounds it only per connection   *)
(* and delivery: what a worker has read or is about to read exceeds Rdy    *)
(* messages only by Rdy more for every connection opened since and one     *)
(* more for every message nsqd timed out.                                  *)
Backlog(w) ==
    LET frames == IF conn[w] = 0 THEN <<>> ELSE toClient[conn[w]]
    IN  Len(queue[w]) + Cardinality({i \in DOMAIN frames : frames[i].kind = "message"})
BacklogBounded == \A w \in Workers : Backlog(w) <= Rdy * opened + (MaxFaults - faults)
=============================================================================
