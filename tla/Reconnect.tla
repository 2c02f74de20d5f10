------------------------------ MODULE Reconnect ------------------------------
(***************************************************************************)
(* The resources of a worker that reconnects.  conn_eventcb() calls        *)
(* subscribe() from inside the event loop of the subscribe() before, so    *)
(* the calls pile up: each has an event base and a bufferevent with its    *)
(* socket, and only the innermost loop turns.  What the connection carries *)
(* is Consumer's.  The operating system, libevent and nsqd are external.   *)
(***************************************************************************)
EXTENDS Integers, Sequences, FiniteSets

CONSTANTS
    MaxFiles,      \* descriptors the process may have
    References,    \* to the array nsqConfig is, besides the property's; 0 if it is not counted
    MaxLosses,     \* bound: connections lost
    Hazards        \* what may happen beyond the well-behaved case

ASSUME ReconnectAssumption ==
    /\ MaxFiles \in Nat /\ References \in Nat /\ MaxLosses \in Nat
    /\ Hazards \subseteq {"no_route", "no_base"}

VARIABLES
    hazards,       \* fixed in a behaviour: none, one or all
    stage,         \* "subscribe", "loop", "return"; "ended", "crashed"
    frames,        \* the subscribe() calls, outermost first: bev, and where conn_eventcb() is
    bevs,          \* every bufferevent there has been
    bev_res,       \* arg->bev_res->ptr, the bufferevent the timer and the callback use
    bases,         \* event bases with a descriptor of their own
    references,    \* to nsqConfig
    losses, eofs   \* connections lost; by an EOF

reconnectVars == <<hazards, stage, frames, bevs, bev_res, bases, references, losses, eofs>>

Innermost == frames[Len(frames)]
Holding == {"connecting", "up", "lost"}     \* a socket
Sockets == Cardinality({b \in DOMAIN bevs : bevs[b] \in Holding})
Files == bases + Sockets
Suspend(branch) == frames' = [frames EXCEPT ![Len(frames)].at = branch]

(* BEV_OPT_CLOSE_ON_FREE: the socket goes with it. *)
bufferevent_free(b) ==
    bevs' = [bevs EXCEPT ![b] = IF @ \in Holding \cup {"unconnected"} THEN "freed" ELSE "freed twice"]

-----------------------------------------------------------------------------
(* subscribe(): event_base_new() does with poll() if there is no           *)
(* descriptor for epoll.                                                   *)
NewBase == bases' = IF Files < MaxFiles THEN bases + 1 ELSE bases

subscribe ==
    /\ stage = "subscribe" /\ NewBase
    /\ bases' + Sockets < MaxFiles
    /\ bevs' = Append(bevs, "connecting") /\ bev_res' = Len(bevs')
    /\ frames' = Append(frames, [bev |-> Len(bevs'), at |-> "loop"])
    /\ stage' = "loop"
    /\ UNCHANGED <<hazards, references, losses, eofs>>

(* No socket, or connect() fails at once: -1 == flag.  NsqException        *)
(* "Connection failed" is thrown, and 1 returned.                          *)
ConnectFails ==
    /\ stage = "subscribe" /\ NewBase
    /\ bases' + Sockets >= MaxFiles \/ "no_route" \in hazards
    /\ bevs' = Append(bevs, "unconnected") /\ bev_res' = Len(bevs')
    /\ stage' = "return"
    /\ UNCHANGED <<hazards, frames, references, losses, eofs>>

NoBase ==
    /\ stage = "subscribe" /\ "no_base" \in hazards
    /\ stage' = "return"
    /\ UNCHANGED <<hazards, frames, bevs, bev_res, bases, references, losses, eofs>>

(* Back in conn_eventcb() of the call before; after its free that loop     *)
(* turns on, with nothing but the timer to wait for.                       *)
Return ==
    /\ stage = "return"
    /\ IF frames = <<>> THEN stage' = "ended" /\ UNCHANGED <<frames, bevs>>
       ELSE stage' = "loop" /\ Suspend("deserted") /\ bufferevent_free(Innermost.bev)
    /\ UNCHANGED <<hazards, bev_res, bases, references, losses, eofs>>

-----------------------------------------------------------------------------
(* conn_eventcb() *)
Event == stage = "loop" /\ Innermost.at = "loop"

(* send_identify() gives back a reference to nsqConfig it has not taken.   *)
Connected ==
    /\ Event /\ bevs[Innermost.bev] = "connecting"
    /\ bevs' = [bevs EXCEPT ![Innermost.bev] = "up"]
    /\ IF References = 0 THEN UNCHANGED <<stage, references>>
       ELSE /\ stage' = IF references = 0 THEN "crashed" ELSE stage
            /\ references' = IF references = 0 THEN 0 ELSE references - 1
    /\ UNCHANGED <<hazards, frames, bev_res, bases, losses, eofs>>

(* Slips: on an error nothing is freed before subscribe() returns; both    *)
(* frees come before it; the loop is gone back to; on EOF the bufferevent  *)
(* stays enabled.                                                          *)
Lost(branch) ==
    /\ Event /\ losses < MaxLosses /\ losses' = losses + 1
    /\ bevs[Innermost.bev] = "up" \/ branch = "error"
    /\ UNCHANGED <<hazards, bev_res, bases, references>>
ConnErrorFreesLate ==
    /\ Lost("error") /\ Suspend("error")
    /\ bevs' = [bevs EXCEPT ![Innermost.bev] = "lost"]
    /\ stage' = "subscribe" /\ UNCHANGED eofs
ConnErrorFreesBoth ==
    /\ Lost("error") /\ Suspend("error")
    /\ bevs' = [bevs EXCEPT ![Innermost.bev] = "freed twice"]
    /\ stage' = "subscribe" /\ UNCHANGED eofs
ConnErrorGivesUp ==
    /\ Lost("error") /\ Suspend("deserted")
    /\ bufferevent_free(Innermost.bev)
    /\ UNCHANGED <<stage, eofs>>
ConnEofKeepsListening ==
    /\ Lost("eof") /\ eofs' = eofs + 1
    /\ Suspend("eof")
    /\ stage' = "subscribe" /\ UNCHANGED bevs

(* The bufferevent is freed only when subscribe() has returned.            *)
ConnEof ==
    /\ Lost("eof") /\ eofs' = eofs + 1
    /\ Suspend("eof")
    /\ bevs' = [bevs EXCEPT ![Innermost.bev] = "lost"]
    /\ stage' = "subscribe"

(* It is freed before, and again when subscribe() has returned.            *)
ConnError ==
    /\ Lost("error")
    /\ Suspend("error")
    /\ bufferevent_free(Innermost.bev)
    /\ stage' = "subscribe" /\ UNCHANGED eofs

-----------------------------------------------------------------------------
ReconnectInit ==
    /\ hazards \in {{}, Hazards} \cup {{h} : h \in Hazards}
    /\ stage = "subscribe" /\ frames = <<>> /\ bevs = <<>> /\ bev_res = 0 /\ bases = 0
    /\ references = References /\ losses = 0 /\ eofs = 0

Worker == subscribe \/ ConnectFails \/ NoBase \/ Return \/ Connected
ReconnectNext == Worker \/ ConnEof \/ ConnError

(* The worker runs, and a connection that is not refused is accepted. *)
ReconnectSpec == ReconnectInit /\ [][ReconnectNext]_reconnectVars /\ WF_reconnectVars(Worker)

-----------------------------------------------------------------------------
(* Properties *)

(* Two descriptors for each subscribe(). *)
Ample == MaxFiles >= 2 * (MaxLosses + 1)

ReconnectTypeOK ==
    /\ hazards \subseteq Hazards
    /\ stage \in {"subscribe", "loop", "return", "ended", "crashed"}
    /\ \A i \in DOMAIN frames :
        frames[i] \in [bev : DOMAIN bevs, at : {"loop", "eof", "error", "deserted"}]
    /\ \A b \in DOMAIN bevs : bevs[b] \in Holding \cup {"unconnected", "freed", "freed twice"}
    /\ bev_res \in 0..Len(bevs) /\ bases \in 0..MaxFiles /\ references \in 0..References
    /\ losses \in 0..MaxLosses /\ eofs \in 0..losses

(* sub.c:225-245: a worker has one connection, the innermost call's,       *)
(* however many calls are piled up.                                        *)
OneConnection ==
    \A b \in DOMAIN bevs : bevs[b] \in {"connecting", "up"} =>
        frames # <<>> /\ b = Innermost.bev /\ \A i \in 1..(Len(frames) - 1) : frames[i].at # "loop"

(* sub.c:253-262: the socket of a connection that ended in an error is     *)
(* closed; one is left behind by each EOF, and one at most is in use.      *)
SocketsBounded == Sockets <= eofs + 1

(* sub.c:186, sub.c:236, sub.c:260-278: if every socket can be opened, no  *)
(* bufferevent is freed twice, and the one that the timer of the loop that *)
(* turns and the callback's $bev write to is that loop's; and whatever     *)
(* fails in connecting, it has not been freed.                             *)
NoUseAfterFree ==
    /\ hazards = {} /\ Ample => \A b \in DOMAIN bevs : bevs[b] # "freed twice"
    /\ stage = "loop" /\ hazards = {} /\ Ample => bev_res = Innermost.bev
    /\ stage = "loop" /\ "no_base" \notin hazards => bevs[bev_res] \in Holding \cup {"unconnected"}

(* sub.c:255, "Connection closed ,retrying", sub.c:258, "retry agin": a    *)
(* worker that has lost its connection has one again.                      *)
LostIsRetried == losses > 0 /\ stage = "subscribe" ~> stage = "loop" /\ bevs[bev_res] = "up"

(* The same where every connection can be started. *)
ReconnectsAlways == hazards = {} => LostIsRetried
=============================================================================
