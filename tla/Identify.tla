------------------------------ MODULE Identify ------------------------------
(***************************************************************************)
(* send_identify(): after IDENTIFY has been sent, read() nsqd's reply, size *)
(* and then frame.  The socket does not block, neither the one libevent    *)
(* made for conn_eventcb() nor that of connect_nsqd(): read() is -1 when   *)
(* nothing has arrived, and 0 once nsqd has closed and all is read.        *)
(* nsqd and the network are external.                                      *)
(***************************************************************************)
EXTENDS Wire

CONSTANTS
    Replies,       \* nsqd's answers to IDENTIFY: OK, its settings, an error
    HeartbeatFrame,   \* what nsqd sends next
    MaxBeats,      \* bound: heartbeats sent
    MaxMisses,     \* bound: how far below zero l is counted
    Hazards        \* what may happen beyond the well-behaved case

ASSUME IdentifyAssumption ==
    /\ \A f \in Replies \cup {HeartbeatFrame} : IsFrame(f)
    /\ MaxBeats \in Nat /\ MaxMisses \in Nat
    /\ Hazards \subseteq {"split_size", "split_body", "closed"}

VARIABLES
    hazards,       \* fixed in a behaviour: none, one or all
    pc,            \* "size" (again_size), "body" (again), "done"
    msg_size, l,
    low, high,     \* what of message has been written, message itself being at 0
    reply, transit, socket, open, beats    \* nsqd's answer; the connection

reader == <<pc, msg_size, l, low, high>>
network == <<reply, transit, socket, open, beats>>
vars == <<hazards, reader, network>>

Eof == ~open /\ transit = <<>> /\ socket = <<>>

Got(n) == SubSeq(socket, 1, n)
Take(n) == socket' = SubSeq(socket, n + 1, Len(socket))

-----------------------------------------------------------------------------
(* Slips: the last byte of a size is left; its bytes are in host order.    *)
ReadSizeAs(width, size(_)) ==
    /\ pc = "size" /\ socket # <<>>
    /\ LET n == Least(width, Len(socket)) IN Take(n) /\ msg_size' = size(Got(n))
    /\ pc' = "body"
    /\ UNCHANGED <<hazards, l, low, high, reply, transit, open, beats>>
ReadSizeShort == ReadSizeAs(Width - 1, SizeIn)
ReadSizeHostOrder == ReadSizeAs(Width, LAMBDA bytes : SizeIn(Reverse(bytes)))

(* send_identify().  A size of which not all bytes are there is taken for  *)
(* the whole of it.  When nothing is there, read() is called again.        *)
ReadSize ==
    /\ pc = "size" /\ socket # <<>>
    /\ LET n == Least(Width, Len(socket)) IN Take(n) /\ msg_size' = SizeIn(Got(n))
    /\ pc' = "body"
    /\ UNCHANGED <<hazards, l, low, high, reply, transit, open, beats>>

(* Slip: the loop goes on until there is more than the frame. *)
ReadBodyOnceMore ==
    /\ pc = "body"
    /\ LET n == Least(msg_size, Len(socket)) IN
        /\ Take(n)
        /\ l' = l + n /\ low' = low
        /\ high' = IF n > 0 /\ l + n > high THEN l + n ELSE high
        /\ pc' = IF l' <= msg_size THEN "body" ELSE "done"
    /\ UNCHANGED <<hazards, msg_size, reply, transit, open, beats>>

(* Every read() asks for msg_size bytes, at message + l, and its result is *)
(* added to l, -1 included.                                                *)
ReadBody ==
    /\ pc = "body"
    /\ LET n == Least(msg_size, Len(socket))
           r == IF n = 0 /\ msg_size > 0 /\ ~Eof THEN -1 ELSE n
       IN  /\ Take(n)
           /\ l' = IF l + r < -MaxMisses THEN l ELSE l + r
           /\ low' = IF n > 0 /\ l < low THEN l ELSE low
           /\ high' = IF n > 0 /\ l + n > high THEN l + n ELSE high
           /\ pc' = IF l' < msg_size THEN "body" ELSE "done"
    /\ UNCHANGED <<hazards, msg_size, reply, transit, open, beats>>

send_identify == ReadSize \/ ReadBody

-----------------------------------------------------------------------------
(* nsqd and the network. *)
Answers ==
    /\ open /\ reply = {}
    /\ \E f \in Replies : reply' = {f} /\ transit' = Append(transit, Encode(f))
    /\ UNCHANGED <<hazards, reader, socket, open, beats>>

Beats ==
    /\ open /\ beats < MaxBeats /\ reply # {}
    /\ transit' = Append(transit, Encode(HeartbeatFrame)) /\ beats' = beats + 1
    /\ UNCHANGED <<hazards, reader, reply, socket, open>>

Closes ==
    /\ open /\ "closed" \in hazards
    /\ open' = FALSE
    /\ UNCHANGED <<hazards, reader, reply, transit, socket, beats>>

Arrive ==
    /\ transit # <<>>
    /\ LET bytes == Head(transit) IN
       \E n \in 1..Len(bytes) :
        /\ n < Width => "split_size" \in hazards
        /\ n \in Width..(Len(bytes) - 1) => "split_body" \in hazards
        /\ socket' = socket \o SubSeq(bytes, 1, n)
        /\ transit' = IF n = Len(bytes) THEN Tail(transit)
                      ELSE <<SubSeq(bytes, n + 1, Len(bytes))>> \o Tail(transit)
    /\ UNCHANGED <<hazards, reader, reply, open, beats>>

Init ==
    /\ hazards \in {{}, Hazards} \cup {{h} : h \in Hazards}
    /\ pc = "size" /\ msg_size = 0 /\ l = 0 /\ low = 0 /\ high = 0
    /\ reply = {} /\ transit = <<>> /\ socket = <<>> /\ open = TRUE /\ beats = 0

Next == send_identify \/ Answers \/ Beats \/ Closes \/ Arrive

Spec == Init /\ [][Next]_vars /\ WF_vars(send_identify) /\ WF_vars(Answers) /\ WF_vars(Arrive)

-----------------------------------------------------------------------------
(* Properties *)

TypeOK ==
    /\ hazards \subseteq Hazards /\ pc \in {"size", "body", "done"}
    /\ msg_size \in Nat /\ \A f \in reply : msg_size <= FrameSize(f)
    /\ l \in Int /\ -MaxMisses <= l /\ l <= 2 * msg_size
    /\ low \in Int /\ high \in Nat /\ low <= 0
    /\ reply \subseteq Replies /\ beats \in 0..MaxBeats /\ open \in BOOLEAN

NotSplit == hazards \cap {"split_size", "split_body"} = {}
Unread == FlattenSeq(<<socket>> \o transit)

(* common.c:57-73: send_identify() takes the whole reply and nothing else  *)
(* off the connection: what follows it is left for the next reader, who    *)
(* finds it at the beginning of a frame.                                   *)
TakesTheReply ==
    NotSplit /\ pc = "done" =>
        Unread = FlattenSeq([i \in 1..beats |-> Encode(HeartbeatFrame)])

(* common.c:66-70: nothing is written outside message, msg_size + 1 bytes. *)
WritesInside == NotSplit => low >= 0 /\ high <= msg_size + 1

(* common.c:58-73: with a reply in one piece, and a connection that stays, *)
(* send_identify() returns.                                                *)
IdentifyReturns == hazards = {} => <>(pc = "done")
=============================================================================
