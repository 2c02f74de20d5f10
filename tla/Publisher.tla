----------------------------- MODULE Publisher -----------------------------
(***************************************************************************)
(* publish() and deferredPublish() of pub.c on one connection: send the    *)
(* command, then read frames until nsqd's answer is among them, answering  *)
(* heartbeats on the way.  The socket does not block: read() returns what  *)
(* has arrived of what it was asked for, -1 when nothing has, 0 once nsqd  *)
(* has closed and everything is read; send() takes what fits.              *)
(*                                                                         *)
(* Commands are cut into units of the length of a NOP: nsqd takes whatever *)
(* follows a PUB as its body until the announced length is reached.        *)
(* nsqd and the network are external.                                      *)
(***************************************************************************)
EXTENDS Wire, FiniteSets

CONSTANTS
    OkData, HeartbeatData, ErrorData,  \* the data of "OK", "_heartbeat_", an error
    CleanSize,     \* up to this size a fresh allocation ends in a zero byte
    Parts,         \* units of a PUB: its head, then its body
    MaxCalls,      \* bound: messages published
    MaxBeats,      \* bound: heartbeats nsqd sends
    MaxCloses,     \* bound: connections nsqd closes unasked (there is one)
    MaxEvents,     \* bound: all of these together in a behaviour with hazards
    Hazards        \* what may happen beyond the well-behaved case

Ok == [type |-> 0, data |-> OkData]
Heartbeat == [type |-> 0, data |-> HeartbeatData]
Error == [type |-> 1, data |-> ErrorData]

ASSUME PublisherAssumption ==
    /\ IsFrame(Ok) /\ IsFrame(Heartbeat) /\ IsFrame(Error)
    /\ Cardinality({OkData, HeartbeatData, ErrorData}) = 3
    /\ \A text \in {OkData, HeartbeatData, ErrorData} : text # <<>> /\ \A i \in DOMAIN text : text[i] # 0
    /\ CleanSize \in Nat /\ Parts \in Nat \ {0, 1}
    /\ MaxCalls \in Nat /\ MaxBeats \in Nat /\ MaxCloses \in 0..1 /\ MaxEvents \in Nat
    /\ Hazards \subseteq {"split_size", "split_body", "dirty_heap", "partial_send"}

VARIABLES
    hazards,    \* fixed in a behaviour: none or all
    (* the publisher *)
    calls,      \* messages 1..calls have been given to publish
    pc,         \* "idle"; "size" (again_read), "body" (again); "exited"
    msg_size, l, message,
    results,    \* what publish returned for each message
    (* the connection *)
    toNsqd,     \* units on their way to nsqd
    transit,    \* frames on their way to the publisher, as bytes
    socket,     \* bytes that have arrived
    (* nsqd *)
    open,       \* its end of the connection is
    pending,    \* the units of the PUB it is taking
    stored,     \* messages it has taken as they were
    refused,    \* messages it has answered with an error
    oks, beats, nops, closes   \* OKs and heartbeats sent, NOPs received, unasked closes

reader == <<msg_size, l, message>>
connection == <<toNsqd, transit, socket>>
nsqd == <<open, pending, stored, refused, oks, beats, nops, closes>>
vars == <<hazards, calls, pc, reader, results, connection, nsqd>>

Message == 1..MaxCalls
WithinBounds == hazards # {} => calls + beats + closes < MaxEvents
Unit(m, part) == [message |-> m, part |-> part]
Pub(m) == [part \in 1..Parts |-> Unit(m, part)]
Nop == Unit(0, 0)

(* send(): the return value is not looked at, so what did not fit is gone. *)
Send(units) ==
    \E n \in IF "partial_send" \in hazards THEN 0..Len(units) ELSE {Len(units)} :
        toNsqd' = IF open THEN toNsqd \o SubSeq(units, 1, n) ELSE toNsqd

-----------------------------------------------------------------------------
(* publish(): the command, and each frame's size. *)

Call ==
    /\ pc = "idle" /\ calls < MaxCalls /\ WithinBounds
    /\ calls' = calls + 1
    /\ Send(Pub(calls + 1))
    /\ pc' = "size"
    /\ UNCHANGED <<hazards, reader, results, transit, socket, nsqd>>

(* The two differ in the command, and read the answer with the same lines. *)
publish == Call
deferredPublish == Call

Return(result) ==
    /\ results' = [results EXCEPT ![calls] = result]
    /\ pc' = "idle"

Eof == ~open /\ transit = <<>> /\ socket = <<>>

(* Slips: a read() of 0 is tried again like one of -1; a read() of -1 is   *)
(* taken for one of 0.                                                     *)
LostConnectionRetried == pc = "size" /\ Eof /\ UNCHANGED vars
LostConnectionEager ==
    /\ pc = "size" /\ socket = <<>>
    /\ Return("exception")
    /\ UNCHANGED <<hazards, calls, reader, connection, nsqd>>

(* read() returned 0: NsqException "Pub lost connection". *)
LostConnection ==
    /\ pc = "size" /\ Eof
    /\ Return("exception")
    /\ UNCHANGED <<hazards, calls, reader, connection, nsqd>>

(* Fewer than Width bytes will do.  emalloc of too much ends the script.   *)
ReadSize ==
    /\ pc = "size" /\ socket # <<>>
    /\ LET got  == Least(Width, Len(socket))
           size == SizeIn(SubSeq(socket, 1, got))
       IN  /\ socket' = SubSeq(socket, got + 1, Len(socket))
           /\ IF size > MemoryLimit
              THEN pc' = "exited" /\ UNCHANGED reader
              ELSE /\ pc' = "body"
                   /\ msg_size' = size /\ l' = 0 /\ message' = Zeros(size)
    /\ UNCHANGED <<hazards, calls, results, toNsqd, transit, nsqd>>

-----------------------------------------------------------------------------
(* publish(): a frame's type and data.  Every read() asks for msg_size     *)
(* bytes, at message + l, and its result is added to l, -1 included.       *)

Read ==
    LET n == Least(msg_size, Len(socket))
    IN  [l       |-> IF n = 0 /\ msg_size > 0 /\ ~Eof THEN l - 1 ELSE l + n,
         message |-> [i \in 1..(IF l + n > msg_size THEN l + n ELSE msg_size) |->
                         IF i \in (l + 1)..(l + n) THEN socket[i - l] ELSE message[i]],
         socket  |-> SubSeq(socket, n + 1, Len(socket))]

ReadAgain(read) == read.l < msg_size /\ read.l > 0
Overrun(read) == Len(read.message) > msg_size + 1

(* What strcmp() sees after the frame type: up to a zero byte.  The byte   *)
(* after the frame was never set, and is the allocator's.                  *)
Texts(bytes) ==
    LET rest  == SubSeq(bytes, Width + 1, Len(bytes))
        zeros == {i \in DOMAIN rest : rest[i] = 0}
        end   == CHOOSE i \in zeros : \A j \in zeros : i <= j
    IN  IF zeros # {} THEN {SubSeq(rest, 1, end - 1)}
        ELSE IF "dirty_heap" \in hazards /\ Len(bytes) >= CleanSize
             THEN {rest, Append(rest, Base)}
             ELSE {rest}

ReadMore == LET read == Read IN
    /\ pc = "body" /\ ReadAgain(read)
    /\ l' = read.l /\ message' = read.message /\ socket' = read.socket
    /\ UNCHANGED <<hazards, calls, pc, msg_size, results, toNsqd, transit, nsqd>>

ReadWhole(read) ==
    /\ pc = "body" /\ ~ReadAgain(read)
    /\ socket' = read.socket
    /\ msg_size' = 0 /\ l' = 0 /\ message' = <<>>
    /\ UNCHANGED <<hazards, calls, transit, nsqd>>

ReplyOk == LET read == Read IN
    /\ ReadWhole(read)
    /\ OkData \in Texts(read.message)
    /\ Return("true")
    /\ UNCHANGED toNsqd

(* Slips: the heartbeat has no NOP; it is taken for an error, or for the   *)
(* answer.                                                                 *)
ReplyHeartbeatWith(answer, ret) == LET read == Read IN
    /\ ReadWhole(read)
    /\ HeartbeatData \in Texts(read.message)
    /\ toNsqd' = toNsqd \o answer
    /\ IF ret = "none" THEN pc' = "size" /\ UNCHANGED results ELSE Return(ret)
ReplyHeartbeatSilent == ReplyHeartbeatWith(<<>>, "none")
ReplyHeartbeatIsError == ReplyHeartbeatWith(<<>>, "false")
ReplyHeartbeatIsAnswer == ReplyHeartbeatWith(<<Nop>>, "true")

ReplyHeartbeat == LET read == Read IN
    /\ ReadWhole(read)
    /\ HeartbeatData \in Texts(read.message)
    /\ Send(<<Nop>>)
    /\ pc' = "size"
    /\ UNCHANGED results

(* Slip: any answer will do. *)
ReplyOtherIsTrue == LET read == Read IN
    /\ ReadWhole(read)
    /\ Texts(read.message) \ {OkData, HeartbeatData} # {}
    /\ Return("true")
    /\ UNCHANGED toNsqd

ReplyOther == LET read == Read IN
    /\ ReadWhole(read)
    /\ Texts(read.message) \ {OkData, HeartbeatData} # {}
    /\ Return("false")
    /\ UNCHANGED toNsqd

(* More was read than there is room for: the heap may not survive it. *)
ReadOverrun == LET read == Read IN
    /\ pc = "body" /\ Overrun(read)
    /\ socket' = read.socket
    /\ pc' = "exited"
    /\ UNCHANGED <<hazards, calls, reader, results, toNsqd, transit, nsqd>>

PublisherStep ==
    \/ LostConnection \/ ReadSize
    \/ ReadMore \/ ReplyOk \/ ReplyHeartbeat \/ ReplyOther \/ ReadOverrun

-----------------------------------------------------------------------------
(* nsqd and the network. *)

Answer(frame) == transit' = Append(transit, Encode(frame))
Hangup == open' = FALSE /\ toNsqd' = <<>>

(* The next unit: part of a body, if a PUB is being taken; a command. *)
NsqdTakesPart ==
    /\ pending # <<>> \/ Head(toNsqd).part = 1
    /\ Len(pending) + 1 < Parts
    /\ pending' = Append(pending, Head(toNsqd))
    /\ toNsqd' = Tail(toNsqd)
    /\ UNCHANGED <<transit, open, stored, refused, oks, nops>>

NsqdStores == LET taken == Append(pending, Head(toNsqd)) IN
    /\ Len(taken) = Parts
    /\ stored' = IF taken = Pub(taken[1].message) THEN stored \cup {taken[1].message} ELSE stored
    /\ oks' = oks + 1 /\ pending' = <<>>
    /\ toNsqd' = Tail(toNsqd)
    /\ Answer(Ok)
    /\ UNCHANGED <<open, refused, nops>>

(* E_PUB_FAILED, E_BAD_MESSAGE, ... are fatal to the connection. *)
NsqdRefuses == LET taken == Append(pending, Head(toNsqd)) IN
    /\ Len(taken) = Parts
    /\ refused' = refused \cup {taken[1].message}
    /\ pending' = <<>>
    /\ Answer(Error) /\ Hangup
    /\ UNCHANGED <<stored, oks, nops>>

NsqdHearsNop ==
    /\ pending = <<>> /\ Head(toNsqd) = Nop
    /\ nops' = nops + 1
    /\ toNsqd' = Tail(toNsqd)
    /\ UNCHANGED <<transit, open, pending, stored, refused, oks>>

(* The rest of a message whose beginning was lost: E_INVALID. *)
NsqdRejects ==
    /\ pending = <<>> /\ Head(toNsqd).part > 1
    /\ Answer(Error) /\ Hangup
    /\ UNCHANGED <<pending, stored, refused, oks, nops>>

NsqdStep ==
    /\ open /\ toNsqd # <<>>
    /\ NsqdTakesPart \/ NsqdStores \/ NsqdRefuses \/ NsqdHearsNop \/ NsqdRejects
    /\ UNCHANGED <<hazards, calls, pc, reader, results, socket, beats, closes>>

NsqdBeats ==
    /\ open /\ beats < MaxBeats /\ WithinBounds
    /\ beats' = beats + 1
    /\ Answer(Heartbeat)
    /\ UNCHANGED <<hazards, calls, pc, reader, results, toNsqd, socket, open, pending, stored, refused,
                   oks, nops, closes>>

NsqdCloses ==
    /\ open /\ closes < MaxCloses /\ WithinBounds
    /\ closes' = closes + 1
    /\ Hangup
    /\ UNCHANGED <<hazards, calls, pc, reader, results, transit, socket, pending, stored, refused,
                   oks, beats, nops>>

(* A frame arrives as one piece, unless it is split. *)
Arrive ==
    /\ transit # <<>>
    /\ LET bytes == Head(transit) IN
       \E n \in 1..Len(bytes) :
        /\ n < Width => "split_size" \in hazards
        /\ n \in Width..(Len(bytes) - 1) => "split_body" \in hazards
        /\ socket' = socket \o SubSeq(bytes, 1, n)
        /\ transit' = IF n = Len(bytes) THEN Tail(transit)
                      ELSE <<SubSeq(bytes, n + 1, Len(bytes))>> \o Tail(transit)
    /\ UNCHANGED <<hazards, calls, pc, reader, results, toNsqd, nsqd>>

-----------------------------------------------------------------------------
Init ==
    /\ hazards \in {{}, Hazards}
    /\ calls = 0 /\ pc = "idle"
    /\ msg_size = 0 /\ l = 0 /\ message = <<>>
    /\ results = [m \in Message |-> "none"]
    /\ toNsqd = <<>> /\ transit = <<>> /\ socket = <<>>
    /\ open = TRUE /\ pending = <<>> /\ stored = {} /\ refused = {}
    /\ oks = 0 /\ beats = 0 /\ nops = 0 /\ closes = 0

Next ==
    \/ publish \/ deferredPublish \/ PublisherStep
    \/ NsqdStep \/ NsqdBeats \/ NsqdCloses \/ Arrive

(* The reading loops run on, bytes sent arrive, and nsqd answers a PUB it  *)
(* has all of.                                                             *)
Fairness == WF_vars(PublisherStep) /\ WF_vars(NsqdStep) /\ WF_vars(Arrive)

Spec == Init /\ [][Next]_vars /\ Fairness

-----------------------------------------------------------------------------
(* Properties *)

TypeOK ==
    /\ hazards \in {{}, Hazards}
    /\ calls \in 0..MaxCalls /\ pc \in {"idle", "size", "body", "exited"}
    /\ msg_size \in 0..MemoryLimit /\ l \in Nat /\ Len(message) >= msg_size
    /\ results \in [Message -> {"none", "true", "false", "exception"}]
    /\ open \in BOOLEAN /\ stored \subseteq Message /\ refused \subseteq Message
    /\ oks \in 0..MaxCalls /\ beats \in 0..MaxBeats /\ nops \in 0..MaxBeats

(* With whole frames and whole sends, a call returns true only for a       *)
(* message nsqd has, as it was sent.                                       *)
TrueMeansStored ==
    hazards = {} => \A m \in Message : results[m] = "true" => m \in stored

(* README.md:199, "fix publish return error when get the heartbeat": a     *)
(* call returns false only for a message nsqd has refused.                 *)
FalseMeansRefused ==
    hazards = {} => \A m \in Message : results[m] = "false" => m \in refused

(* Only a connection nsqd has closed makes a call throw "Pub lost          *)
(* connection": a socket that just has nothing to read does not.           *)
ExceptionMeansClosed == \A m \in Message : results[m] = "exception" => ~open

(* There are no more successes than nsqd sent OKs, whatever was split,     *)
(* lost or misread.                                                        *)
TrueHasAnOk == Cardinality({m \in Message : results[m] = "true"}) <= oks

(* pub.c:310-311, "both publish() and deferredPublish() now properly       *)
(* respond to heartbeats": between two reads what has not been read is     *)
(* whole frames, and the heartbeats among them are the ones without a NOP. *)
Unread == FlattenSeq(<<socket>> \o transit)
Times(x, s) == Cardinality({i \in DOMAIN s : s[i] = x})
HeartbeatsAnswered ==
    hazards = {} /\ pc \in {"idle", "size"} /\ open =>
        \E line \in BoundedSeq({Ok, Heartbeat}, MaxBeats + 1) :
            /\ Unread = FlattenSeq([i \in DOMAIN line |-> Encode(line[i])])
            /\ beats = nops + Times(Nop, toNsqd) + Times(Heartbeat, line)

(* With whole frames and whole sends, every call returns. *)
CallsReturn == hazards = {} /\ pc \in {"size", "body"} ~> pc \in {"idle", "exited"}
=============================================================================
