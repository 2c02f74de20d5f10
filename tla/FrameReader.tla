----------------------------- MODULE FrameReader -----------------------------
(***************************************************************************)
(* readcb() of sub.c: the incremental parser that cuts the TCP stream of   *)
(* one nsqd connection into frames.                                        *)
(*                                                                         *)
(* The parser's place (is_first, l, message: static variables; size: a     *)
(* field of the NSQMsg shared by every connection of the process) outlives *)
(* the connection it was reading.                                          *)
(*                                                                         *)
(* One step of the model is one turn of readcb's while (1) loop.  Between  *)
(* two calls of readcb the process waits in event_base_dispatch.           *)
(***************************************************************************)
EXTENDS Wire, FiniteSets

CONSTANTS
    HeartbeatSize,   \* size by which readcb knows a heartbeat (15)
    MetaSize,        \* timestamp, attempts and id ahead of a body (26)
    Frames,          \* the frames nsqd may send
    MaxFrames,       \* bound: frames sent on one connection
    MaxConnections,  \* bound: connections of the run
    Hazards          \* deliveries that may happen beyond the well-behaved ones

ASSUME FrameReaderAssumption ==
    /\ HeartbeatSize \in Nat \ {0} /\ MetaSize \in Nat \ {0}
    /\ \A f \in Frames : IsFrame(f)
    /\ MaxFrames \in Nat /\ MaxConnections \in Nat \ {0}
    /\ Hazards \subseteq {"split_header", "split_error", "pipelined_error", "cut_frame"}

VARIABLES
    frames,       \* what nsqd sends on the current connection, in order
    arrived,      \* how many bytes of it libevent has read off the socket
    connections,  \* connections opened so far
    input,        \* the bufferevent's input buffer
    is_first,     \* static: the next read is a header
    l,            \* static: bytes of the frame read so far
    size,         \* msg->size
    message,      \* static: the frame being assembled
    pc,           \* "dispatch": in the event loop; "readcb"; "exited"
    effects,      \* what readcb did on this connection: NOPs and enqueues
    hazards       \* of this behaviour: none of Hazards may happen in it, or all

reader == <<is_first, l, size, message>>
vars == <<frames, arrived, connections, input, reader, pc, effects, hazards>>

(* Frames of an nsqd that keeps to its protocol: no larger than memory     *)
(* grants, and a message always with its metadata.                         *)
NsqdFrames == \A f \in Frames : /\ FrameSize(f) <= MemoryLimit
                                /\ f.type = 2 => Len(f.data) >= MetaSize

-----------------------------------------------------------------------------
(* What nsqd sends, and what each frame asks of the client. *)

Sent(i) == FlattenSeq([j \in 1..i |-> Encode(frames[j])])
Stream == Sent(Len(frames))
End(i) == Len(Sent(i))

IsHeartbeat(f) == f.type = 0 /\ FrameSize(f) = HeartbeatSize
Nop == [kind |-> "NOP", data |-> <<>>]
Enqueue(data) == [kind |-> "enqueue", data |-> data]
Owed(f) == IF IsHeartbeat(f) THEN <<Nop>>
           ELSE IF f.type = 2 THEN <<Enqueue(f.data)>> ELSE <<>>

(* What the first i frames ask for; those all of whose bytes have been     *)
(* read off the socket are the first ones.                                 *)
OwedFor(i) == FlattenSeq([j \in 1..i |-> Owed(frames[j])])
ArrivedFrames == {i \in 1..Len(frames) : End(i) <= arrived}
OwedEffects == OwedFor(Cardinality(ArrivedFrames))

-----------------------------------------------------------------------------
(* The network, seen from the bufferevent: the stream arrives in pieces.   *)

SplitsHeader(q) == \E i \in 1..Len(frames) : q \in (End(i-1) + 1)..(End(i-1) + Width - 1)
SplitsError(q) == \E i \in 1..Len(frames) : frames[i].type = 1 /\ q \in (End(i-1) + 1)..(End(i) - 1)
PipelinesError(p, q) == \E i \in 1..Len(frames) : frames[i].type = 1 /\ p < End(i) /\ End(i) < q
CutsFrame == \A i \in 0..Len(frames) : arrived # End(i)

Arrive ==
    /\ pc = "dispatch"
    /\ \E q \in (arrived + 1)..Len(Stream) :
        /\ SplitsHeader(q) => "split_header" \in hazards
        /\ SplitsError(q) => "split_error" \in hazards
        /\ PipelinesError(arrived, q) => "pipelined_error" \in hazards
        /\ input' = input \o SubSeq(Stream, arrived + 1, q)
        /\ arrived' = q
    /\ pc' = "readcb"
    /\ UNCHANGED <<frames, connections, reader, effects, hazards>>

(* What nsqd sends on a connection is chosen when it opens: Arrive decides *)
(* when, and whether, each part of it is seen.                             *)
NewConnection ==
    /\ connections < MaxConnections
    /\ connections' = connections + 1
    /\ frames' \in BoundedSeq(Frames, MaxFrames)
    /\ arrived' = 0 /\ input' = <<>> /\ effects' = <<>>
    /\ pc' = "dispatch"
    /\ UNCHANGED hazards

(* conn_eventcb on EOF or ERROR: a nested subscribe() opens a new          *)
(* bufferevent; the static variables keep their values.                    *)
Reconnect ==
    /\ pc = "dispatch"
    /\ CutsFrame => "cut_frame" \in hazards
    /\ NewConnection
    /\ UNCHANGED reader

(* The master forks a fresh worker for one that exited. *)
Respawn ==
    /\ pc = "exited"
    /\ NewConnection
    /\ is_first' = TRUE /\ l' = 0 /\ size' = 0 /\ message' = <<>>

-----------------------------------------------------------------------------
(* readcb().  Fill is the part every turn of the loop starts with: read a  *)
(* header if one is due, then as much of the frame as there is.  The count *)
(* size - l is passed as a size_t, so a negative one asks for everything.  *)

Fill ==
    LET got   == IF is_first THEN Least(Width, Len(input)) ELSE 0
        sz    == IF is_first
                 THEN SizeIn(SubSeq(input, 1, got))
                 ELSE size
        rest  == SubSeq(input, got + 1, Len(input))
        n     == IF l <= sz THEN Least(sz - l, Len(rest)) ELSE Len(rest)
        old   == IF is_first THEN Zeros(sz) ELSE message
    IN  [size    |-> sz,
         l       |-> l + n,
         message |-> [i \in 1..sz |-> IF i \in (l + 1)..(l + n) THEN rest[i - l] ELSE old[i]],
         input   |-> SubSeq(rest, n + 1, Len(rest)),
         overrun |-> l > sz /\ n > 0]

(* The frame type is read from the first Width bytes of message; those a   *)
(* shorter allocation does not hold are whatever the heap holds.           *)
FrameTypes(fill) ==
    IF fill.size >= Width THEN {readI32(SubSeq(fill.message, 1, Width))} ELSE 0..2

(* Slip: l is not reset with the rest. *)
NextFrameKeepsL == is_first' = TRUE /\ UNCHANGED l /\ size' = 0 /\ message' = <<>>

NextFrame == is_first' = TRUE /\ l' = 0 /\ size' = 0 /\ message' = <<>>

ReadcbFrame(fill) ==
    /\ pc = "readcb" /\ fill.size <= MemoryLimit
    /\ input' = fill.input
    /\ UNCHANGED <<frames, arrived, connections, hazards>>

(* Slip: an empty read counts as the -1 of read(). *)
ReadcbPartialCountsErrors == LET fill == Fill IN
    /\ ReadcbFrame(fill)
    /\ fill.l < fill.size
    /\ is_first' = FALSE /\ size' = fill.size /\ message' = fill.message
    /\ l' = IF fill.l = l THEN l - 1 ELSE fill.l
    /\ pc' = "dispatch"
    /\ UNCHANGED effects

ReadcbPartial == LET fill == Fill IN
    /\ ReadcbFrame(fill)
    /\ fill.l < fill.size
    /\ is_first' = FALSE /\ l' = fill.l /\ size' = fill.size /\ message' = fill.message
    /\ pc' = "dispatch"
    /\ UNCHANGED effects

(* Slip: no break when there was nothing to read. *)
ReadcbResponseContinues == LET fill == Fill IN
    /\ ReadcbFrame(fill)
    /\ fill.l = fill.size /\ 0 \in FrameTypes(fill)
    /\ effects' = IF fill.size = HeartbeatSize THEN Append(effects, Nop) ELSE effects
    /\ pc' = "readcb"
    /\ NextFrame

ReadcbResponse == LET fill == Fill IN
    /\ ReadcbFrame(fill)
    /\ fill.l = fill.size /\ 0 \in FrameTypes(fill)
    /\ effects' = IF fill.size = HeartbeatSize THEN Append(effects, Nop) ELSE effects
    /\ pc' = IF fill.size # 0 THEN "readcb" ELSE "dispatch"
    /\ NextFrame

(* malloc(size - 30 + 1) of a negative number fails and the message is     *)
(* dropped; of zero it succeeds and the memcpy of -1 bytes is fatal.       *)
ReadcbMessage == LET fill == Fill
                     body == fill.size - Width - MetaSize IN
    /\ ReadcbFrame(fill)
    /\ fill.l = fill.size /\ 2 \in FrameTypes(fill)
    /\ effects' = IF body >= 0
                  THEN Append(effects, Enqueue(SubSeq(fill.message, Width + 1, fill.size)))
                  ELSE effects
    /\ pc' = IF body = -1 THEN "exited" ELSE "readcb"
    /\ NextFrame

(* Neither a response nor a message (nsqd's error frames have type 1): no  *)
(* branch of readcb resets the parser.                                     *)
ReadcbOther == LET fill == Fill IN
    /\ ReadcbFrame(fill)
    /\ fill.l = fill.size /\ FrameTypes(fill) \ {0, 2} # {}
    /\ l' = fill.l /\ size' = fill.size /\ message' = fill.message
    /\ UNCHANGED <<is_first, pc, effects>>

(* l beyond size: the bytes were written past the end of message, which    *)
(* the heap survives or does not.                                          *)
ReadcbOverrun == LET fill == Fill IN
    /\ ReadcbFrame(fill)
    /\ fill.l > fill.size
    /\ \/ pc' = "dispatch"
       \/ fill.overrun /\ pc' = "exited"
    /\ NextFrame
    /\ UNCHANGED effects

(* emalloc() of more than memory_limit is a fatal error of the script. *)
ReadcbAllocFails ==
    /\ pc = "readcb" /\ is_first
    /\ Fill.size > MemoryLimit
    /\ pc' = "exited"
    /\ UNCHANGED <<frames, arrived, connections, input, reader, effects, hazards>>

readcb == \/ ReadcbPartial \/ ReadcbResponse \/ ReadcbMessage
          \/ ReadcbOther \/ ReadcbOverrun \/ ReadcbAllocFails

-----------------------------------------------------------------------------
Init ==
    /\ frames \in BoundedSeq(Frames, MaxFrames)
    /\ arrived = 0 /\ connections = 1 /\ input = <<>> /\ effects = <<>>
    /\ is_first = TRUE /\ l = 0 /\ size = 0 /\ message = <<>>
    /\ pc = "dispatch"
    /\ hazards \in {{}, Hazards}

Next == Arrive \/ Reconnect \/ Respawn \/ readcb

(* libevent runs a callback it has entered; nothing obliges nsqd to send.  *)
Spec == Init /\ [][Next]_vars /\ WF_vars(readcb)

-----------------------------------------------------------------------------
(* Properties. *)

(* The parser's variables keep to their ranges; l may pass size (a frame   *)
(* left by ReadcbOther), message never does.                               *)
TypeOK ==
    /\ arrived \in 0..Len(Stream) /\ connections \in 1..MaxConnections
    /\ is_first \in BOOLEAN /\ l \in Nat /\ size \in 0..MemoryLimit
    /\ input \in Seq(Byte) /\ message \in [1..Len(message) -> Byte]
    /\ pc \in {"dispatch", "readcb", "exited"}

(* Every way out of readcb (the four breaks, sub.c:312, 337, 375, 381)     *)
(* leaves the parser either between frames with nothing kept, or inside a  *)
(* frame whose buffer has room for what is still missing: whatever arrived *)
(* and in whatever pieces, a connection cut anywhere included.             *)
ReaderParked ==
    pc = "dispatch" => IF is_first THEN l = 0 /\ size = 0
                                   ELSE l < size /\ Len(message) = size

(* With whole headers and with error frames that arrive alone and whole,   *)
(* readcb does what the frames ask for, once each and in order: by the     *)
(* time it returns, one NOP per heartbeat and one enqueued message, with   *)
(* the bytes nsqd sent, per message frame that has arrived in full.        *)
FaithfulDecoding ==
    hazards = {} =>
        /\ pc # "exited"
        /\ IsPrefix(effects, OwedEffects)
        /\ pc = "dispatch" => effects = OwedEffects

(* On such deliveries readcb always hands control back to the event loop,  *)
(* so that the next heartbeat can be read.                                 *)
ReadcbReturns == hazards = {} /\ pc = "readcb" ~> pc # "readcb"

(* sub.c:323, "Heartbeat message - respond immediately": when readcb has   *)
(* returned, every heartbeat that has arrived has had its NOP.             *)
HeartbeatsAnswered ==
    pc = "dispatch" =>
        LET nops(s) == SelectSeq(s, LAMBDA e : e.kind = "NOP")
        IN  Len(nops(effects)) >= Len(nops(OwedEffects))
=============================================================================
