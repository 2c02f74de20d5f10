---------------------------- MODULE MCFrameReader ----------------------------
(* Values for FrameReader: sizes and types of two bytes, bytes of eight    *)
(* values, one byte of metadata ahead of a message body.                   *)
EXTENDS FrameReader

OkFrame == [type |-> 0, data |-> <<7>>]
Heartbeat == [type |-> 0, data |-> <<6, 6>>]
EmptyMessage == [type |-> 2, data |-> <<5>>]
Message == [type |-> 2, data |-> <<5, 3, 4>>]
Error == [type |-> 1, data |-> <<1, 1>>]

MCFrames == {OkFrame, Heartbeat, EmptyMessage, Message, Error}
OkFirst == {OkFrame, Heartbeat}

(* These frames keep to nsqd's protocol. *)
ASSUME MCNsqdFrames == NsqdFrames
==============================================================================
