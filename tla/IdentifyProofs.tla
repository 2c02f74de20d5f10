--------------------------- MODULE IdentifyProofs ---------------------------
(***************************************************************************)
(* send_identify() takes the reply to IDENTIFY, and not a byte more, and   *)
(* stays in its buffer, when what nsqd sends arrives in whole frames; its  *)
(* size is never read larger than it is, whatever is split: for every      *)
(* width and base of a size, every reply, and any number of heartbeats     *)
(* behind it.                                                              *)
(***************************************************************************)
EXTENDS Identify, WireProofs

-----------------------------------------------------------------------------
(* The inductive invariant. *)

(* What has been sent and not read; what of the reply and of the           *)
(* heartbeats behind it that is.                                           *)
Coming == socket \o FlattenSeq(transit)
Body(f) == Digits(f.type) \o f.data
Left(f) == IF pc = "size" THEN Encode(f) ELSE IF pc = "body" THEN Body(f) ELSE <<>>
Heartbeats(n) == FlattenSeq([i \in 1..n |-> Encode(HeartbeatFrame)])

BytesOK == socket \in Seq(Byte) /\ transit \in Seq(Seq(Byte))

Silent == pc = "size" /\ beats = 0 /\ socket = <<>> /\ transit = <<>>

(* The first read is at the beginning of the reply, whatever is split. If  *)
(* nothing is, the reply is there as a whole or not at all.                *)
Reading(f) ==
    /\ NotSplit \/ pc = "size" => Coming = Left(f) \o Heartbeats(beats)
    /\ NotSplit /\ pc = "size" /\ socket # <<>> => Len(socket) >= Len(Encode(f))
    /\ NotSplit /\ pc = "size" /\ socket = <<>> => transit # <<>> /\ transit[1] = Encode(f)
    /\ NotSplit /\ pc = "body" => msg_size = FrameSize(f) /\ Len(socket) >= msg_size

BufferOK ==
    /\ pc = "size" => msg_size = 0
    /\ pc = "body" => l <= msg_size
    /\ pc = "size" \/ (NotSplit /\ pc = "body") => l = 0 /\ low = 0 /\ high = 0
    /\ NotSplit /\ pc = "done" => low = 0 /\ high = msg_size

Inv ==
    /\ TypeOK /\ BytesOK /\ BufferOK
    /\ reply = {} => Silent
    /\ \A f \in reply : reply = {f} /\ Reading(f)

-----------------------------------------------------------------------------
(* The bytes. *)

LEMMA RepliesAreFrames == IsFrame(HeartbeatFrame) /\ \A f \in Replies : IsFrame(f)
  BY IdentifyAssumption

LEMMA FrameParts ==
    ASSUME NEW f, IsFrame(f)
    PROVE  /\ Encode(f) = Digits(FrameSize(f)) \o Body(f)
           /\ Digits(FrameSize(f)) \in Seq(Byte) /\ Len(Digits(FrameSize(f))) = Width
           /\ Body(f) \in Seq(Byte) /\ Len(Body(f)) = FrameSize(f)
           /\ Encode(f) \in Seq(Byte) /\ Len(Encode(f)) = Width + FrameSize(f)
           /\ Width \in Nat /\ Width > 0 /\ FrameSize(f) \in Nat /\ FrameSize(f) >= Width
<1>1. /\ f.type \in Nat /\ f.data \in Seq(Byte) /\ FrameSize(f) \in Nat /\ FrameSize(f) >= Width
      /\ Encode(f) \in Seq(Byte) /\ Len(Encode(f)) = Width + FrameSize(f)
  BY EncodingIs
<1> DEFINE D == Digits(FrameSize(f))
           T == Digits(f.type)
<1>2. D \in Seq(Byte) /\ Len(D) = Width /\ T \in Seq(Byte) /\ Len(T) = Width
  BY <1>1, DigitsAre
<1>3. Encode(f) = (D \o T) \o f.data
  BY DEF Encode
<1> HIDE DEF D, T
<1>4. (D \o T) \o f.data = D \o (T \o f.data)
  BY <1>1, <1>2, JoinedTwice
<1>5. T \o f.data \in Seq(Byte) /\ Len(T \o f.data) = Len(T) + Len(f.data)
  BY <1>1, <1>2, BytesJoined, Zenon
<1>6. Body(f) = T \o f.data
  BY DEF Body, T
<1>7. FrameSize(f) = Len(T) + Len(f.data)
  BY <1>2 DEF FrameSize
<1>8. Encode(f) = D \o Body(f) /\ Body(f) \in Seq(Byte) /\ Len(Body(f)) = FrameSize(f)
  BY <1>3, <1>4, <1>5, <1>6, <1>7, Zenon
<1>9. D = Digits(FrameSize(f))
  BY DEF D
<1>10. Width \in Nat /\ Width > 0
  BY WireAssumption
<1>11. QED
  BY <1>1, <1>2, <1>8, <1>9, <1>10, Zenon

LEMMA HeartbeatsAre ==
    ASSUME NEW n \in Nat
    PROVE  /\ Heartbeats(n) \in Seq(Byte)
           /\ Heartbeats(n + 1) = Heartbeats(n) \o Encode(HeartbeatFrame)
<1> DEFINE E == Encode(HeartbeatFrame)
           s == [i \in 1..n |-> E]
           t == [i \in 1..(n + 1) |-> E]
<1>1. E \in Seq(Byte)
  BY RepliesAreFrames, FrameParts
<1> HIDE DEF E
<1>2. OneMore(n, s, E, t)
  <2>1. s \in [1..n -> Seq(Byte)] /\ t \in [1..(n + 1) -> Seq(Byte)] /\ (\A i \in 1..n : t[i] = s[i])
    BY <1>1
  <2>2. t[n + 1] = E
    OBVIOUS
  <2> HIDE DEF s, t
  <2>3. QED
    BY <1>1, <2>1, <2>2 DEF OneMore
<1> HIDE DEF s, t
<1>3. FlattenSeq(t) = FlattenSeq(s) \o E /\ FlattenSeq(s) \in Seq(Byte)
  BY <1>2, FlattenMore, Zenon
<1>4. QED
  BY <1>3 DEF Heartbeats, s, t, E

LEMMA NoHeartbeats == Heartbeats(0) = <<>>
<1>1. [i \in 1..0 |-> Encode(HeartbeatFrame)] = [i \in 1..0 |-> <<>>]
  OBVIOUS
<1>2. QED
  BY <1>1, NothingFlat DEF Heartbeats

LEMMA ComingIs ==
    ASSUME BytesOK
    PROVE  Coming \in Seq(Byte) /\ FlattenSeq(transit) \in Seq(Byte) /\ Unread = Coming
<1>1. FlattenSeq(transit) \in Seq(Byte) /\ FlattenSeq(<<socket>> \o transit) = socket \o FlattenSeq(transit)
  BY FlattenFront DEF BytesOK
<1>2. socket \o FlattenSeq(transit) \in Seq(Byte)
  BY <1>1, BytesJoined DEF BytesOK
<1>3. QED
  BY <1>1, <1>2 DEF Coming, Unread

LEMMA PiecesAre == ASSUME NEW s \in Seq(Seq(Byte)) PROVE s \in [1..Len(s) -> Seq(Byte)]
  OBVIOUS

(* nsqd sends a frame. *)
LEMMA SentBehind ==
    ASSUME BytesOK, NEW e \in Seq(Byte), transit' = Append(transit, e), socket' = socket
    PROVE  BytesOK' /\ Coming' = Coming \o e /\ (transit # <<>> => transit'[1] = transit[1]) /\ transit' # <<>>
<1> DEFINE n == Len(transit)
<1>1. /\ transit \in Seq(Seq(Byte)) /\ socket \in Seq(Byte) /\ n \in Nat
      /\ transit' \in Seq(Seq(Byte)) /\ Len(transit') = n + 1 /\ transit'[n + 1] = e
      /\ \A i \in 1..n : transit'[i] = transit[i]
  BY DEF BytesOK
<1>2. (transit # <<>> => transit'[1] = transit[1]) /\ transit' # <<>>
  <2>1. transit # <<>> => 1 \in 1..n
    BY <1>1
  <2>2. QED
    BY <1>1, <2>1
<1>3. OneMore(n, transit, e, transit')
  <2>1. transit \in [1..n -> Seq(Byte)] /\ transit' \in [1..(n + 1) -> Seq(Byte)]
    BY <1>1, PiecesAre
  <2> HIDE DEF n
  <2>2. QED
    BY <1>1, <2>1 DEF OneMore
<1>4. FlattenSeq(transit') = FlattenSeq(transit) \o e /\ FlattenSeq(transit) \in Seq(Byte)
  BY <1>3, FlattenMore, Zenon
<1>5. socket \o (FlattenSeq(transit) \o e) = (socket \o FlattenSeq(transit)) \o e
  BY <1>1, <1>4, JoinedTwice
<1>6. QED
  BY <1>1, <1>2, <1>4, <1>5 DEF BytesOK, Coming

(* However much of it arrives, nothing is lost and nothing overtakes.      *)
LEMMA ArrivesInOrder ==
    ASSUME BytesOK, Arrive
    PROVE  BytesOK' /\ Coming' = Coming /\ \E n \in Nat : Len(socket') = Len(socket) + n
<1> DEFINE bytes == Head(transit)
           behind == Tail(transit)
<1>1. /\ transit \in Seq(Seq(Byte)) /\ socket \in Seq(Byte) /\ bytes \in Seq(Byte)
      /\ behind \in Seq(Seq(Byte)) /\ transit = <<bytes>> \o behind
  <2>1. transit \in Seq(Seq(Byte)) /\ socket \in Seq(Byte) /\ transit # <<>>
    BY DEF BytesOK, Arrive
  <2>2. transit = <<bytes>> \o behind /\ bytes \in Seq(Byte) /\ behind \in Seq(Seq(Byte))
    BY <2>1
  <2>3. QED
    BY <2>1, <2>2
<1>2. PICK n \in 1..Len(bytes) :
          /\ socket' = socket \o SubSeq(bytes, 1, n)
          /\ transit' = IF n = Len(bytes) THEN behind ELSE <<SubSeq(bytes, n + 1, Len(bytes))>> \o behind
  BY DEF Arrive
<1> HIDE DEF bytes, behind
<1> DEFINE front == SubSeq(bytes, 1, n)
           rest == SubSeq(bytes, n + 1, Len(bytes))
<1>3. /\ front \in Seq(Byte) /\ Len(front) = n /\ rest \in Seq(Byte) /\ Len(rest) = Len(bytes) - n
      /\ bytes = front \o rest /\ n \in Nat /\ n \in 0..Len(bytes)
  <2>1. n \in 0..Len(bytes) /\ n \in Nat
    BY <1>1
  <2>2. QED
    BY <1>1, <2>1, CutInTwo
<1>4. socket' = socket \o front /\ transit' = IF n = Len(bytes) THEN behind ELSE <<rest>> \o behind
  BY <1>2
<1> HIDE DEF front, rest
<1>5. FlattenSeq(transit) = bytes \o FlattenSeq(behind) /\ FlattenSeq(behind) \in Seq(Byte)
  BY <1>1, FlattenFront
<1>6. transit' \in Seq(Seq(Byte)) /\ FlattenSeq(transit') = rest \o FlattenSeq(behind)
  <2>1. CASE n = Len(bytes)
    <3>1. rest = <<>>
      BY <1>3, <2>1
    <3>2. rest \o FlattenSeq(behind) = FlattenSeq(behind)
      BY <1>5, <3>1, NoneJoined
    <3>3. QED
      BY <1>1, <1>4, <2>1, <3>2
  <2>2. CASE n # Len(bytes)
    <3>1. transit' = <<rest>> \o behind
      BY <1>4, <2>2
    <3>2. QED
      BY <1>1, <1>3, <3>1, FlattenFront
  <2>3. QED
    BY <2>1, <2>2
<1>7. socket' \in Seq(Byte) /\ Len(socket') = Len(socket) + n
  BY <1>1, <1>3, <1>4, BytesJoined
<1>8. Coming' = Coming
  <2> DEFINE F == FlattenSeq(behind)
  <2>1. (socket \o front) \o (rest \o F) = socket \o (front \o (rest \o F))
    <3>1. rest \o F \in Seq(Byte)
      BY <1>3, <1>5, BytesJoined
    <3>2. QED
      BY <1>1, <1>3, <3>1, JoinedTwice
  <2>2. front \o (rest \o F) = bytes \o F
    BY <1>3, <1>5, JoinedTwice
  <2> HIDE DEF F
  <2>3. QED
    BY <1>4, <1>5, <1>6, <2>1, <2>2 DEF Coming, F
<1>9. QED
  BY <1>3, <1>6, <1>7, <1>8 DEF BytesOK

(* read() takes the first bytes. *)
LEMMA TakenFromFront ==
    ASSUME BytesOK, NEW n \in 0..Len(socket), Take(n), transit' = transit
    PROVE  /\ BytesOK' /\ Len(socket') = Len(socket) - n
           /\ Got(n) \in Seq(Byte) /\ Len(Got(n)) = n
           /\ Coming = Got(n) \o Coming'
<1>1. socket \in Seq(Byte) /\ transit' \in Seq(Seq(Byte)) /\ FlattenSeq(transit) \in Seq(Byte)
  BY ComingIs DEF BytesOK
<1>2. /\ Got(n) \in Seq(Byte) /\ Len(Got(n)) = n /\ socket' \in Seq(Byte) /\ Len(socket') = Len(socket) - n
      /\ socket = Got(n) \o socket'
  BY <1>1, CutInTwo DEF Got, Take
<1>3. (Got(n) \o socket') \o FlattenSeq(transit) = Got(n) \o (socket' \o FlattenSeq(transit))
  BY <1>1, <1>2, JoinedTwice
<1>4. QED
  BY <1>1, <1>2, <1>3 DEF BytesOK, Coming

-----------------------------------------------------------------------------
(* The steps. *)

LEMMA InvInit == Init => Inv
<1> SUFFICES ASSUME Init PROVE Inv
  OBVIOUS
<1>1. /\ reply = {} /\ transit = <<>> /\ socket = <<>> /\ open = TRUE /\ beats = 0 /\ pc = "size"
      /\ msg_size = 0 /\ l = 0 /\ low = 0 /\ high = 0
  BY DEF Init
<1>2. hazards \subseteq Hazards
  BY DEF Init
<1>3. TypeOK
  BY <1>1, <1>2, IdentifyAssumption DEF TypeOK
<1>4. QED
  BY <1>1, <1>3 DEF Inv, BytesOK, BufferOK, Silent

(* nsqd sends behind what it has sent, and what is left to read is more    *)
(* by it.                                                                  *)
LEMMA AnswersKeeps == Inv /\ Answers => Inv'
<1> SUFFICES ASSUME Inv, Answers PROVE Inv'
  OBVIOUS
<1>1. PICK f \in Replies : reply' = {f} /\ transit' = Append(transit, Encode(f))
  BY DEF Answers
<1>2. UNCHANGED <<hazards, pc, msg_size, l, low, high, socket, open, beats>> /\ Silent
  BY DEF Answers, Inv, reader
<1>3. IsFrame(f) /\ Encode(f) \in Seq(Byte) /\ FrameSize(f) \in Nat
  BY RepliesAreFrames, FrameParts
<1>4. BytesOK' /\ Coming' = Coming \o Encode(f)
  BY <1>1, <1>2, <1>3, SentBehind DEF Inv
<1>5. Coming' = Encode(f) \o Heartbeats(beats)
  <2>1. Coming = <<>>
    <3>1. FlattenSeq(<<>>) = <<>>
      <4>1. [i \in 1..0 |-> <<>>] = <<>>
        OBVIOUS
      <4>2. QED
        BY <4>1, NothingFlat
    <3>2. <<>> \o <<>> = <<>>
      BY NoneJoined
    <3>3. QED
      BY <1>2, <3>1, <3>2 DEF Silent, Coming
  <2>2. <<>> \o Encode(f) = Encode(f) /\ Encode(f) \o <<>> = Encode(f)
    BY <1>3, NoneJoined
  <2>3. QED
    BY <1>2, <1>4, <2>1, <2>2, NoHeartbeats DEF Silent
<1>6. transit' # <<>> /\ transit'[1] = Encode(f)
  BY <1>1, <1>2 DEF Silent
<1>7. Reading(f)'
  BY <1>2, <1>5, <1>6 DEF Silent, Reading, Left
<1>8. TypeOK' /\ BufferOK'
  <2>1. msg_size = 0 /\ msg_size <= FrameSize(f)
    BY <1>2, <1>3 DEF Inv, BufferOK, Silent
  <2>2. QED
    BY <1>1, <1>2, <2>1 DEF Inv, TypeOK, BufferOK, NotSplit
<1>9. QED
  BY <1>1, <1>4, <1>7, <1>8 DEF Inv

LEMMA BeatsKeeps == Inv /\ Beats => Inv'
<1> SUFFICES ASSUME Inv, Beats PROVE Inv'
  OBVIOUS
<1> DEFINE E == Encode(HeartbeatFrame)
<1>1. UNCHANGED <<hazards, pc, msg_size, l, low, high, reply, socket, open>>
  BY DEF Beats, reader
<1>2. transit' = Append(transit, E) /\ beats' = beats + 1 /\ beats' \in 0..MaxBeats /\ beats \in Nat /\ reply # {}
  BY IdentifyAssumption DEF Beats, Inv, TypeOK
<1>3. E \in Seq(Byte)
  BY RepliesAreFrames, FrameParts
<1>4. BytesOK' /\ Coming' = Coming \o E /\ (transit # <<>> => transit'[1] = transit[1]) /\ transit' # <<>>
  <2> HIDE DEF E
  <2>1. QED
    BY <1>1, <1>2, <1>3, SentBehind DEF Inv
<1>5. ASSUME NEW f \in reply PROVE Reading(f)'
  <2>1. Reading(f) /\ IsFrame(f)
    BY RepliesAreFrames DEF Inv, TypeOK
  <2>2. Left(f)' = Left(f) /\ Left(f) \in Seq(Byte)
    <3>1. Encode(f) \in Seq(Byte) /\ Body(f) \in Seq(Byte) /\ <<>> \in Seq(Byte)
      BY <2>1, FrameParts, NoneJoined
    <3>2. QED
      BY <1>1, <3>1 DEF Left
  <2>3. /\ Heartbeats(beats) \in Seq(Byte)
        /\ Heartbeats(beats') = Heartbeats(beats) \o E
    BY <1>2, HeartbeatsAre
  <2>4. Coming = Left(f) \o Heartbeats(beats) => Coming' = Left(f) \o Heartbeats(beats')
    <3> HIDE DEF E
    <3>1. QED
      BY <1>3, <1>4, <2>2, <2>3, JoinedTwice
  <2>5. QED
    BY <1>1, <1>4, <2>1, <2>2, <2>4 DEF Reading, NotSplit
<1>6. TypeOK' /\ BufferOK'
  BY <1>1, <1>2 DEF Inv, TypeOK, BufferOK, NotSplit
<1>7. QED
  BY <1>1, <1>2, <1>4, <1>5, <1>6 DEF Inv

LEMMA ClosesKeeps == Inv /\ Closes => Inv'
<1> SUFFICES ASSUME Inv, Closes PROVE Inv'
  OBVIOUS
<1>1. UNCHANGED <<hazards, pc, msg_size, l, low, high, reply, transit, socket, beats>> /\ open' = FALSE
  BY DEF Closes, reader
<1>2. QED
  BY <1>1 DEF Inv, TypeOK, BytesOK, BufferOK, Silent, Reading, NotSplit, Coming, Left

LEMMA ArriveKeeps == Inv /\ Arrive => Inv'
<1> SUFFICES ASSUME Inv, Arrive PROVE Inv'
  OBVIOUS
<1>1. UNCHANGED <<hazards, pc, msg_size, l, low, high, reply, open, beats>> /\ transit # <<>>
  BY DEF Arrive, reader
<1>2. BytesOK' /\ Coming' = Coming
  BY ArrivesInOrder DEF Inv
<1>3. PICK n \in Nat : Len(socket') = Len(socket) + n
  BY ArrivesInOrder DEF Inv
<1>4. reply # {}
  BY <1>1 DEF Inv, Silent
<1>5. ASSUME NEW f \in reply PROVE Reading(f)'
  <2>1. Reading(f) /\ IsFrame(f)
    BY RepliesAreFrames DEF Inv, TypeOK
  <2>2. Left(f)' = Left(f)
    BY <1>1 DEF Left
  <2>3. Len(socket) \in Nat /\ Len(socket') >= Len(socket)
    BY <1>3 DEF Inv, BytesOK
  <2>4. ASSUME NotSplit, pc = "size" PROVE socket' # <<>> /\ Len(socket') >= Len(Encode(f))
    <3>0. Encode(f) \in Seq(Byte) /\ Len(Encode(f)) \in Nat /\ Len(Encode(f)) > 0
      BY <2>1, FrameParts
    <3>1. CASE socket # <<>>
      <4>1. Len(socket) >= Len(Encode(f))
        BY <2>1, <2>4, <3>1 DEF Reading
      <4>2. Len(socket') >= Len(Encode(f)) /\ Len(socket') # 0
        BY <2>3, <3>0, <4>1, <1>3
      <4>3. QED
        BY <4>2
    <3>2. CASE socket = <<>>
      <4>1. Head(transit) = Encode(f)
        BY <2>1, <2>4, <3>2 DEF Reading, Inv, BytesOK
      <4> DEFINE E == Encode(f)
      <4>2. PICK m \in 1..Len(E) :
                /\ m < Width => "split_size" \in hazards
                /\ m \in Width..(Len(E) - 1) => "split_body" \in hazards
                /\ socket' = socket \o SubSeq(E, 1, m)
        BY <4>1 DEF Arrive
      <4>3. m = Len(E)
        <5>1. ~(m < Width) /\ ~(m \in Width..(Len(E) - 1))
          BY <2>4, <4>2 DEF NotSplit
        <5>2. Width \in Nat /\ m \in Nat /\ m <= Len(E) /\ Len(E) \in Nat
          BY <3>0, WireAssumption
        <5> HIDE DEF E
        <5>3. QED
          BY <5>1, <5>2
      <4>4. SubSeq(E, 1, m) \in Seq(Byte) /\ Len(SubSeq(E, 1, m)) = m
        <5>1. m \in 0..Len(E) /\ E \in Seq(Byte)
          BY <3>0, <4>3
        <5>2. QED
          BY <5>1, CutInTwo
      <4> HIDE DEF E
      <4>5. socket' = SubSeq(E, 1, m)
        BY <3>2, <4>2, <4>4, NoneJoined
      <4>6. Len(socket') = Len(E) /\ Len(E) > 0
        BY <3>0, <4>3, <4>4, <4>5 DEF E
      <4>7. QED
        BY <4>6 DEF E
    <3>3. QED
      BY <3>1, <3>2
  <2>5. NotSplit /\ pc = "body" => Len(socket') >= msg_size
    BY <2>1, <2>3, <1>3 DEF Reading, Inv, TypeOK
  <2>6. QED
    BY <1>1, <1>2, <2>1, <2>2, <2>4, <2>5 DEF Reading, NotSplit
<1>6. TypeOK' /\ BufferOK'
  BY <1>1 DEF Inv, TypeOK, BufferOK, NotSplit
<1>7. QED
  BY <1>1, <1>2, <1>4, <1>5, <1>6 DEF Inv

(* read() of the size: of whole frames it is the size of the reply, and    *)
(* the rest of the reply is there to be read.                              *)
LEMMA ReadSizeKeeps == Inv /\ ReadSize => Inv'
<1> SUFFICES ASSUME Inv, ReadSize PROVE Inv'
  OBVIOUS
<1> DEFINE n == Least(Width, Len(socket))
<1>1. /\ UNCHANGED <<hazards, l, low, high, reply, transit, open, beats>>
      /\ pc = "size" /\ pc' = "body" /\ socket # <<>> /\ Take(n) /\ msg_size' = SizeIn(Got(n))
  BY DEF ReadSize
<1>2. PICK f : reply = {f} /\ Reading(f) /\ f \in Replies
  <2>1. reply # {}
    BY <1>1 DEF Inv, Silent
  <2>2. QED
    BY <2>1 DEF Inv, TypeOK
<1>3. IsFrame(f)
  BY <1>2, RepliesAreFrames
<1> DEFINE D == Digits(FrameSize(f))
           H == Heartbeats(beats)
           B == Body(f)
           front == SubSeq(D, 1, n)
           back == SubSeq(D, n + 1, Len(D))
<1>4. /\ D \in Seq(Byte) /\ Len(D) = Width /\ B \in Seq(Byte) /\ Encode(f) = D \o B
      /\ H \in Seq(Byte) /\ Width \in Nat /\ FrameSize(f) \in Nat /\ Fits(FrameSize(f))
      /\ Len(B) = FrameSize(f) /\ Len(Encode(f)) = Width + FrameSize(f)
  <2>1. beats \in Nat
    BY IdentifyAssumption DEF Inv, TypeOK
  <2>2. H \in Seq(Byte)
    BY <2>1, HeartbeatsAre
  <2> HIDE DEF H
  <2>3. QED
    BY <1>3, <2>2, FrameParts, EncodingIs
<1>5. n \in 0..Len(socket) /\ n \in 0..Width /\ n \in Nat /\ Len(socket) \in Nat
  BY <1>4 DEF Least, Inv, BytesOK
<1> HIDE DEF n, H, B, D
<1>6. /\ BytesOK' /\ Len(socket') = Len(socket) - n
      /\ Got(n) \in Seq(Byte) /\ Len(Got(n)) = n /\ Coming = Got(n) \o Coming'
  BY <1>1, <1>5, TakenFromFront DEF Inv
<1>7. /\ front \in Seq(Byte) /\ Len(front) = n /\ back \in Seq(Byte) /\ Len(back) = Width - n
      /\ D = front \o back
  <2>1. n \in 0..Len(D)
    BY <1>4, <1>5
  <2>2. QED
    BY <1>4, <2>1, CutInTwo
<1> HIDE DEF front, back
<1>8. Got(n) = front /\ Coming' = back \o (B \o H)
  <2>1. Coming = front \o (back \o (B \o H))
    <3>1. Coming = (D \o B) \o H
      BY <1>1, <1>2, <1>4 DEF Reading, Left, H
    <3>2. (D \o B) \o H = D \o (B \o H) /\ B \o H \in Seq(Byte)
      BY <1>4, JoinedTwice, BytesJoined
    <3>3. (front \o back) \o (B \o H) = front \o (back \o (B \o H))
      BY <1>7, <3>2, JoinedTwice
    <3>4. QED
      BY <1>7, <3>1, <3>2, <3>3
  <2>2. B \o H \in Seq(Byte)
    BY <1>4, BytesJoined
  <2>3. back \o (B \o H) \in Seq(Byte) /\ Coming' \in Seq(Byte)
    <3>1. Coming' \in Seq(Byte)
      <4>1. socket' \in Seq(Byte) /\ transit \in Seq(Seq(Byte))
        BY <1>1, <1>6 DEF BytesOK
      <4>2. FlattenSeq(transit) \in Seq(Byte)
        BY <4>1, ComingIs DEF Inv
      <4>3. Coming' = socket' \o FlattenSeq(transit)
        BY <1>1 DEF Coming
      <4>4. QED
        BY <4>1, <4>2, <4>3, BytesJoined
    <3>2. QED
      BY <1>7, <2>2, <3>1, BytesJoined
  <2>4. QED
    BY <1>6, <1>7, <2>1, <2>3, SameParts
<1>9. msg_size' \in Nat /\ msg_size' <= FrameSize(f)
  <2>1. msg_size' = SizeIn(front)
    BY <1>1, <1>8
  <2>2. SizeIn(front) \in Nat
    BY <1>5, <1>7, SizeIsNat
  <2>3. SizeIn(front) <= FrameSize(f)
    BY <1>4, <1>5, SizeOfFront DEF front, D
  <2>4. QED
    BY <2>1, <2>2, <2>3
<1>10. ASSUME NotSplit
       PROVE  msg_size' = FrameSize(f) /\ Len(socket') >= msg_size' /\ Coming' = B \o H
  <2>1. Len(socket) >= Width + FrameSize(f)
    BY <1>1, <1>2, <1>4, <1>10 DEF Reading
  <2>2. n = Width
    BY <1>4, <1>5, <2>1 DEF n, Least
  <2>3. back = <<>>
    BY <1>7, <2>2
  <2>4. front = D
    BY <1>7, <2>3, NoneJoined
  <2>5. msg_size' = FrameSize(f)
    BY <1>1, <1>4, <1>8, <2>4, SizeRead DEF D
  <2>6. Len(socket') >= FrameSize(f)
    BY <1>4, <1>5, <1>6, <2>1, <2>2
  <2>7. B \o H \in Seq(Byte)
    BY <1>4, BytesJoined
  <2>8. Coming' = B \o H
    BY <1>8, <2>3, <2>7, NoneJoined
  <2>9. QED
    BY <2>5, <2>6, <2>8
<1>11. Reading(f)'
  <2>1. NotSplit' = NotSplit /\ Heartbeats(beats)' = H /\ Left(f)' = B /\ FrameSize(f)' = FrameSize(f)
    BY <1>1 DEF NotSplit, H, B, Left, Heartbeats
  <2>2. QED
    BY <1>1, <1>10, <2>1 DEF Reading
<1>12. TypeOK'
  <2>1. \A g \in reply' : msg_size' <= FrameSize(g)
    BY <1>1, <1>2, <1>9
  <2>2. l = 0 /\ low = 0 /\ high = 0 /\ -MaxMisses <= 0 /\ 0 <= 2 * msg_size'
    BY <1>1, <1>9, IdentifyAssumption DEF Inv, BufferOK
  <2>3. QED
    BY <1>1, <1>9, <2>1, <2>2 DEF Inv, TypeOK
<1>13. BufferOK'
  <2>1. l = 0 /\ low = 0 /\ high = 0 /\ 0 <= msg_size'
    BY <1>1, <1>9 DEF Inv, BufferOK
  <2>2. QED
    BY <1>1, <2>1 DEF BufferOK, NotSplit
<1>14. QED
  BY <1>1, <1>2, <1>6, <1>11, <1>12, <1>13 DEF Inv

(* read() of the rest: of a reply that is there it takes all of it at      *)
(* once, and the loop ends.                                                *)
LEMMA ReadBodyKeeps == Inv /\ ReadBody => Inv'
<1> SUFFICES ASSUME Inv, ReadBody PROVE Inv'
  OBVIOUS
<1> DEFINE n == Least(msg_size, Len(socket))
           r == IF n = 0 /\ msg_size > 0 /\ ~Eof THEN -1 ELSE n
<1>1. /\ UNCHANGED <<hazards, msg_size, reply, transit, open, beats>>
      /\ pc = "body" /\ Take(n)
      /\ l' = IF l + r < -MaxMisses THEN l ELSE l + r
      /\ low' = IF n > 0 /\ l < low THEN l ELSE low
      /\ high' = IF n > 0 /\ l + n > high THEN l + n ELSE high
      /\ pc' = IF l' < msg_size THEN "body" ELSE "done"
  BY DEF ReadBody
<1>2. PICK f : reply = {f} /\ Reading(f) /\ f \in Replies
  <2>1. reply # {}
    BY <1>1 DEF Inv, Silent
  <2>2. QED
    BY <2>1 DEF Inv, TypeOK
<1>3. /\ msg_size \in Nat /\ Len(socket) \in Nat /\ MaxMisses \in Nat
      /\ l \in Int /\ -MaxMisses <= l /\ l <= msg_size
      /\ low \in Int /\ high \in Nat /\ low <= 0
  BY <1>1, IdentifyAssumption DEF Inv, TypeOK, BytesOK, BufferOK
<1>4. n \in 0..Len(socket) /\ n \in 0..msg_size /\ r \in Int /\ -1 <= r /\ r <= msg_size
  BY <1>3 DEF Least
<1> HIDE DEF n, r
<1>5. /\ BytesOK' /\ Len(socket') = Len(socket) - n
      /\ Got(n) \in Seq(Byte) /\ Len(Got(n)) = n /\ Coming = Got(n) \o Coming'
  BY <1>1, <1>4, TakenFromFront DEF Inv
<1>6. /\ l' \in Int /\ -MaxMisses <= l' /\ l' <= 2 * msg_size
      /\ low' \in Int /\ high' \in Nat /\ low' <= 0
  <2>1. l' \in Int /\ -MaxMisses <= l' /\ l' <= 2 * msg_size
    BY <1>1, <1>3, <1>4
  <2>2. low' \in Int /\ low' <= 0
    BY <1>1, <1>3
  <2>3. high' \in Nat
    BY <1>1, <1>3, <1>4
  <2>4. QED
    BY <2>1, <2>2, <2>3
<1>7. pc' \in {"body", "done"} /\ (pc' = "body" => l' <= msg_size)
  BY <1>1, <1>3, <1>6
<1>8. ASSUME NotSplit
      PROVE  /\ pc' = "done" /\ low' = 0 /\ high' = msg_size
             /\ Coming' = Heartbeats(beats)
  <2>1. /\ msg_size = FrameSize(f) /\ Len(socket) >= msg_size
        /\ Coming = Body(f) \o Heartbeats(beats)
    BY <1>1, <1>2, <1>8 DEF Reading, Left
  <2>2. l = 0 /\ low = 0 /\ high = 0
    BY <1>1, <1>8 DEF Inv, BufferOK
  <2>3. /\ IsFrame(f) /\ Body(f) \in Seq(Byte) /\ Len(Body(f)) = FrameSize(f) /\ msg_size > 0
    <3>1. IsFrame(f)
      BY <1>2, RepliesAreFrames
    <3>2. /\ Body(f) \in Seq(Byte) /\ Len(Body(f)) = FrameSize(f)
          /\ Width \in Nat /\ Width > 0 /\ FrameSize(f) \in Nat /\ FrameSize(f) >= Width
      BY <3>1, FrameParts
    <3>3. QED
      BY <2>1, <3>1, <3>2
  <2>4. n = msg_size
    BY <1>3, <2>1 DEF n, Least
  <2>5. r = msg_size
    BY <2>3, <2>4 DEF r
  <2>6. l' = msg_size
    BY <1>1, <1>3, <2>2, <2>5
  <2>7. pc' = "done" /\ low' = 0 /\ high' = msg_size
    BY <1>1, <1>3, <2>2, <2>3, <2>4, <2>6
  <2>8. Heartbeats(beats) \in Seq(Byte)
    <3>1. beats \in Nat
      BY IdentifyAssumption DEF Inv, TypeOK
    <3>2. QED
      BY <3>1, HeartbeatsAre
  <2>9. Coming' \in Seq(Byte)
    <3>1. socket' \in Seq(Byte) /\ transit \in Seq(Seq(Byte))
      BY <1>1, <1>5 DEF BytesOK
    <3>2. FlattenSeq(transit) \in Seq(Byte)
      BY ComingIs DEF Inv
    <3>3. Coming' = socket' \o FlattenSeq(transit)
      BY <1>1 DEF Coming
    <3>4. QED
      BY <3>1, <3>2, <3>3, BytesJoined
  <2>10. Coming' = Heartbeats(beats)
    <3>1. Len(Got(n)) = Len(Body(f)) /\ Got(n) \o Coming' = Body(f) \o Heartbeats(beats)
      BY <1>5, <2>1, <2>3, <2>4
    <3>2. QED
      BY <1>5, <2>3, <2>8, <2>9, <3>1, SameParts, Zenon
  <2>11. QED
    BY <2>7, <2>10
<1>9. Reading(f)'
  <2>1. NotSplit' = NotSplit /\ Heartbeats(beats)' = Heartbeats(beats) /\ pc' # "size"
    BY <1>1, <1>7 DEF NotSplit, Heartbeats
  <2>2. ASSUME NotSplit PROVE Coming' = Left(f)' \o Heartbeats(beats)
    <3>1. Left(f)' = <<>> /\ Coming' = Heartbeats(beats)
      BY <1>8, <2>2 DEF Left
    <3>2. beats \in Nat
      BY IdentifyAssumption DEF Inv, TypeOK
    <3>3. Heartbeats(beats) \in Seq(Byte)
      BY <3>2, HeartbeatsAre
    <3>4. QED
      BY <3>1, <3>3, NoneJoined
  <2>3. NotSplit => pc' # "body"
    BY <1>8
  <2>4. QED
    BY <2>1, <2>2, <2>3 DEF Reading
<1>10. TypeOK' /\ BufferOK'
  <2>1. TypeOK'
    BY <1>1, <1>6, <1>7 DEF Inv, TypeOK
  <2>2. NotSplit' = NotSplit
    BY <1>1 DEF NotSplit
  <2>3. pc' # "size" /\ (NotSplit => pc' # "body")
    BY <1>7, <1>8
  <2>4. BufferOK'
    BY <1>1, <1>7, <1>8, <2>2, <2>3 DEF BufferOK
  <2>5. QED
    BY <2>1, <2>4
<1>11. QED
  BY <1>1, <1>2, <1>5, <1>9, <1>10 DEF Inv

LEMMA InvStep == Inv /\ [Next]_vars => Inv'
<1> SUFFICES ASSUME Inv, [Next]_vars PROVE Inv'
  OBVIOUS
<1>1. CASE ReadSize
  BY <1>1, ReadSizeKeeps
<1>2. CASE ReadBody
  BY <1>2, ReadBodyKeeps
<1>3. CASE Answers
  BY <1>3, AnswersKeeps
<1>4. CASE Beats
  BY <1>4, BeatsKeeps
<1>5. CASE Closes
  BY <1>5, ClosesKeeps
<1>6. CASE Arrive
  BY <1>6, ArriveKeeps
<1>7. CASE UNCHANGED vars
  <2>1. UNCHANGED <<hazards, pc, msg_size, l, low, high, reply, transit, socket, open, beats>>
    BY <1>7 DEF vars, reader, network
  <2>2. QED
    BY <2>1 DEF Inv, TypeOK, BytesOK, BufferOK, Silent, Reading, NotSplit, Coming, Left
<1>8. QED
  BY <1>1, <1>2, <1>3, <1>4, <1>5, <1>6, <1>7 DEF Next, send_identify

-----------------------------------------------------------------------------
(* The theorems. *)

LEMMA InvAlways == Spec => []Inv
  BY InvInit, InvStep, PTL DEF Spec

(* send_identify() (common.c:57-73) never reads a size larger than the     *)
(* reply has, and l never gets past twice that size, whatever is split.    *)
THEOREM TypeCorrect == Spec => []TypeOK
<1>1. Inv => TypeOK
  BY DEF Inv
<1>2. QED
  BY <1>1, InvAlways, PTL

(* When the reply comes in one piece, send_identify() (common.c:57-73)     *)
(* takes the whole of it, and leaves the connection at the beginning of    *)
(* the frame behind it.                                                    *)
THEOREM TakesWholeReply == Spec => []TakesTheReply
<1>1. Inv => TakesTheReply
  <2> SUFFICES ASSUME Inv, NotSplit, pc = "done" PROVE Unread = Heartbeats(beats)
    BY DEF TakesTheReply, Heartbeats
  <2>1. reply # {}
    BY DEF Inv, Silent
  <2>2. PICK f : f \in reply /\ Reading(f)
    BY <2>1 DEF Inv
  <2>3. Coming = <<>> \o Heartbeats(beats)
    BY <2>2 DEF Reading, Left
  <2>4. Heartbeats(beats) \in Seq(Byte)
    <3>1. beats \in Nat
      BY IdentifyAssumption DEF Inv, TypeOK
    <3>2. QED
      BY <3>1, HeartbeatsAre
  <2>5. Unread = Coming
    BY ComingIs DEF Inv
  <2>6. QED
    BY <2>3, <2>4, <2>5, NoneJoined
<1>2. QED
  BY <1>1, InvAlways, PTL

(* When the reply comes in one piece, read() (common.c:66-70) writes no    *)
(* byte outside the msg_size + 1 bytes of message.                         *)
THEOREM StaysInBuffer == Spec => []WritesInside
<1>1. Inv => WritesInside
  <2> SUFFICES ASSUME Inv, NotSplit PROVE low >= 0 /\ high <= msg_size + 1
    BY DEF WritesInside
  <2>1. msg_size \in Nat /\ pc \in {"size", "body", "done"}
    BY DEF Inv, TypeOK
  <2>2. low = 0 /\ (high = 0 \/ high = msg_size)
    BY <2>1 DEF Inv, BufferOK
  <2>3. QED
    BY <2>1, <2>2
<1>2. QED
  BY <1>1, InvAlways, PTL
=============================================================================
