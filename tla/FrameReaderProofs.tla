-------------------------- MODULE FrameReaderProofs --------------------------
(***************************************************************************)
(* readcb() cuts any stream of frames as nsqd meant them, in whatever      *)
(* pieces it arrives, as long as headers are whole and error frames arrive *)
(* alone; and whatever arrives, it leaves its static variables consistent: *)
(* for every width and base of a size, every set of frames, and any number *)
(* of them and of connections.                                             *)
(***************************************************************************)
EXTENDS FrameReader, WireProofs

-----------------------------------------------------------------------------
(* The stream of one connection, frame by frame. *)

FramesOK == frames \in Seq(Frames)

LEMMA FrameIs ==
    ASSUME NEW f \in Frames
    PROVE  /\ f.type \in 0..2 /\ f.data \in Seq(Byte) /\ FrameSize(f) \in Nat /\ FrameSize(f) >= Width
           /\ Fits(f.type) /\ Fits(FrameSize(f))
           /\ Encode(f) \in Seq(Byte) /\ Len(Encode(f)) = Width + FrameSize(f)
           /\ \A i \in 1..Width : Encode(f)[i] = Digits(FrameSize(f))[i]
           /\ \A i \in 1..Width : Encode(f)[Width + i] = Digits(f.type)[i]
           /\ \A i \in 1..Len(f.data) : Encode(f)[Width + Width + i] = f.data[i]
  BY EncodingIs, FrameReaderAssumption

LEMMA SentIs ==
    ASSUME FramesOK
    PROVE  /\ Sent(0) = <<>>
           /\ \A i \in 0..Len(frames) : Sent(i) \in Seq(Byte)
           /\ \A i \in 1..Len(frames) : Sent(i) = Sent(i - 1) \o Encode(frames[i])
<1>1. ASSUME NEW i \in 0..Len(frames)
      PROVE  /\ Sent(i) \in Seq(Byte)
             /\ i = 0 => Sent(i) = <<>>
             /\ i # 0 => Sent(i) = Sent(i - 1) \o Encode(frames[i])
  <2> DEFINE s == [j \in 1..i |-> Encode(frames[j])]
  <2>1. i \in Nat /\ \A j \in 1..i : frames[j] \in Frames
    BY DEF FramesOK
  <2>2. s \in [1..i -> Seq(Byte)]
    BY <2>1, FrameIs
  <2>3. i # 0 => [j \in 1..(i - 1) |-> s[j]] = [j \in 1..(i - 1) |-> Encode(frames[j])]
    BY <2>1
  <2>4. i # 0 => s[i] = Encode(frames[i])
    BY <2>1
  <2>5. Sent(i) = FlattenSeq(s)
    BY DEF Sent
  <2>6. i # 0 => Sent(i - 1) = FlattenSeq([j \in 1..(i - 1) |-> s[j]])
    BY <2>3 DEF Sent
  <2> HIDE DEF s
  <2>7. /\ FlattenSeq(s) \in Seq(Byte)
        /\ i = 0 => FlattenSeq(s) = <<>>
        /\ i # 0 => FlattenSeq(s) = FlattenSeq([j \in 1..(i - 1) |-> s[j]]) \o s[i]
    BY <2>1, <2>2, FlattenLast
  <2>8. QED
    BY <2>4, <2>5, <2>6, <2>7
<1>2. Len(frames) \in Nat
  BY DEF FramesOK
<1>3. 0 \in 0..Len(frames) /\ \A i \in 1..Len(frames) : i \in 0..Len(frames) /\ i # 0
  BY <1>2
<1>4. QED
  BY <1>1, <1>3

LEMMA EndIs ==
    ASSUME FramesOK
    PROVE  /\ Len(frames) \in Nat /\ End(0) = 0 /\ Len(Stream) = End(Len(frames))
           /\ \A i \in 0..Len(frames) : End(i) \in Nat
           /\ \A i \in 1..Len(frames) : /\ frames[i] \in Frames
                                        /\ End(i) = End(i - 1) + Width + FrameSize(frames[i])
<1>1. Len(frames) \in Nat /\ \A i \in 1..Len(frames) : frames[i] \in Frames
  BY DEF FramesOK
<1>2. \A i \in 0..Len(frames) : End(i) \in Nat
  BY SentIs DEF End
<1>3. End(0) = 0 /\ Len(Stream) = End(Len(frames))
  BY SentIs DEF End, Stream
<1>4. ASSUME NEW i \in 1..Len(frames) PROVE End(i) = End(i - 1) + Width + FrameSize(frames[i])
  <2>1. i - 1 \in 0..Len(frames) /\ Sent(i) = Sent(i - 1) \o Encode(frames[i])
    BY <1>1, SentIs
  <2>2. Sent(i - 1) \in Seq(Byte)
    BY <2>1, SentIs
  <2>3. Encode(frames[i]) \in Seq(Byte) /\ Len(Encode(frames[i])) = Width + FrameSize(frames[i])
        /\ FrameSize(frames[i]) \in Nat
    BY <1>1, FrameIs
  <2>4. Len(Sent(i)) = Len(Sent(i - 1)) + Len(Encode(frames[i])) /\ Len(Sent(i - 1)) \in Nat
    <3>1. Len(Sent(i - 1) \o Encode(frames[i])) = Len(Sent(i - 1)) + Len(Encode(frames[i]))
      BY <2>2, <2>3, BytesJoined, Zenon
    <3>2. QED
      BY <2>1, <2>2, <3>1
  <2>5. QED
    BY <2>3, <2>4, WireAssumption DEF End
<1>5. QED
  BY <1>1, <1>2, <1>3, <1>4

(* A frame has at least the bytes of its size and of its type.             *)
LEMMA EndNext ==
    ASSUME FramesOK, NEW i \in 1..Len(frames)
    PROVE  End(i) - End(i - 1) >= Width + Width /\ End(i) > End(i - 1) /\ End(i) \in Nat /\ End(i - 1) \in Nat
<1>1. FrameSize(frames[i]) \in Nat /\ FrameSize(frames[i]) >= Width
  BY EndIs, FrameIs
<1>2. End(i) = End(i - 1) + Width + FrameSize(frames[i])
  BY EndIs
<1>3. End(i - 1) \in Nat /\ End(i) \in Nat
  <2>1. i - 1 \in 0..Len(frames) /\ i \in 0..Len(frames)
    BY EndIs
  <2>2. QED
    BY <2>1, EndIs
<1>4. Width \in Nat /\ Width > 0
  BY WireAssumption
<1>5. QED
  BY <1>1, <1>2, <1>3, <1>4

LEMMA EndGrows ==
    ASSUME FramesOK, NEW i \in 0..Len(frames), NEW j \in 0..Len(frames), i <= j
    PROVE  End(i) <= End(j) /\ (i < j => End(i) < End(j))
<1> DEFINE T == {k \in 0..Len(frames) : \A m \in 0..Len(frames) : m <= k => End(m) <= End(k)}
<1>1. Len(frames) \in Nat /\ \A k \in 0..Len(frames) : End(k) \in Nat
  BY EndIs
<1>2. 0 \in T
  BY <1>1
<1>3. ASSUME NEW k \in 1..Len(frames), k - 1 \in T PROVE k \in T
  <2>1. End(k) > End(k - 1)
    BY EndNext
  <2>2. ASSUME NEW m \in 0..Len(frames), m <= k PROVE End(m) <= End(k)
    <3>1. CASE m = k
      BY <1>1, <3>1
    <3>2. CASE m <= k - 1
      <4>1. End(m) <= End(k - 1)
        BY <1>3, <3>2
      <4>2. End(m) \in Nat /\ End(k) \in Nat /\ End(k - 1) \in Nat
        BY <1>1, <1>3
      <4>3. QED
        BY <2>1, <4>1, <4>2
    <3>3. QED
      BY <1>1, <2>2, <3>1, <3>2
  <2>3. QED
    BY <2>2
<1>4. \A k \in 0..Len(frames) : k \in T
  <2> HIDE DEF T
  <2>1. QED
    BY <1>1, <1>2, <1>3, AllIndices
<1>5. End(i) <= End(j)
  BY <1>4
<1>6. ASSUME i < j PROVE End(i) < End(j)
  <2>1. i + 1 \in 1..Len(frames) /\ i + 1 <= j /\ i + 1 \in 0..Len(frames) /\ (i + 1) - 1 = i
    BY <1>1, <1>6
  <2>2. End(i) < End(i + 1) /\ End(i + 1) <= End(j)
    BY <1>4, <2>1, EndNext
  <2>3. QED
    BY <1>1, <2>1, <2>2
<1>7. QED
  BY <1>5, <1>6

(* Where the bytes of each frame are. *)
LEMMA StreamHas ==
    ASSUME FramesOK, NEW i \in 1..Len(frames), NEW p \in 1..(Width + FrameSize(frames[i]))
    PROVE  Stream[End(i - 1) + p] = Encode(frames[i])[p]
<1>1. Len(frames) \in Nat /\ frames[i] \in Frames /\ End(i - 1) \in Nat /\ End(i) \in Nat
      /\ End(i) = End(i - 1) + Width + FrameSize(frames[i])
  BY EndIs, EndNext
<1>2. Encode(frames[i]) \in Seq(Byte) /\ Len(Encode(frames[i])) = Width + FrameSize(frames[i])
      /\ FrameSize(frames[i]) \in Nat /\ Width \in Nat
  BY <1>1, FrameIs, WireAssumption
<1> DEFINE q == End(i - 1) + p
           T == {k \in 0..Len(frames) : k >= i => Sent(k)[q] = Encode(frames[i])[p]}
<1>3. q \in 1..End(i) /\ p \in Nat /\ q > End(i - 1) /\ q - End(i - 1) = p
  BY <1>1, <1>2
<1>4. 0 \in T
  BY <1>1
<1>5. ASSUME NEW k \in 1..Len(frames), k - 1 \in T PROVE k \in T
  <2>1. Sent(k) = Sent(k - 1) \o Encode(frames[k]) /\ k - 1 \in 0..Len(frames) /\ k \in 0..Len(frames)
    <3>1. Sent(k) = Sent(k - 1) \o Encode(frames[k])
      BY SentIs, Zenon
    <3>2. QED
      BY <1>1, <3>1
  <2>2. Sent(k - 1) \in Seq(Byte) /\ Len(Sent(k - 1)) = End(k - 1) /\ Encode(frames[k]) \in Seq(Byte)
    BY <2>1, SentIs, EndIs, FrameIs DEF End
  <2>3. CASE k = i
    <3>1. \A x \in 1..Len(Encode(frames[k])) :
             (Sent(k - 1) \o Encode(frames[k]))[Len(Sent(k - 1)) + x] = Encode(frames[k])[x]
      BY <2>2, BytesJoined, Zenon
    <3>2. p \in 1..Len(Encode(frames[k])) /\ Len(Sent(k - 1)) + p = q
      BY <1>1, <1>2, <2>2, <2>3
    <3>3. QED
      BY <2>1, <2>3, <3>1, <3>2
  <2>4. CASE k > i
    <3>1. End(i) <= End(k - 1)
      <4>1. i <= k - 1 /\ i \in 0..Len(frames)
        BY <1>1, <2>4
      <4>2. QED
        BY <2>1, <4>1, EndGrows
    <3>2. q \in 1..Len(Sent(k - 1))
      BY <1>1, <1>3, <2>2, <3>1
    <3>3. (Sent(k - 1) \o Encode(frames[k]))[q] = Sent(k - 1)[q]
      BY <2>2, <3>2, BytesJoined, Zenon
    <3>4. Sent(k - 1)[q] = Encode(frames[i])[p]
      BY <1>5, <2>4
    <3>5. QED
      BY <2>1, <3>3, <3>4
  <2>5. CASE k < i
    BY <2>1, <2>5
  <2>6. QED
    BY <1>1, <2>3, <2>4, <2>5
<1>6. \A k \in 0..Len(frames) : k \in T
  <2> HIDE DEF T
  <2>1. QED
    BY <1>1, <1>4, <1>5, AllIndices
<1>7. Len(frames) \in 0..Len(frames) /\ Len(frames) >= i
  BY <1>1
<1>8. QED
  BY <1>6, <1>7 DEF Stream

-----------------------------------------------------------------------------
(* What the stream asks for. *)

Effect == {Nop} \cup {Enqueue(data) : data \in Seq(Byte)}

LEMMA OwedIs ==
    ASSUME NEW f \in Frames
    PROVE  Owed(f) \in Seq(Effect)
<1>1. f.data \in Seq(Byte)
  BY FrameIs
<1>2. Nop \in Effect /\ Enqueue(f.data) \in Effect
  BY <1>1 DEF Effect
<1>3. <<Nop>> \in Seq(Effect) /\ <<Enqueue(f.data)>> \in Seq(Effect) /\ <<>> \in Seq(Effect)
  BY <1>2
<1>4. QED
  BY <1>3 DEF Owed

LEMMA OwedForIs ==
    ASSUME FramesOK
    PROVE  /\ OwedFor(0) = <<>>
           /\ \A i \in 0..Len(frames) : OwedFor(i) \in Seq(Effect)
           /\ \A i \in 1..Len(frames) : OwedFor(i) = OwedFor(i - 1) \o Owed(frames[i])
<1>1. ASSUME NEW i \in 0..Len(frames)
      PROVE  /\ OwedFor(i) \in Seq(Effect)
             /\ i = 0 => OwedFor(i) = <<>>
             /\ i # 0 => OwedFor(i) = OwedFor(i - 1) \o Owed(frames[i])
  <2> DEFINE s == [j \in 1..i |-> Owed(frames[j])]
  <2>1. i \in Nat /\ \A j \in 1..i : frames[j] \in Frames
    BY DEF FramesOK
  <2>2. s \in [1..i -> Seq(Effect)]
    BY <2>1, OwedIs
  <2>3. i # 0 => [j \in 1..(i - 1) |-> s[j]] = [j \in 1..(i - 1) |-> Owed(frames[j])]
    BY <2>1
  <2>4. i # 0 => s[i] = Owed(frames[i])
    BY <2>1
  <2>5. OwedFor(i) = FlattenSeq(s)
    BY DEF OwedFor
  <2>6. i # 0 => OwedFor(i - 1) = FlattenSeq([j \in 1..(i - 1) |-> s[j]])
    BY <2>3 DEF OwedFor
  <2> HIDE DEF s
  <2>7. /\ FlattenSeq(s) \in Seq(Effect)
        /\ i = 0 => FlattenSeq(s) = <<>>
        /\ i # 0 => FlattenSeq(s) = FlattenSeq([j \in 1..(i - 1) |-> s[j]]) \o s[i]
    BY <2>1, <2>2, FlattenLast
  <2>8. QED
    BY <2>4, <2>5, <2>6, <2>7
<1>2. Len(frames) \in Nat
  BY DEF FramesOK
<1>3. 0 \in 0..Len(frames) /\ \A i \in 1..Len(frames) : i \in 0..Len(frames) /\ i # 0
  BY <1>2
<1>4. QED
  BY <1>1, <1>3

LEMMA PrefixGrows ==
    ASSUME NEW A, NEW s \in Seq(A), NEW t \in Seq(A), NEW u \in Seq(A), IsPrefix(s, t)
    PROVE  IsPrefix(s, t \o u)
<1>1. Len(s) <= Len(t) /\ SubSeq(s, 1, Len(s)) = SubSeq(t, 1, Len(s)) /\ Len(s) \in Nat /\ Len(t) \in Nat
  BY DEF IsPrefix
<1>2. Len(s) <= Len(t \o u)
  BY <1>1
<1>3. SubSeq(t \o u, 1, Len(s)) = SubSeq(t, 1, Len(s))
  BY <1>1
<1>4. QED
  BY <1>1, <1>2, <1>3 DEF IsPrefix

LEMMA OwedPrefix ==
    ASSUME FramesOK, NEW i \in 0..Len(frames), NEW j \in 0..Len(frames), i <= j
    PROVE  IsPrefix(OwedFor(i), OwedFor(j))
<1> DEFINE T == {k \in 0..Len(frames) : i <= k => IsPrefix(OwedFor(i), OwedFor(k))}
<1>1. Len(frames) \in Nat /\ \A k \in 0..Len(frames) : OwedFor(k) \in Seq(Effect)
  BY OwedForIs DEF FramesOK
<1>2. IsPrefix(OwedFor(i), OwedFor(i))
  <2>1. OwedFor(i) \in Seq(Effect)
    BY <1>1
  <2>2. QED
    BY <2>1 DEF IsPrefix
<1>3. 0 \in T
  BY <1>1, <1>2
<1>4. ASSUME NEW k \in 1..Len(frames), k - 1 \in T PROVE k \in T
  <2>1. k - 1 \in 0..Len(frames) /\ k \in 0..Len(frames)
    BY <1>1
  <2>2. CASE i <= k - 1
    <3>1. IsPrefix(OwedFor(i), OwedFor(k - 1))
      BY <1>4, <2>2
    <3>2. OwedFor(k) = OwedFor(k - 1) \o Owed(frames[k]) /\ Owed(frames[k]) \in Seq(Effect)
      BY OwedForIs, OwedIs, EndIs
    <3>3. OwedFor(i) \in Seq(Effect) /\ OwedFor(k - 1) \in Seq(Effect)
      BY <1>1, <2>1
    <3>4. IsPrefix(OwedFor(i), OwedFor(k - 1) \o Owed(frames[k]))
      BY <3>1, <3>2, <3>3, PrefixGrows
    <3>5. QED
      BY <2>1, <3>2, <3>4
  <2>3. CASE i = k
    BY <1>2, <2>1, <2>3
  <2>4. CASE i > k
    BY <1>1, <2>1, <2>4
  <2>5. QED
    BY <1>1, <2>2, <2>3, <2>4
<1>5. \A k \in 0..Len(frames) : k \in T
  <2> HIDE DEF T
  <2>1. QED
    BY <1>1, <1>3, <1>4, AllIndices
<1>6. QED
  BY <1>5

(* The frames that have arrived are the first ones. *)
LEMMA ArrivedAre ==
    ASSUME FramesOK, arrived \in Nat,
           NEW k \in 0..Len(frames), End(k) <= arrived, k < Len(frames) => arrived < End(k + 1)
    PROVE  OwedEffects = OwedFor(k)
<1>1. Len(frames) \in Nat /\ \A i \in 0..Len(frames) : End(i) \in Nat
  BY EndIs
<1>2. ASSUME NEW i \in 1..Len(frames) PROVE End(i) <= arrived <=> i <= k
  <2>1. i \in 0..Len(frames)
    BY <1>1
  <2>2. CASE i <= k
    <3>1. End(i) <= End(k)
      BY <2>1, <2>2, EndGrows
    <3>2. QED
      BY <1>1, <2>1, <2>2, <3>1
  <2>3. CASE i > k
    <3>1. k + 1 \in 0..Len(frames) /\ k < Len(frames) /\ k + 1 <= i
      BY <1>1, <2>3
    <3>2. End(k + 1) <= End(i)
      BY <2>1, <3>1, EndGrows
    <3>3. End(i) \in Nat /\ End(k + 1) \in Nat /\ arrived < End(k + 1)
      BY <1>1, <2>1, <3>1
    <3>4. ~(End(i) <= arrived) /\ ~(i <= k)
      BY <2>3, <3>2, <3>3
    <3>5. QED
      BY <3>4
  <2>4. QED
    BY <1>1, <2>2, <2>3
<1>3. ArrivedFrames = 1..k
  <2>1. \A i \in 1..k : i \in 1..Len(frames) /\ i <= k
    BY <1>1
  <2>2. QED
    BY <1>1, <1>2, <2>1 DEF ArrivedFrames
<1>4. Cardinality(1..k) = k
  <2>1. k \in Int /\ 1 \in Int /\ (IF 1 > k THEN 0 ELSE k - 1 + 1) = k
    BY <1>1
  <2>2. QED
    BY <2>1, FS_Interval
<1>5. QED
  BY <1>3, <1>4 DEF OwedEffects

(* Of the frames some have arrived in full, and the one after them has not. *)
LEMMA LastArrived ==
    ASSUME FramesOK, arrived \in Nat
    PROVE  \E k \in 0..Len(frames) : End(k) <= arrived /\ (k < Len(frames) => arrived < End(k + 1))
<1>1. Len(frames) \in Nat /\ End(0) = 0 /\ \A i \in 0..Len(frames) : End(i) \in Nat
  BY EndIs
<1> DEFINE Later == {i \in 1..Len(frames) : arrived < End(i)}
<1>2. CASE Later = {}
  <2>1. Len(frames) \in 0..Len(frames)
    BY <1>1
  <2>2. End(Len(frames)) <= arrived
    <3>1. CASE Len(frames) = 0
      BY <1>1, <3>1
    <3>2. CASE Len(frames) # 0
      BY <1>1, <1>2, <2>1, <3>2
    <3>3. QED
      BY <3>1, <3>2
  <2>3. QED
    BY <1>1, <2>1, <2>2
<1>3. CASE Later # {}
  <2>1. PICK i \in Later : \A j \in Later : i <= j
    <3>1. Later \subseteq Nat
      BY <1>1
    <3> HIDE DEF Later
    <3>2. QED
      BY <1>3, <3>1, LeastExists
  <2>2. i - 1 \in 0..Len(frames) /\ (i - 1) + 1 = i /\ arrived < End(i)
    BY <1>1, <2>1
  <2>3. End(i - 1) <= arrived
    <3>1. CASE i = 1
      BY <1>1, <3>1
    <3>2. CASE i # 1
      <4>1. i - 1 \notin Later /\ i - 1 \in 1..Len(frames)
        BY <1>1, <2>1, <3>2
      <4>2. ~(arrived < End(i - 1)) /\ End(i - 1) \in Nat
        BY <1>1, <2>2, <4>1
      <4>3. QED
        BY <4>2
    <3>3. QED
      BY <3>1, <3>2
  <2>4. QED
    BY <2>2, <2>3
<1>4. QED
  BY <1>2, <1>3

-----------------------------------------------------------------------------
(* Types, and the reader between two calls, whatever arrives. *)

Room == ~is_first => Len(message) = size

Inv == FramesOK /\ TypeOK /\ Room /\ ReaderParked

LEMMA BoundedAreFrames == BoundedSeq(Frames, MaxFrames) \subseteq Seq(Frames)
<1>1. ASSUME NEW m \in 0..MaxFrames, NEW s \in [1..m -> Frames] PROVE s \in Seq(Frames)
  BY FrameReaderAssumption
<1>2. QED
  BY <1>1 DEF BoundedSeq, SeqOf

LEMMA StreamIsSeq == FramesOK => Stream \in Seq(Byte) /\ Len(Stream) \in Nat /\ 0 <= Len(Stream)
<1> SUFFICES ASSUME FramesOK PROVE Stream \in Seq(Byte) /\ Len(Stream) \in Nat /\ 0 <= Len(Stream)
  OBVIOUS
<1>1. Len(frames) \in 0..Len(frames)
  BY EndIs
<1>2. Stream \in Seq(Byte)
  BY <1>1, SentIs DEF Stream
<1>3. QED
  BY <1>2

LEMMA StreamLen == FramesOK' => Stream' \in Seq(Byte) /\ Len(Stream') \in Nat /\ 0 <= Len(Stream')
<1>1. FramesOK => (Stream \in Seq(Byte) /\ Len(Stream) \in Nat /\ 0 <= Len(Stream))
  BY StreamIsSeq
<1>2. (FramesOK => (Stream \in Seq(Byte) /\ Len(Stream) \in Nat /\ 0 <= Len(Stream)))'
  BY <1>1, PTL
<1>3. QED
  BY <1>2

Got == IF is_first THEN Least(Width, Len(input)) ELSE 0
Size == IF is_first THEN SizeIn(SubSeq(input, 1, Got)) ELSE size
Rest == SubSeq(input, Got + 1, Len(input))
Count == IF l <= Size THEN Least(Size - l, Len(Rest)) ELSE Len(Rest)
Old == IF is_first THEN Zeros(Size) ELSE message

LEMMA FillIs ==
    /\ Fill.size = Size /\ Fill.l = l + Count
    /\ Fill.input = SubSeq(Rest, Count + 1, Len(Rest))
    /\ Fill.message = [i \in 1..Size |-> IF i \in (l + 1)..(l + Count) THEN Rest[i - l] ELSE Old[i]]
    /\ Fill.overrun = (l > Size /\ Count > 0)
  BY DEF Fill, Got, Size, Rest, Count, Old

LEMMA FillTypes ==
    ASSUME TypeOK, Room
    PROVE  /\ Got \in 0..Len(input) /\ Size \in Nat /\ Len(input) \in Nat
           /\ Rest \in Seq(Byte) /\ Len(Rest) = Len(input) - Got
           /\ \A i \in 1..Len(Rest) : Rest[i] = input[Got + i]
           /\ Count \in 0..Len(Rest)
           /\ Fill.size \in Nat /\ Fill.l \in Nat /\ Fill.l >= l /\ Fill.input \in Seq(Byte)
           /\ Fill.message \in Seq(Byte) /\ Len(Fill.message) = Fill.size
<1>1. input \in Seq(Byte) /\ Len(input) \in Nat /\ Width \in Nat /\ l \in Nat /\ size \in Nat /\ is_first \in BOOLEAN
  BY WireAssumption DEF TypeOK
<1>2. Got \in 0..Len(input) /\ Got <= Width
  BY <1>1 DEF Got, Least
<1>3. Size \in Nat
  <2>1. CASE is_first
    <3>1. 1 \in 1..(Len(input) + 1)
      BY <1>1
    <3>2. SubSeq(input, 1, Got) \in Seq(Byte) /\ Len(SubSeq(input, 1, Got)) <= Width
      BY <1>1, <1>2, <3>1, Piece
    <3>3. QED
      BY <2>1, <3>2, SizeIsNat DEF Size
  <2>2. CASE ~is_first
    BY <1>1, <2>2 DEF Size
  <2>3. QED
    BY <2>1, <2>2
<1>4. /\ Rest \in Seq(Byte) /\ Len(Rest) = Len(input) - Got
      /\ \A i \in 1..Len(Rest) : Rest[i] = input[Got + i]
  <2>1. Got + 1 \in 1..(Len(input) + 1) /\ Len(input) \in 0..Len(input)
    BY <1>1, <1>2
  <2>2. /\ Rest \in Seq(Byte)
        /\ Len(Rest) = IF Got + 1 <= Len(input) THEN Len(input) - (Got + 1) + 1 ELSE 0
        /\ \A i \in 1..Len(Rest) : Rest[i] = input[Got + 1 + i - 1]
    BY <1>1, <2>1, Piece DEF Rest
  <2>3. Len(Rest) = Len(input) - Got
    BY <1>1, <1>2, <2>2
  <2>4. \A i \in 1..Len(Rest) : Got + 1 + i - 1 = Got + i
    BY <1>1, <1>2
  <2>5. QED
    BY <2>2, <2>3, <2>4
<1>5. Count \in 0..Len(Rest) /\ Len(Rest) \in Nat
  <2>1. Len(Rest) \in Nat
    BY <1>4
  <2>2. QED
    BY <1>1, <1>3, <2>1 DEF Count, Least
<1>6. Fill.size \in Nat /\ Fill.l \in Nat /\ Fill.l >= l
  BY <1>1, <1>3, <1>5, FillIs
<1>7. Fill.input \in Seq(Byte)
  <2>1. Count + 1 \in 1..(Len(Rest) + 1) /\ Len(Rest) \in 0..Len(Rest)
    BY <1>5
  <2>2. QED
    BY <1>4, <2>1, Piece, FillIs
<1>8. ASSUME NEW i \in 1..Size
      PROVE  (IF i \in (l + 1)..(l + Count) THEN Rest[i - l] ELSE Old[i]) \in Byte
  <2>1. CASE i \in (l + 1)..(l + Count)
    <3>1. i - l \in 1..Len(Rest)
      BY <1>1, <1>5, <2>1
    <3>2. QED
      BY <1>4, <2>1, <3>1
  <2>2. CASE i \notin (l + 1)..(l + Count)
    <3>1. Old[i] \in Byte
      <4>1. CASE is_first
        <5>1. Old = Zeros(Size) /\ Zeros(Size)[i] = 0
          BY <1>3, <4>1, ZerosAre DEF Old
        <5>2. 0 \in Byte
          BY WireAssumption DEF Byte
        <5>3. QED
          BY <5>1, <5>2
      <4>2. CASE ~is_first
        BY <1>1, <4>2 DEF Old, Size, TypeOK, Room
      <4>3. QED
        BY <4>1, <4>2
    <3>2. QED
      BY <2>2, <3>1
  <2>3. QED
    BY <2>1, <2>2
<1>9. Fill.message \in [1..Size -> Byte]
  BY <1>8, FillIs
<1>10. Fill.message \in Seq(Byte) /\ Len(Fill.message) = Fill.size
  BY <1>3, <1>9, FillIs
<1>11. QED
  BY <1>1, <1>2, <1>3, <1>4, <1>5, <1>6, <1>7, <1>10

(* The parts of the state a step of readcb leaves alone, or keeps typed.   *)
LEMMA InvByParts ==
    ASSUME Inv, UNCHANGED <<frames, arrived, connections>>,
           is_first' \in BOOLEAN, l' \in Nat, size' \in 0..MemoryLimit,
           input' \in Seq(Byte), message' \in Seq(Byte), pc' \in {"dispatch", "readcb", "exited"},
           ~is_first' => Len(message') = size',
           pc' = "dispatch" => IF is_first' THEN l' = 0 /\ size' = 0 ELSE l' < size'
    PROVE  Inv'
<1>1. FramesOK' /\ Stream' = Stream
  BY DEF Inv, FramesOK, Stream, Sent
<1>2. message' \in [1..Len(message') -> Byte]
  OBVIOUS
<1>3. TypeOK'
  BY <1>1, <1>2 DEF Inv, TypeOK
<1>4. QED
  BY <1>1, <1>3 DEF Inv, Room, ReaderParked

LEMMA ReadcbKeeps == Inv /\ readcb => Inv'
<1> SUFFICES ASSUME Inv, readcb PROVE Inv'
  OBVIOUS
<1>1. /\ Fill.size \in Nat /\ Fill.l \in Nat /\ Fill.input \in Seq(Byte)
      /\ Fill.message \in Seq(Byte) /\ Len(Fill.message) = Fill.size
  BY FillTypes DEF Inv
<1>2. <<>> \in Seq(Byte) /\ 0 \in 0..MemoryLimit /\ MemoryLimit \in Nat
  BY WireAssumption
<1>3. Inv => is_first \in BOOLEAN /\ pc \in {"dispatch", "readcb", "exited"} /\ Room
  BY DEF Inv, TypeOK
<1>4. ASSUME Fill.size <= MemoryLimit PROVE Fill.size \in 0..MemoryLimit
  BY <1>1, <1>2, <1>4
<1>5. CASE ReadcbPartial
  <2>1. /\ Fill.size <= MemoryLimit /\ Fill.l < Fill.size
        /\ is_first' = FALSE /\ l' = Fill.l /\ size' = Fill.size /\ message' = Fill.message
        /\ input' = Fill.input /\ pc' = "dispatch" /\ UNCHANGED <<frames, arrived, connections>>
    BY <1>5 DEF ReadcbPartial, ReadcbFrame
  <2>2. QED
    BY <1>1, <1>4, <2>1, InvByParts
<1>6. ASSUME NextFrame, input' = Fill.input, pc' \in {"dispatch", "readcb", "exited"},
             UNCHANGED <<frames, arrived, connections>>
      PROVE  Inv'
  BY <1>1, <1>2, <1>6, InvByParts DEF NextFrame
<1>7. CASE ReadcbResponse
  BY <1>6, <1>7 DEF ReadcbResponse, ReadcbFrame
<1>8. CASE ReadcbMessage
  BY <1>6, <1>8 DEF ReadcbMessage, ReadcbFrame
<1>9. CASE ReadcbOverrun
  BY <1>6, <1>9 DEF ReadcbOverrun, ReadcbFrame
<1>10. CASE ReadcbOther
  <2>1. /\ Fill.size <= MemoryLimit /\ pc = "readcb" /\ pc' = pc
        /\ is_first' = is_first /\ l' = Fill.l /\ size' = Fill.size /\ message' = Fill.message
        /\ input' = Fill.input /\ UNCHANGED <<frames, arrived, connections>>
    BY <1>10 DEF ReadcbOther, ReadcbFrame
  <2>2. QED
    BY <1>1, <1>3, <1>4, <2>1, InvByParts
<1>11. CASE ReadcbAllocFails
  <2>1. pc' = "exited" /\ UNCHANGED <<frames, arrived, connections, input, is_first, l, size, message>>
    BY <1>11 DEF ReadcbAllocFails, reader
  <2>2. Stream' = Stream
    BY <2>1 DEF Stream, Sent
  <2>3. QED
    BY <2>1, <2>2 DEF Inv, FramesOK, TypeOK, Room, ReaderParked
<1>12. QED
  BY <1>5, <1>7, <1>8, <1>9, <1>10, <1>11 DEF readcb

LEMMA NetworkKeeps == Inv /\ (Arrive \/ Reconnect \/ Respawn) => Inv'
<1> SUFFICES ASSUME Inv, Arrive \/ Reconnect \/ Respawn PROVE Inv'
  OBVIOUS
<1>1. Stream \in Seq(Byte) /\ Len(Stream) \in Nat
  BY StreamIsSeq DEF Inv
<1>2. FramesOK' => 0 <= Len(Stream') /\ Len(Stream') \in Nat
  BY StreamLen
<1>3. CASE Arrive
  <2>1. PICK q \in (arrived + 1)..Len(Stream) :
            input' = input \o SubSeq(Stream, arrived + 1, q) /\ arrived' = q
    BY <1>3 DEF Arrive
  <2>2. pc' = "readcb" /\ UNCHANGED <<frames, connections, is_first, l, size, message>>
    BY <1>3 DEF Arrive, reader
  <2>3. arrived \in Nat /\ arrived <= Len(Stream) /\ input \in Seq(Byte)
    BY <1>1 DEF Inv, TypeOK
  <2>4. SubSeq(Stream, arrived + 1, q) \in Seq(Byte)
    <3>1. arrived + 1 \in 1..(Len(Stream) + 1) /\ q \in 0..Len(Stream)
      BY <1>1, <2>3
    <3>2. QED
      BY <1>1, <3>1, Piece
  <2>5. input' \in Seq(Byte) /\ arrived' \in 0..Len(Stream)
    BY <1>1, <2>1, <2>3, <2>4
  <2>6. Stream' = Stream
    BY <2>2 DEF Stream, Sent
  <2>7. QED
    BY <2>2, <2>5, <2>6 DEF Inv, FramesOK, TypeOK, Room, ReaderParked
<1>4. ASSUME NewConnection PROVE /\ FramesOK' /\ arrived' \in 0..Len(Stream') /\ connections' \in 1..MaxConnections
                                 /\ input' \in Seq(Byte) /\ pc' = "dispatch"
  <2>1. FramesOK'
    BY <1>4, BoundedAreFrames DEF NewConnection, FramesOK
  <2>2. arrived' = 0 /\ input' = <<>> /\ pc' = "dispatch"
    BY <1>4 DEF NewConnection
  <2>3. connections' \in 1..MaxConnections
    BY <1>4, FrameReaderAssumption DEF NewConnection, Inv, TypeOK
  <2>4. QED
    BY <1>2, <2>1, <2>2, <2>3
<1>5. CASE Reconnect
  <2>1. NewConnection /\ pc = "dispatch" /\ UNCHANGED <<is_first, l, size, message>>
    BY <1>5 DEF Reconnect, reader
  <2>2. QED
    BY <1>4, <2>1 DEF Inv, TypeOK, Room, ReaderParked
<1>6. CASE Respawn
  <2>1. NewConnection /\ is_first' = TRUE /\ l' = 0 /\ size' = 0 /\ message' = <<>>
    BY <1>6 DEF Respawn
  <2>2. 0 \in 0..MemoryLimit /\ <<>> \in [1..Len(<<>>) -> Byte]
    BY WireAssumption
  <2>3. QED
    BY <1>4, <2>1, <2>2 DEF Inv, TypeOK, Room, ReaderParked
<1>7. QED
  BY <1>3, <1>5, <1>6

LEMMA InvInit == Init => Inv
<1> SUFFICES ASSUME Init PROVE Inv
  OBVIOUS
<1>1. FramesOK
  BY BoundedAreFrames DEF Init, FramesOK
<1>2. 0 \in 0..Len(Stream)
  BY <1>1, StreamIsSeq
<1>3. 0 \in 0..MemoryLimit /\ <<>> \in [1..Len(<<>>) -> Byte] /\ 1 \in 1..MaxConnections /\ <<>> \in Seq(Byte)
  BY WireAssumption, FrameReaderAssumption
<1>4. QED
  BY <1>1, <1>2, <1>3 DEF Init, Inv, TypeOK, Room, ReaderParked

LEMMA InvStep == Inv /\ [Next]_vars => Inv'
<1> SUFFICES ASSUME Inv, [Next]_vars PROVE Inv'
  OBVIOUS
<1>1. CASE UNCHANGED vars
  <2>1. UNCHANGED <<frames, arrived, connections, input, is_first, l, size, message, pc>>
    BY <1>1 DEF vars, reader
  <2>2. Stream' = Stream
    BY <2>1 DEF Stream, Sent
  <2>3. QED
    BY <2>1, <2>2 DEF Inv, FramesOK, TypeOK, Room, ReaderParked
<1>2. QED
  BY <1>1, NetworkKeeps, ReadcbKeeps DEF Next

(* The types of the reader's variables and of what has arrived.            *)
THEOREM TypeCorrect == Spec => []TypeOK
<1>1. Inv => TypeOK
  BY DEF Inv
<1>2. QED
  BY <1>1, InvInit, InvStep, PTL DEF Spec

(* Whatever arrives, and in whatever pieces, readcb leaves its static      *)
(* variables at the beginning of a frame or inside one that has room for   *)
(* the rest (sub.c:281-384).                                               *)
THEOREM ReaderIsParked == Spec => []ReaderParked
<1>1. Inv => ReaderParked
  BY DEF Inv
<1>2. QED
  BY <1>1, InvInit, InvStep, PTL DEF Spec

-----------------------------------------------------------------------------
(* Decoding, on deliveries without hazards. *)

Consumed == arrived - Len(input)
Buffered == Len(input) <= arrived /\ \A i \in 1..Len(input) : input[i] = Stream[Consumed + i]
ErrorsAlone == \A i \in 1..Len(frames) : frames[i].type = 1 /\ Consumed < End(i) => arrived <= End(i)

(* After the first k frames, or inside the one after them, or done with    *)
(* the k-th, an error, but not with its length.                            *)
Between(k) == is_first /\ l = 0 /\ Consumed = End(k)
Inside(k) ==
    /\ ~is_first /\ k < Len(frames) /\ frames[k + 1].type # 1
    /\ size = FrameSize(frames[k + 1]) /\ l < size /\ Consumed = End(k) + Width + l
    /\ \A i \in 1..l : message[i] = Encode(frames[k + 1])[Width + i]
AfterError(k) == is_first /\ l > 0 /\ pc = "readcb" /\ Consumed = End(k) /\ arrived = End(k)
Place(k) == effects = OwedFor(k) /\ (Between(k) \/ Inside(k) \/ AfterError(k))

Whole == ~SplitsHeader(arrived) /\ ~SplitsError(arrived)
Decoded ==
    /\ Whole /\ Buffered /\ ErrorsAlone
    /\ pc \in {"dispatch", "readcb"} /\ (pc = "dispatch" => input = <<>>)
    /\ \E k \in 0..Len(frames) : Place(k)
Decodes == hazards = {} => Decoded

(* Whole headers and whole errors: what has arrived beyond a frame. *)
LEMMA WholeHeader ==
    ASSUME FramesOK, arrived \in 0..Len(Stream), Whole, NEW k \in 0..Len(frames), End(k) < arrived
    PROVE  /\ k < Len(frames) /\ arrived >= End(k) + Width
           /\ frames[k + 1].type = 1 => arrived >= End(k + 1)
<1>1. /\ Len(frames) \in Nat /\ arrived \in Nat /\ arrived <= End(Len(frames)) /\ Width \in Nat
      /\ \A i \in 0..Len(frames) : End(i) \in Nat
  BY EndIs, WireAssumption
<1>2. k < Len(frames)
  BY <1>1
<1>3. k + 1 \in 1..Len(frames) /\ (k + 1) - 1 = k /\ k + 1 \in 0..Len(frames)
  BY <1>1, <1>2
<1>4. End(k) \in Nat /\ End(k + 1) \in Nat
  BY <1>1, <1>3
<1>5. arrived \notin (End(k) + 1)..(End(k) + Width - 1)
  BY <1>3 DEF Whole, SplitsHeader
<1>6. frames[k + 1].type = 1 => arrived \notin (End(k) + 1)..(End(k + 1) - 1)
  BY <1>3 DEF Whole, SplitsError
<1>7. QED
  BY <1>1, <1>2, <1>4, <1>5, <1>6

(* The header of the next frame tells its size. *)
LEMMA HeaderRead ==
    ASSUME Inv, Whole, Buffered, NEW k \in 0..Len(frames), is_first, Consumed = End(k), input # <<>>
    PROVE  /\ k < Len(frames) /\ Got = Width /\ Size = FrameSize(frames[k + 1])
<1>1. FramesOK /\ TypeOK /\ arrived \in 0..Len(Stream) /\ input \in Seq(Byte)
  BY DEF Inv, TypeOK
<1>2. Len(frames) \in Nat /\ arrived \in Nat /\ Len(input) \in Nat /\ Width \in Nat /\ End(k) \in Nat
  BY <1>1, EndIs, WireAssumption
<1>3. Len(input) > 0
  BY <1>1
<1>4. End(k) < arrived
  BY <1>2, <1>3 DEF Consumed
<1>5. k < Len(frames) /\ arrived >= End(k) + Width
  BY <1>1, <1>4, WholeHeader
<1>6. Got = Width /\ Width <= Len(input)
  BY <1>2, <1>5 DEF Got, Least, Consumed
<1> DEFINE j == k + 1
           bytes == SubSeq(input, 1, Width)
           digits == Digits(FrameSize(frames[j]))
<1>7. j \in 1..Len(frames) /\ j - 1 = k
  BY <1>2, <1>5
<1> HIDE DEF j
<1>8. frames[j] \in Frames
  BY <1>1, <1>7, EndIs
<1>9. /\ Fits(FrameSize(frames[j])) /\ FrameSize(frames[j]) \in Nat
      /\ \A i \in 1..Width : Encode(frames[j])[i] = digits[i]
  BY <1>8, FrameIs
<1>10. digits \in Seq(Byte) /\ Len(digits) = Width
  BY <1>9, DigitsAre
<1>11. bytes \in Seq(Byte) /\ Len(bytes) = Width /\ \A i \in 1..Width : bytes[i] = input[i]
  <2>1. 1 \in 1..(Len(input) + 1) /\ Width \in 0..Len(input)
    BY <1>2, <1>6
  <2>2. /\ bytes \in Seq(Byte) /\ Len(bytes) = IF 1 <= Width THEN Width - 1 + 1 ELSE 0
        /\ \A i \in 1..Len(bytes) : bytes[i] = input[1 + i - 1]
    BY <1>1, <2>1, Piece
  <2>3. Len(bytes) = Width
    BY <1>2, <2>2, WireAssumption
  <2>4. \A i \in 1..Width : 1 + i - 1 = i
    OBVIOUS
  <2>5. QED
    BY <2>2, <2>3, <2>4
<1>12. ASSUME NEW i \in 1..Width PROVE bytes[i] = digits[i]
  <2>1. i \in 1..Len(input) /\ i \in 1..(Width + FrameSize(frames[j]))
    BY <1>2, <1>6, <1>9
  <2>2. input[i] = Stream[End(k) + i]
    BY <2>1 DEF Buffered
  <2>3. Stream[End(k) + i] = Encode(frames[j])[i]
    BY <1>1, <1>7, <2>1, StreamHas
  <2>4. QED
    BY <1>9, <1>11, <2>2, <2>3
<1>13. bytes = digits
  <2> HIDE DEF bytes, digits
  <2>1. QED
    BY <1>10, <1>11, <1>12, SameBytes
<1>14. Size = FrameSize(frames[j])
  BY <1>6, <1>9, <1>13, SizeRead DEF Size
<1>15. QED
  BY <1>5, <1>6, <1>14 DEF j

(* What a turn of the loop leaves is still the end of what has arrived.    *)
LEMMA StillBuffered ==
    ASSUME Inv, Buffered
    PROVE  /\ Len(Fill.input) = Len(input) - Got - Count /\ Len(Fill.input) <= arrived
           /\ \A i \in 1..Len(Fill.input) : Fill.input[i] = Stream[arrived - Len(Fill.input) + i]
<1>1. TypeOK /\ Room
  BY DEF Inv
<1>2. /\ Got \in 0..Len(input) /\ Len(input) \in Nat /\ Rest \in Seq(Byte) /\ Len(Rest) = Len(input) - Got
      /\ \A i \in 1..Len(Rest) : Rest[i] = input[Got + i]
      /\ Count \in 0..Len(Rest)
  BY <1>1, FillTypes
<1>3. arrived \in Nat
  BY <1>1 DEF TypeOK
<1>4. Count + 1 \in 1..(Len(Rest) + 1) /\ Len(Rest) \in 0..Len(Rest) /\ Len(Rest) \in Nat
  BY <1>2
<1> DEFINE left == SubSeq(Rest, Count + 1, Len(Rest))
<1>5. /\ Len(left) = IF Count + 1 <= Len(Rest) THEN Len(Rest) - (Count + 1) + 1 ELSE 0
      /\ \A i \in 1..Len(left) : left[i] = Rest[Count + 1 + i - 1]
  BY <1>2, <1>4, Piece
<1>6. Fill.input = left
  BY FillIs
<1> HIDE DEF left
<1>7. Len(left) = Len(input) - Got - Count
  <2>1. Len(left) = Len(Rest) - Count
    <3> DEFINE n == Len(Rest)
    <3>1. n \in Nat /\ Count \in 0..n /\ Len(left) = IF Count + 1 <= n THEN n - (Count + 1) + 1 ELSE 0
      BY <1>2, <1>4, <1>5
    <3> HIDE DEF n
    <3>2. Len(left) = n - Count
      BY <3>1
    <3>3. QED
      BY <3>2 DEF n
  <2>2. QED
    BY <1>2, <2>1
<1>8. Len(left) <= arrived
  BY <1>2, <1>3, <1>7 DEF Buffered
<1>9. ASSUME NEW i \in 1..Len(left) PROVE left[i] = Stream[arrived - Len(left) + i]
  <2>1. Count + 1 + i - 1 = Count + i /\ Count + i \in 1..Len(Rest)
    BY <1>2, <1>4, <1>7
  <2>2. left[i] = Rest[Count + i]
    BY <1>5, <2>1
  <2>3. Rest[Count + i] = input[Got + (Count + i)]
    BY <1>2, <2>1
  <2>4. Got + (Count + i) \in 1..Len(input)
    BY <1>2, <2>1
  <2>5. input[Got + (Count + i)] = Stream[Consumed + (Got + (Count + i))]
    BY <2>4 DEF Buffered
  <2>6. Consumed + (Got + (Count + i)) = arrived - Len(left) + i
    <3> DEFINE n == Len(left)
               m == Len(input)
    <3>1. n = m - Got - Count /\ m \in Nat /\ Got \in Nat /\ Count \in Nat /\ i \in Nat
          /\ Consumed = arrived - m
      BY <1>2, <1>7, <1>9 DEF Consumed
    <3> HIDE DEF n, m
    <3>2. Consumed + (Got + (Count + i)) = arrived - n + i
      BY <1>3, <3>1
    <3>3. QED
      BY <3>2 DEF n
  <2>7. QED
    BY <2>2, <2>3, <2>5, <2>6
<1>10. QED
  BY <1>6, <1>7, <1>8, <1>9

-----------------------------------------------------------------------------
(* One turn of the loop. *)

(* What it has once it has read on in frame k + 1.                         *)
Filled(k) ==
    /\ k < Len(frames) /\ Fill.size = FrameSize(frames[k + 1]) /\ Fill.l \in 0..Fill.size
    /\ \A i \in 1..Fill.l : Fill.message[i] = Encode(frames[k + 1])[Width + i]
    /\ arrived - Len(Fill.input) = End(k) + Width + Fill.l
    /\ Fill.l < Fill.size => Fill.input = <<>> /\ frames[k + 1].type # 1
    /\ frames[k + 1].type = 1 => is_first
    /\ Consumed < End(k + 1)

LEMMA FrameFilled ==
    ASSUME Inv, Decoded, NEW k \in 0..Len(frames), (Between(k) /\ input # <<>>) \/ Inside(k)
    PROVE  Filled(k)
<1>1. FramesOK /\ TypeOK /\ Room /\ arrived \in 0..Len(Stream) /\ Whole /\ Buffered /\ Len(Stream) \in Nat
  BY StreamIsSeq DEF Inv, TypeOK, Decoded
<1>2. /\ Len(frames) \in Nat /\ arrived \in Nat /\ Len(input) \in Nat /\ Width \in Nat /\ End(k) \in Nat
      /\ l \in Nat /\ is_first \in BOOLEAN
  BY <1>1, EndIs, WireAssumption DEF TypeOK
<1> DEFINE f == frames[k + 1]
           z == FrameSize(f)
<1>3. /\ k < Len(frames) /\ Size = z /\ l \in 0..z /\ Consumed + Got = End(k) + Width + l
      /\ \A i \in 1..l : Old[i] = Encode(f)[Width + i]
      /\ f.type = 1 => is_first
  <2>1. CASE Between(k) /\ input # <<>>
    <3>1. is_first /\ l = 0 /\ Consumed = End(k)
      BY <2>1 DEF Between
    <3>2. k < Len(frames) /\ Got = Width /\ Size = z
      BY <1>1, <2>1, <3>1, HeaderRead
    <3>3. Size \in Nat
      BY <1>1, FillTypes
    <3>4. QED
      BY <1>2, <3>1, <3>2, <3>3
  <2>2. CASE Inside(k)
    <3>1. Got = 0 /\ Size = size /\ Old = message
      BY <2>2 DEF Inside, Got, Size, Old
    <3>2. size = z /\ z \in Nat
      BY <1>1, <2>2 DEF Inside, TypeOK
    <3>3. Consumed + 0 = Consumed
      BY <1>2 DEF Consumed
    <3>4. QED
      BY <1>2, <2>2, <3>1, <3>2, <3>3 DEF Inside
  <2>3. QED
    BY <2>1, <2>2
<1>4. /\ Got \in 0..Len(input) /\ Rest \in Seq(Byte) /\ Len(Rest) = Len(input) - Got /\ z \in Nat
      /\ \A i \in 1..Len(Rest) : Rest[i] = input[Got + i]
      /\ Count \in 0..Len(Rest) /\ Len(Rest) \in Nat
  BY <1>1, <1>3, FillTypes
<1>5. Count \in 0..(z - l) /\ (Count < z - l => Count = Len(Rest))
  BY <1>2, <1>3, <1>4 DEF Count, Least
<1>6. k + 1 \in 1..Len(frames) /\ (k + 1) - 1 = k
  BY <1>2, <1>3
<1>7. f \in Frames /\ End(k + 1) = End(k) + Width + z
  BY <1>1, <1>6, EndIs
<1> HIDE DEF f, z
<1>8. Fill.size = z /\ Fill.l = l + Count /\ Fill.l \in 0..z
  BY <1>2, <1>3, <1>4, <1>5, FillIs
<1>9. ASSUME NEW i \in 1..Fill.l PROVE Fill.message[i] = Encode(f)[Width + i]
  <2>1. i \in 1..Size /\ i \in Nat /\ i <= l + Count
    BY <1>2, <1>3, <1>4, <1>8
  <2>2. Fill.message[i] = IF i \in (l + 1)..(l + Count) THEN Rest[i - l] ELSE Old[i]
    BY <2>1, FillIs
  <2>3. CASE i \in (l + 1)..(l + Count)
    <3>1. i - l \in 1..Len(Rest) /\ Got + (i - l) \in 1..Len(input)
      BY <1>2, <1>4, <2>3
    <3>2. Rest[i - l] = Stream[Consumed + (Got + (i - l))]
      BY <1>1, <1>4, <3>1 DEF Buffered
    <3>3. Consumed + (Got + (i - l)) = End(k) + (Width + i)
      <4> DEFINE c == Consumed
                 e == End(k)
      <4>1. c \in Int /\ e \in Int /\ Got \in Int /\ c + Got = e + Width + l
        BY <1>2, <1>3, <1>4 DEF Consumed
      <4> HIDE DEF c, e
      <4>2. c + (Got + (i - l)) = e + (Width + i)
        BY <1>2, <2>1, <4>1
      <4>3. QED
        BY <4>2 DEF c, e
    <3>4. Width + i \in 1..(Width + z)
      BY <1>2, <1>3, <1>4, <2>1
    <3>5. Stream[End(k) + (Width + i)] = Encode(f)[Width + i]
      BY <1>1, <1>6, <3>4, StreamHas DEF f, z
    <3>6. QED
      BY <2>2, <2>3, <3>2, <3>3, <3>5
  <2>4. CASE i \notin (l + 1)..(l + Count)
    <3>1. i \in 1..l
      BY <1>2, <1>4, <2>1, <2>4
    <3>2. QED
      BY <1>3, <2>2, <2>4, <3>1
  <2>5. QED
    BY <2>3, <2>4
<1>10. Len(Fill.input) = Len(input) - Got - Count
  BY <1>1, StillBuffered
<1>11. arrived - Len(Fill.input) = End(k) + Width + Fill.l
  BY <1>2, <1>3, <1>4, <1>8, <1>10 DEF Consumed
<1>12. ASSUME Fill.l < Fill.size PROVE Fill.input = <<>> /\ f.type # 1
  <2>1. Count = Len(Rest)
    BY <1>2, <1>4, <1>5, <1>8, <1>12
  <2>2. Len(Fill.input) = 0
    BY <1>2, <1>4, <1>10, <2>1
  <2>3. Fill.input \in Seq(Byte)
    BY <1>1, FillTypes
  <2>4. Fill.input = <<>>
    BY <2>2, <2>3
  <2>5. arrived = End(k) + Width + Fill.l /\ Fill.l \in Nat
    BY <1>2, <1>8, <1>11, <2>2
  <2>6. End(k) < arrived /\ arrived < End(k + 1)
    BY <1>2, <1>4, <1>7, <1>8, <1>12, <2>5, WireAssumption
  <2>7. ~(arrived >= End(k + 1))
    BY <1>2, <1>4, <1>7, <2>6
  <2>8. QED
    BY <1>1, <2>4, <2>6, <2>7, WholeHeader DEF f
<1>13. Consumed < End(k + 1)
  <2>1. CASE Between(k)
    <3>1. Consumed = End(k)
      BY <2>1 DEF Between
    <3>2. QED
      BY <1>1, <1>6, <3>1, EndNext
  <2>2. CASE Inside(k)
    <3>1. Consumed = End(k) + Width + l /\ l < z
      BY <2>2 DEF Inside, f, z
    <3>2. QED
      BY <1>2, <1>4, <1>7, <3>1
  <2>3. QED
    BY <2>1, <2>2
<1>14. QED
  BY <1>3, <1>8, <1>9, <1>11, <1>12, <1>13 DEF Filled, f, z

(* The type and the data of a frame that is there in full.                 *)
LEMMA WholeFrame ==
    ASSUME Inv, NEW k \in 0..Len(frames), Filled(k), Fill.l = Fill.size
    PROVE  /\ FrameTypes(Fill) = {frames[k + 1].type}
           /\ SubSeq(Fill.message, Width + 1, Fill.size) = frames[k + 1].data
<1>1. FramesOK /\ TypeOK /\ Room
  BY DEF Inv
<1> DEFINE f == frames[k + 1]
           m == Fill.message
           z == Fill.size
<1>2. m \in Seq(Byte) /\ Len(m) = z /\ z \in Nat
  BY <1>1, FillTypes
<1>3. z = FrameSize(f) /\ k < Len(frames) /\ \A i \in 1..z : m[i] = Encode(f)[Width + i]
  BY DEF Filled
<1>4. f \in Frames
  <2>1. k + 1 \in 1..Len(frames)
    BY <1>1, <1>3, EndIs
  <2>2. QED
    BY <1>1, <2>1, EndIs
<1>5. FrameTypes(Fill) = IF z >= Width THEN {readI32(SubSeq(m, 1, Width))} ELSE 0..2
  BY DEF FrameTypes
<1> HIDE DEF f, m, z
<1>6. /\ f.type \in 0..2 /\ f.data \in Seq(Byte) /\ z >= Width /\ Fits(f.type)
      /\ \A i \in 1..Width : Encode(f)[Width + i] = Digits(f.type)[i]
      /\ \A i \in 1..Len(f.data) : Encode(f)[Width + Width + i] = f.data[i]
  BY <1>3, <1>4, FrameIs
<1>7. Width \in Nat /\ Width > 0 /\ Len(f.data) \in Nat /\ z = Width + Len(f.data)
  BY <1>3, <1>6, WireAssumption DEF FrameSize
<1>8. readI32(SubSeq(m, 1, Width)) = f.type
  <2> DEFINE bytes == SubSeq(m, 1, Width)
             digits == Digits(f.type)
  <2>1. digits \in Seq(Byte) /\ Len(digits) = Width
    BY <1>6, DigitsAre
  <2>2. 1 \in 1..(Len(m) + 1) /\ Width \in 0..Len(m) /\ 1 <= Width /\ Width - 1 + 1 = Width
    BY <1>2, <1>6, <1>7
  <2>3. /\ bytes \in Seq(Byte) /\ Len(bytes) = Width
        /\ \A i \in 1..Len(bytes) : bytes[i] = m[1 + i - 1]
    BY <1>2, <2>2, Piece
  <2>4. ASSUME NEW i \in 1..Width PROVE bytes[i] = digits[i]
    <3>1. i \in 1..z /\ 1 + i - 1 = i
      BY <1>2, <1>6, <1>7
    <3>2. QED
      BY <1>3, <1>6, <2>3, <3>1
  <2>5. bytes = digits
    <3> HIDE DEF bytes, digits
    <3>1. QED
      BY <2>1, <2>3, <2>4, SameBytes
  <2>6. QED
    BY <1>6, <2>5, RoundTrip
<1>9. SubSeq(m, Width + 1, z) = f.data
  <2> DEFINE bytes == SubSeq(m, Width + 1, z)
             data == f.data
  <2>1. Width + 1 \in 1..(Len(m) + 1) /\ z \in 0..Len(m)
    BY <1>2, <1>6, <1>7
  <2>2. /\ bytes \in Seq(Byte) /\ Len(bytes) = IF Width + 1 <= z THEN z - (Width + 1) + 1 ELSE 0
        /\ \A i \in 1..Len(bytes) : bytes[i] = m[Width + 1 + i - 1]
    BY <1>2, <2>1, Piece
  <2>3. Len(bytes) = Len(data)
    BY <1>7, <2>2
  <2>4. ASSUME NEW i \in 1..Len(bytes) PROVE bytes[i] = data[i]
    <3>1. i \in 1..Len(data) /\ Width + i \in 1..z /\ Width + 1 + i - 1 = Width + i /\ Width + (Width + i) = Width + Width + i
      BY <1>7, <2>3
    <3>2. m[Width + i] = Encode(f)[Width + (Width + i)]
      BY <1>3, <3>1
    <3>3. Encode(f)[Width + Width + i] = data[i]
      BY <1>6, <3>1
    <3>4. QED
      BY <2>2, <3>1, <3>2, <3>3
  <2>5. data \in Seq(Byte)
    BY <1>6
  <2> HIDE DEF bytes, data
  <2>6. bytes = data
    BY <2>2, <2>3, <2>4, <2>5, SameBytes
  <2>7. QED
    BY <2>6 DEF bytes, data
<1>10. QED
  BY <1>5, <1>6, <1>8, <1>9 DEF f, m, z

(* With nothing left to read.                                              *)
LEMMA NothingFilled ==
    ASSUME Inv, Decoded, NEW k \in 0..Len(frames), (Between(k) /\ input = <<>>) \/ AfterError(k)
    PROVE  Fill.size = 0 /\ Fill.l = l /\ Fill.input = <<>> /\ ~Fill.overrun /\ arrived = End(k)
<1>1. FramesOK /\ TypeOK /\ Room /\ Buffered
  BY DEF Inv, Decoded
<1>2. arrived \in Nat /\ input \in Seq(Byte) /\ Width \in Nat /\ l \in Nat /\ End(k) \in Nat
  BY <1>1, EndIs, WireAssumption DEF TypeOK
<1>3. is_first /\ input = <<>> /\ arrived = End(k)
  <2>1. CASE Between(k) /\ input = <<>>
    BY <1>2, <2>1 DEF Between, Consumed
  <2>2. CASE AfterError(k)
    <3>1. is_first /\ Consumed = arrived /\ arrived = End(k)
      BY <2>2 DEF AfterError
    <3>2. Len(input) \in Nat
      BY <1>2
    <3>3. Len(input) = 0
      BY <1>2, <3>1, <3>2 DEF Consumed
    <3>4. QED
      BY <1>2, <3>1, <3>3
  <2>3. QED
    BY <2>1, <2>2
<1>4. Got = 0
  BY <1>2, <1>3 DEF Got, Least
<1>5. Size = 0
  <2>1. SubSeq(<<>>, 1, 0) = <<>>
    OBVIOUS
  <2>2. QED
    BY <1>3, <1>4, <2>1, NoSize DEF Size
<1>6. Count = 0 /\ Rest = <<>>
  <2>1. Rest \in Seq(Byte) /\ Len(Rest) = Len(input) - Got /\ Count \in 0..Len(Rest)
    BY <1>1, FillTypes
  <2>2. Len(Rest) = 0
    BY <1>3, <1>4, <2>1
  <2>3. QED
    BY <2>1, <2>2
<1>7. SubSeq(<<>>, 0 + 1, Len(<<>>)) = <<>>
  OBVIOUS
<1>8. Fill.input = <<>>
  BY <1>6, <1>7, FillIs
<1>9. ~Fill.overrun /\ Fill.size = 0 /\ Fill.l = l
  <2>1. ~(l > Size /\ Count > 0)
    BY <1>6
  <2>2. Fill.overrun = (l > Size /\ Count > 0)
    BY FillIs
  <2>3. ~Fill.overrun
    BY <2>1, <2>2, Zenon
  <2>4. Fill.size = 0 /\ Fill.l = l
    BY <1>2, <1>5, <1>6, FillIs
  <2>5. QED
    BY <2>3, <2>4
<1>10. QED
  BY <1>3, <1>8, <1>9

-----------------------------------------------------------------------------
(* Decoding goes on. *)

LEMMA SameEnds ==
    ASSUME UNCHANGED frames
    PROVE  /\ \A i : End(i)' = End(i) /\ OwedFor(i)' = OwedFor(i)
           /\ Stream' = Stream /\ OwedEffects' = OwedFor(Cardinality(ArrivedFrames'))
<1>1. \A i : Sent(i)' = Sent(i) /\ OwedFor(i)' = OwedFor(i)
  BY DEF Sent, OwedFor
<1>2. QED
  BY <1>1 DEF End, Stream, OwedEffects, OwedFor, Sent

(* A turn of the loop that leaves a place in the stream. *)
LEMMA DecodedByPlace ==
    ASSUME Inv, Decoded, UNCHANGED <<frames, arrived>>, input' = Fill.input,
           NEW j \in 0..Len(frames), Place(j)',
           pc' \in {"dispatch", "readcb"}, pc' = "dispatch" => Fill.input = <<>>
    PROVE  Decoded'
<1>1. /\ \A i : End(i)' = End(i)
      /\ Stream' = Stream
  BY SameEnds
<1>2. /\ Len(Fill.input) = Len(input) - Got - Count /\ Len(Fill.input) <= arrived
      /\ \A i \in 1..Len(Fill.input) : Fill.input[i] = Stream[arrived - Len(Fill.input) + i]
  BY StillBuffered DEF Decoded
<1>3. Whole'
  BY <1>1 DEF Decoded, Whole, SplitsHeader, SplitsError
<1>4. Buffered'
  BY <1>1, <1>2 DEF Buffered, Consumed
<1>5. ErrorsAlone'
  <2>1. TypeOK /\ Room
    BY DEF Inv
  <2>2. arrived \in Nat /\ Len(input) \in Nat /\ Got \in Nat /\ Count \in Nat
    <3>1. Len(input) \in Nat /\ Got \in 0..Len(input) /\ Rest \in Seq(Byte) /\ Count \in 0..Len(Rest)
      BY <2>1, FillTypes
    <3>2. arrived \in Nat
      BY <2>1 DEF TypeOK
    <3>3. QED
      BY <3>1, <3>2
  <2>3. Consumed <= Consumed'
    BY <1>2, <2>2 DEF Consumed
  <2>4. Consumed \in Int /\ Consumed' \in Int
    BY <1>2, <2>2 DEF Consumed
  <2>5. FramesOK
    BY DEF Inv
  <2>6. ASSUME NEW i \in 1..Len(frames), frames[i].type = 1, Consumed' < End(i) PROVE arrived <= End(i)
    <3>1. End(i) \in Nat
      BY <2>5, EndNext
    <3>2. Consumed < End(i)
      BY <2>3, <2>4, <2>6, <3>1
    <3>3. QED
      BY <2>6, <3>2 DEF Decoded, ErrorsAlone
  <2>7. QED
    BY <1>1, <2>6 DEF ErrorsAlone
<1>6. \E k \in 0..Len(frames') : Place(k)'
  OBVIOUS
<1>7. QED
  BY <1>3, <1>4, <1>5, <1>6 DEF Decoded

(* The next frame, or less than that, has been read. *)
LEMMA ReadsOn ==
    ASSUME Inv, Decoded, NsqdFrames, readcb, NEW k \in 0..Len(frames),
           effects = OwedFor(k), Filled(k)
    PROVE  Decoded'
<1> DEFINE f == frames[k + 1]
<1>1. FramesOK /\ TypeOK /\ Room /\ Len(frames) \in Nat
  BY EndIs DEF Inv
<1>2. k + 1 \in 1..Len(frames) /\ (k + 1) - 1 = k /\ k + 1 \in 0..Len(frames)
  BY <1>1 DEF Filled
<1>3. /\ f \in Frames /\ End(k + 1) = End(k) + Width + FrameSize(f)
      /\ f.type \in 0..2 /\ f.data \in Seq(Byte) /\ FrameSize(f) \in Nat /\ FrameSize(f) >= Width
      /\ FrameSize(f) = Width + Len(f.data)
  BY <1>1, <1>2, EndIs, FrameIs DEF FrameSize
<1>4. /\ Fill.size = FrameSize(f) /\ Fill.l \in Nat /\ Fill.l <= Fill.size
      /\ arrived - Len(Fill.input) = End(k) + Width + Fill.l
  BY <1>3 DEF Filled
<1>5. Width \in Nat /\ Width > 0 /\ HeartbeatSize \in Nat /\ MetaSize \in Nat /\ MetaSize > 0
  BY WireAssumption, FrameReaderAssumption
<1>6. Fill.size <= MemoryLimit
  BY <1>3, <1>4 DEF NsqdFrames
<1>7. readcb => pc = "readcb" /\ UNCHANGED <<frames, arrived>>
  BY DEF readcb, ReadcbPartial, ReadcbResponse, ReadcbMessage, ReadcbOther, ReadcbOverrun, ReadcbAllocFails, ReadcbFrame
<1>8. (\A i : End(i)' = End(i) /\ OwedFor(i)' = OwedFor(i)) /\ frames' = frames /\ arrived' = arrived
  BY <1>7, SameEnds
<1>9. OwedFor(k + 1) = OwedFor(k) \o Owed(f) /\ OwedFor(k) \in Seq(Effect)
  BY <1>1, <1>2, OwedForIs
<1>10. CASE ReadcbPartial
  <2>1. /\ Fill.l < Fill.size /\ is_first' = FALSE /\ l' = Fill.l /\ size' = Fill.size /\ message' = Fill.message
        /\ input' = Fill.input /\ effects' = effects /\ pc' = "dispatch"
    BY <1>10 DEF ReadcbPartial, ReadcbFrame
  <2>2. f.type # 1 /\ Fill.input = <<>>
    BY <2>1 DEF Filled
  <2>3. Inside(k)'
    <3>1. Consumed' = End(k) + Width + Fill.l
      BY <1>4, <1>8, <2>1 DEF Consumed
    <3>2. \A i \in 1..Fill.l : Fill.message[i] = Encode(f)[Width + i]
      BY DEF Filled
    <3>3. k < Len(frames)
      BY DEF Filled
    <3>4. QED
      BY <1>4, <1>8, <2>1, <2>2, <3>1, <3>2, <3>3 DEF Inside
  <2>4. Place(k)'
    BY <1>8, <2>1, <2>3 DEF Place
  <2>5. QED
    BY <1>8, <2>1, <2>2, <2>4, DecodedByPlace
<1>11. ASSUME Fill.l = Fill.size, input' = Fill.input, NextFrame, effects' = OwedFor(k + 1), pc' = "readcb"
       PROVE  Decoded'
  <2>1. Consumed' = End(k + 1)
    BY <1>3, <1>4, <1>8, <1>11 DEF Consumed
  <2>2. Between(k + 1)'
    BY <1>8, <1>11, <2>1 DEF Between, NextFrame
  <2>3. Place(k + 1)'
    BY <1>8, <1>11, <2>2 DEF Place
  <2>4. QED
    BY <1>2, <1>8, <1>11, <2>3, DecodedByPlace
<1>12. Fill.l = Fill.size => FrameTypes(Fill) = {f.type} /\ SubSeq(Fill.message, Width + 1, Fill.size) = f.data
  BY WholeFrame
<1>13. CASE ReadcbResponse
  <2>1. /\ Fill.l = Fill.size /\ 0 \in FrameTypes(Fill) /\ input' = Fill.input /\ NextFrame
        /\ effects' = IF Fill.size = HeartbeatSize THEN Append(effects, Nop) ELSE effects
        /\ pc' = IF Fill.size # 0 THEN "readcb" ELSE "dispatch"
    BY <1>13 DEF ReadcbResponse, ReadcbFrame
  <2>2. f.type = 0
    BY <1>12, <2>1
  <2>3. pc' = "readcb"
    BY <1>3, <1>4, <1>5, <2>1
  <2>4. effects' = OwedFor(k + 1)
    <3>1. CASE Fill.size = HeartbeatSize
      <4>1. Owed(f) = <<Nop>>
        BY <1>4, <2>2, <3>1 DEF Owed, IsHeartbeat
      <4>2. effects' = Append(OwedFor(k), Nop)
        BY <2>1, <3>1
      <4>3. Nop \in Effect
        BY DEF Effect
      <4>4. QED
        BY <1>9, <4>1, <4>2, <4>3
    <3>2. CASE Fill.size # HeartbeatSize
      <4>1. Owed(f) = <<>>
        BY <1>4, <2>2, <3>2 DEF Owed, IsHeartbeat
      <4>2. QED
        BY <1>9, <2>1, <3>2, <4>1
    <3>3. QED
      BY <3>1, <3>2
  <2>5. QED
    BY <1>11, <2>1, <2>3, <2>4
<1>14. CASE ReadcbMessage
  <2> DEFINE body == Fill.size - Width - MetaSize
  <2>1. /\ Fill.l = Fill.size /\ 2 \in FrameTypes(Fill) /\ input' = Fill.input /\ NextFrame
        /\ effects' = IF body >= 0
                      THEN Append(effects, Enqueue(SubSeq(Fill.message, Width + 1, Fill.size)))
                      ELSE effects
        /\ pc' = IF body = -1 THEN "exited" ELSE "readcb"
    BY <1>14 DEF ReadcbMessage, ReadcbFrame
  <2>2. f.type = 2 /\ SubSeq(Fill.message, Width + 1, Fill.size) = f.data
    BY <1>12, <2>1
  <2>3. body >= 0 /\ body # -1
    <3>1. Len(f.data) >= MetaSize /\ Len(f.data) \in Nat
      BY <1>3, <2>2 DEF NsqdFrames
    <3>2. QED
      BY <1>3, <1>4, <1>5, <3>1
  <2> HIDE DEF body
  <2>4. effects' = Append(OwedFor(k), Enqueue(f.data)) /\ pc' = "readcb"
    BY <2>1, <2>2, <2>3
  <2>5. Owed(f) = <<Enqueue(f.data)>> /\ Enqueue(f.data) \in Effect
    BY <1>3, <2>2 DEF Owed, IsHeartbeat, Effect
  <2>6. effects' = OwedFor(k + 1)
    BY <1>9, <2>4, <2>5
  <2>7. QED
    BY <1>11, <2>1, <2>4, <2>6
<1>15. CASE ReadcbOther
  <2>1. /\ Fill.l = Fill.size /\ FrameTypes(Fill) \ {0, 2} # {} /\ input' = Fill.input
        /\ l' = Fill.l /\ is_first' = is_first /\ pc' = pc /\ effects' = effects
    BY <1>15 DEF ReadcbOther, ReadcbFrame
  <2>2. f.type = 1
    BY <1>3, <1>12, <2>1
  <2>3. is_first' /\ l' > 0 /\ pc' = "readcb"
    BY <1>3, <1>4, <1>5, <1>7, <2>1, <2>2 DEF Filled
  <2>4. Consumed' = End(k + 1)
    BY <1>3, <1>4, <1>8, <2>1 DEF Consumed
  <2>5. arrived = End(k + 1)
    <3>1. /\ Len(Fill.input) = Len(input) - Got - Count /\ Len(Fill.input) \in Nat /\ Got \in Nat /\ Count \in Nat
          /\ Len(input) \in Nat /\ arrived \in Nat
      <4>1. /\ Fill.input \in Seq(Byte) /\ Len(input) \in Nat /\ Got \in 0..Len(input)
            /\ Rest \in Seq(Byte) /\ Count \in 0..Len(Rest)
        BY <1>1, FillTypes
      <4>2. Len(Fill.input) = Len(input) - Got - Count
        BY StillBuffered DEF Decoded
      <4>3. arrived \in Nat
        BY <1>1 DEF TypeOK
      <4>4. QED
        BY <4>1, <4>2, <4>3
    <3>2. arrived - Len(Fill.input) = End(k + 1)
      BY <1>3, <1>4, <2>1
    <3>3. End(k) \in Nat /\ End(k + 1) \in Nat /\ End(k + 1) > End(k)
      BY <1>1, <1>2, EndNext
    <3>4. arrived <= End(k + 1)
      BY <1>2, <2>2 DEF Decoded, ErrorsAlone, Filled
    <3>5. QED
      BY <3>1, <3>2, <3>3, <3>4
  <2>6. OwedFor(k + 1) = OwedFor(k)
    <3>1. Owed(f) = <<>>
      BY <2>2 DEF Owed, IsHeartbeat
    <3>2. QED
      BY <1>9, <3>1
  <2>7. AfterError(k + 1)'
    BY <1>8, <2>3, <2>4, <2>5 DEF AfterError
  <2>8. Place(k + 1)'
    BY <1>8, <2>1, <2>6, <2>7 DEF Place
  <2>9. QED
    BY <1>2, <1>8, <2>1, <2>3, <2>8, DecodedByPlace
<1>16. ~ReadcbOverrun
  BY <1>3, <1>4 DEF ReadcbOverrun
<1>17. ~ReadcbAllocFails
  BY <1>3, <1>4, <1>6, WireAssumption DEF ReadcbAllocFails
<1>18. QED
  BY <1>10, <1>13, <1>14, <1>15, <1>16, <1>17 DEF readcb

(* Nothing was left to read.                                               *)
LEMMA ReadsNothing ==
    ASSUME Inv, Decoded, NsqdFrames, readcb, NEW k \in 0..Len(frames),
           effects = OwedFor(k), (Between(k) /\ input = <<>>) \/ AfterError(k)
    PROVE  Decoded'
<1>1. /\ FramesOK /\ TypeOK /\ Room /\ l \in Nat /\ is_first
      /\ Width \in Nat /\ Width > 0 /\ HeartbeatSize \in Nat /\ HeartbeatSize > 0 /\ MetaSize \in Nat /\ MetaSize > 0
  BY WireAssumption, FrameReaderAssumption DEF Inv, TypeOK, Between, AfterError
<1>2. Fill.size = 0 /\ Fill.l = l /\ Fill.input = <<>> /\ ~Fill.overrun /\ arrived = End(k)
  BY NothingFilled
<1>3. readcb => pc = "readcb" /\ UNCHANGED <<frames, arrived>>
  BY DEF readcb, ReadcbPartial, ReadcbResponse, ReadcbMessage, ReadcbOther, ReadcbOverrun, ReadcbAllocFails, ReadcbFrame
<1>4. (\A i : End(i)' = End(i) /\ OwedFor(i)' = OwedFor(i)) /\ frames' = frames /\ arrived' = arrived
  BY <1>3, SameEnds
<1>5. ASSUME input' = <<>>, is_first', l' = 0, effects' = effects, pc' \in {"dispatch", "readcb"}
      PROVE  Decoded'
  <2>1. Consumed' = End(k)
    <3>1. Len(<<>>) = 0 /\ arrived - 0 = arrived
      BY <1>1 DEF TypeOK
    <3>2. QED
      BY <1>2, <1>4, <1>5, <3>1 DEF Consumed
  <2>2. Between(k)'
    BY <1>4, <1>5, <2>1 DEF Between
  <2>3. Place(k)'
    BY <1>4, <1>5, <2>2 DEF Place
  <2>4. QED
    BY <1>2, <1>4, <1>5, <2>3, DecodedByPlace
<1>6. CASE ReadcbPartial
  BY <1>1, <1>2, <1>6 DEF ReadcbPartial
<1>7. CASE ReadcbResponse
  <2>1. /\ Fill.l = Fill.size /\ input' = Fill.input /\ is_first' = TRUE /\ l' = 0
        /\ effects' = IF Fill.size = HeartbeatSize THEN Append(effects, Nop) ELSE effects
        /\ pc' = IF Fill.size # 0 THEN "readcb" ELSE "dispatch"
    BY <1>7 DEF ReadcbResponse, ReadcbFrame, NextFrame
  <2>2. effects' = effects /\ pc' = "dispatch"
    BY <1>1, <1>2, <2>1
  <2>3. QED
    BY <1>2, <1>5, <2>1, <2>2
<1>8. CASE ReadcbMessage
  <2> DEFINE body == Fill.size - Width - MetaSize
  <2>1. /\ Fill.l = Fill.size /\ input' = Fill.input /\ is_first' = TRUE /\ l' = 0
        /\ effects' = IF body >= 0
                      THEN Append(effects, Enqueue(SubSeq(Fill.message, Width + 1, Fill.size)))
                      ELSE effects
        /\ pc' = IF body = -1 THEN "exited" ELSE "readcb"
    BY <1>8 DEF ReadcbMessage, ReadcbFrame, NextFrame
  <2>2. ~(body >= 0) /\ body # -1
    BY <1>1, <1>2
  <2> HIDE DEF body
  <2>3. effects' = effects /\ pc' = "readcb"
    BY <2>1, <2>2
  <2>4. QED
    BY <1>2, <1>5, <2>1, <2>3
<1>9. CASE ReadcbOther
  <2>1. /\ Fill.l = Fill.size /\ input' = Fill.input /\ is_first' = is_first /\ l' = Fill.l
        /\ effects' = effects /\ pc' = pc
    BY <1>9 DEF ReadcbOther, ReadcbFrame
  <2>2. QED
    BY <1>1, <1>2, <1>3, <1>5, <2>1
<1>10. CASE ReadcbOverrun
  <2>1. /\ input' = Fill.input /\ is_first' = TRUE /\ l' = 0 /\ effects' = effects
        /\ pc' = "dispatch" \/ Fill.overrun
    BY <1>10 DEF ReadcbOverrun, ReadcbFrame, NextFrame
  <2>2. pc' = "dispatch"
    BY <1>2, <2>1, Zenon
  <2>3. QED
    BY <1>2, <1>5, <2>1, <2>2
<1>11. ~ReadcbAllocFails
  BY <1>2, WireAssumption DEF ReadcbAllocFails
<1>12. QED
  BY <1>6, <1>7, <1>8, <1>9, <1>10, <1>11 DEF readcb

LEMMA ReadcbDecodes == Inv /\ NsqdFrames /\ Decoded /\ readcb => Decoded'
<1> SUFFICES ASSUME Inv, NsqdFrames, Decoded, readcb PROVE Decoded'
  OBVIOUS
<1>1. PICK k \in 0..Len(frames) : Place(k)
  BY DEF Decoded
<1>2. effects = OwedFor(k) /\ (Between(k) \/ Inside(k) \/ AfterError(k))
  BY <1>1 DEF Place
<1>3. CASE (Between(k) /\ input # <<>>) \/ Inside(k)
  <2>1. Filled(k)
    BY <1>3, FrameFilled
  <2>2. QED
    BY <1>2, <2>1, ReadsOn
<1>4. CASE (Between(k) /\ input = <<>>) \/ AfterError(k)
  BY <1>2, <1>4, ReadsNothing
<1>5. QED
  BY <1>2, <1>3, <1>4

(* More of the stream, as far as a delivery without hazards goes.          *)
LEMMA ArriveDecodes == Inv /\ Decoded /\ Arrive /\ hazards = {} => Decoded'
<1> SUFFICES ASSUME Inv, Decoded, Arrive, hazards = {} PROVE Decoded'
  OBVIOUS
<1>1. pc = "dispatch" /\ input = <<>> /\ pc' = "readcb" /\ UNCHANGED <<frames, is_first, l, size, message, effects>>
  BY DEF Arrive, reader, Decoded
<1>2. PICK q \in (arrived + 1)..Len(Stream) :
          /\ ~SplitsHeader(q) /\ ~SplitsError(q) /\ ~PipelinesError(arrived, q)
          /\ input' = input \o SubSeq(Stream, arrived + 1, q) /\ arrived' = q
  BY DEF Arrive
<1>3. FramesOK /\ Stream \in Seq(Byte) /\ Len(Stream) \in Nat /\ arrived \in Nat
  BY StreamIsSeq DEF Inv, TypeOK
<1>4. (\A i : End(i)' = End(i) /\ OwedFor(i)' = OwedFor(i)) /\ frames' = frames /\ Stream' = Stream
  BY <1>1, SameEnds
<1> DEFINE piece == SubSeq(Stream, arrived + 1, q)
<1>5. /\ piece \in Seq(Byte) /\ Len(piece) = q - arrived
      /\ \A i \in 1..Len(piece) : piece[i] = Stream[arrived + i]
  <2>1. arrived + 1 \in 1..(Len(Stream) + 1) /\ q \in 0..Len(Stream) /\ arrived + 1 <= q
    BY <1>3
  <2>2. /\ piece \in Seq(Byte) /\ Len(piece) = IF arrived + 1 <= q THEN q - (arrived + 1) + 1 ELSE 0
        /\ \A i \in 1..Len(piece) : piece[i] = Stream[arrived + 1 + i - 1]
    BY <1>3, <2>1, Piece
  <2>3. Len(piece) = q - arrived
    BY <1>3, <2>1, <2>2
  <2>4. \A i \in 1..Len(piece) : arrived + 1 + i - 1 = arrived + i
    BY <1>3
  <2>5. QED
    BY <2>2, <2>3, <2>4
<1>6. input' = piece
  BY <1>1, <1>2, <1>5
<1> HIDE DEF piece
<1>7. arrived' = q /\ Consumed' = arrived /\ Consumed = arrived /\ q \in Nat /\ q >= arrived
  BY <1>1, <1>2, <1>3, <1>5, <1>6 DEF Consumed
<1>8. Whole'
  BY <1>2, <1>4, <1>7 DEF Whole, SplitsHeader, SplitsError
<1>9. Buffered'
  <2>1. Len(piece) <= q
    BY <1>3, <1>5, <1>7
  <2>2. QED
    BY <1>4, <1>5, <1>6, <1>7, <2>1 DEF Buffered
<1>10. ErrorsAlone'
  <2>1. ASSUME NEW i \in 1..Len(frames), frames[i].type = 1, arrived < End(i) PROVE q <= End(i)
    <3>1. End(i) \in Nat
      BY <1>3, EndNext
    <3>2. ~(End(i) < q)
      BY <1>2, <2>1 DEF PipelinesError
    <3>3. QED
      BY <1>7, <3>1, <3>2
  <2>2. QED
    BY <1>4, <1>7, <2>1 DEF ErrorsAlone
<1>11. PICK k \in 0..Len(frames) : effects = OwedFor(k) /\ (Between(k) \/ Inside(k))
  BY <1>1 DEF Decoded, Place, AfterError
<1>12. Place(k)'
  <2>1. CASE Between(k)
    BY <1>1, <1>4, <1>7, <1>11, <2>1 DEF Place, Between
  <2>2. CASE Inside(k)
    BY <1>1, <1>4, <1>7, <1>11, <2>2 DEF Place, Inside
  <2>3. QED
    BY <1>11, <2>1, <2>2
<1>13. QED
  BY <1>1, <1>4, <1>8, <1>9, <1>10, <1>12 DEF Decoded

(* A connection begins with the reader between frames.                     *)
Fresh ==
    /\ FramesOK /\ arrived = 0 /\ input = <<>> /\ effects = <<>>
    /\ is_first = TRUE /\ l = 0 /\ pc = "dispatch"

LEMMA FreshDecodes == Fresh => Decoded
<1> SUFFICES ASSUME Fresh PROVE Decoded
  OBVIOUS
<1>1. FramesOK /\ Len(frames) \in Nat /\ Consumed = 0
  <2>1. FramesOK /\ arrived = 0 /\ input = <<>> /\ Len(<<>>) = 0
    BY DEF Fresh
  <2>2. Consumed = 0
    <3> DEFINE n == Len(input)
    <3>1. n = 0 /\ Consumed = arrived - n
      BY <2>1 DEF Consumed
    <3> HIDE DEF n
    <3>2. QED
      BY <2>1, <3>1
  <2>3. QED
    BY <2>1, <2>2, EndIs
<1>2. ASSUME NEW i \in 1..Len(frames) PROVE End(i) \in Nat /\ End(i - 1) \in Nat
  BY <1>1, EndNext
<1>3. Whole
  BY <1>2 DEF Whole, SplitsHeader, SplitsError, Fresh
<1>4. Buffered /\ ErrorsAlone
  BY <1>2 DEF Buffered, ErrorsAlone, Fresh
<1>5. 0 \in 0..Len(frames) /\ Place(0)
  BY <1>1, EndIs, OwedForIs DEF Place, Between, Fresh
<1>6. QED
  BY <1>3, <1>4, <1>5 DEF Decoded, Fresh

(* A connection that did not cut a frame left the reader between frames.   *)
LEMMA LeftBetween ==
    ASSUME Inv, Decoded, pc = "dispatch", ~CutsFrame
    PROVE  is_first = TRUE /\ l = 0
<1>1. FramesOK /\ Len(frames) \in Nat /\ arrived \in Nat /\ is_first \in BOOLEAN /\ l \in Nat /\ Width \in Nat
  BY EndIs, WireAssumption DEF Inv, TypeOK
<1>2. input = <<>> /\ Consumed = arrived
  BY <1>1 DEF Decoded, Consumed
<1>3. PICK k \in 0..Len(frames) : Between(k) \/ Inside(k)
  BY DEF Decoded, Place, AfterError
<1>4. PICK i \in 0..Len(frames) : arrived = End(i)
  BY DEF CutsFrame
<1>5. ~Inside(k)
  <2> SUFFICES ASSUME Inside(k) PROVE FALSE
    OBVIOUS
  <2>1. k < Len(frames) /\ l < FrameSize(frames[k + 1]) /\ End(i) = End(k) + Width + l
    BY <1>2, <1>4 DEF Inside
  <2>2. k + 1 \in 1..Len(frames) /\ (k + 1) - 1 = k /\ k + 1 \in 0..Len(frames)
    BY <1>1, <2>1
  <2>3. End(k + 1) = End(k) + Width + FrameSize(frames[k + 1]) /\ FrameSize(frames[k + 1]) \in Nat
    BY <1>1, <2>2, EndIs, FrameIs
  <2>4. End(k) \in Nat /\ End(i) \in Nat /\ End(k + 1) \in Nat
    BY <1>1, <2>2, EndIs
  <2>5. End(k) < End(i) /\ End(i) < End(k + 1)
    BY <1>1, <2>1, <2>3, <2>4, WireAssumption
  <2>6. CASE i <= k
    <3>1. End(i) <= End(k)
      BY <1>1, <2>6, EndGrows
    <3>2. QED
      BY <2>4, <2>5, <3>1
  <2>7. CASE k + 1 <= i
    <3>1. End(k + 1) <= End(i)
      BY <1>1, <2>2, <2>7, EndGrows
    <3>2. QED
      BY <2>4, <2>5, <3>1
  <2>8. QED
    BY <1>1, <2>6, <2>7
<1>6. QED
  BY <1>1, <1>3, <1>5 DEF Between

LEMMA DecodesStep == Inv /\ NsqdFrames /\ Decodes /\ [Next]_vars => Decodes'
<1>1. (Fresh => Decoded)'
  BY FreshDecodes, PTL
<1> SUFFICES ASSUME Inv, NsqdFrames, Decodes, [Next]_vars PROVE Decodes'
  OBVIOUS
<1>2. hazards' = hazards
  BY DEF Next, Arrive, Reconnect, Respawn, NewConnection, readcb, ReadcbPartial, ReadcbResponse, ReadcbMessage,
         ReadcbOther, ReadcbOverrun, ReadcbAllocFails, ReadcbFrame, vars
<1> SUFFICES ASSUME hazards = {} PROVE Decoded'
  BY <1>2 DEF Decodes
<1>3. Decoded
  BY DEF Decodes
<1>4. ASSUME NewConnection, is_first' = TRUE, l' = 0 PROVE Decoded'
  <2>1. FramesOK'
    BY <1>4, BoundedAreFrames DEF NewConnection, FramesOK
  <2>2. Fresh'
    BY <1>4, <2>1 DEF NewConnection, Fresh
  <2>3. QED
    BY <1>1, <2>2
<1>5. CASE Arrive
  BY <1>3, <1>5, ArriveDecodes
<1>6. CASE Reconnect
  <2>1. NewConnection /\ pc = "dispatch" /\ is_first' = is_first /\ l' = l /\ ~CutsFrame
    BY <1>6 DEF Reconnect, reader
  <2>2. is_first = TRUE /\ l = 0
    BY <1>3, <2>1, LeftBetween
  <2>3. QED
    BY <1>4, <2>1, <2>2
<1>7. CASE Respawn
  BY <1>3, <1>7 DEF Respawn, Decoded
<1>8. CASE readcb
  BY <1>3, <1>8, ReadcbDecodes
<1>9. CASE UNCHANGED vars
  <2>1. UNCHANGED <<frames, arrived, input, is_first, l, size, message, pc, effects>>
    BY <1>9 DEF vars, reader
  <2>2. (\A i : End(i)' = End(i) /\ OwedFor(i)' = OwedFor(i)) /\ Stream' = Stream /\ Consumed' = Consumed
    BY <2>1, SameEnds DEF Consumed
  <2>3. PICK k \in 0..Len(frames) : Place(k)
    BY <1>3 DEF Decoded
  <2>4. Place(k)'
    BY <2>1, <2>2, <2>3 DEF Place, Between, Inside, AfterError
  <2>5. Whole' /\ Buffered' /\ ErrorsAlone'
    BY <1>3, <2>1, <2>2 DEF Decoded, Whole, SplitsHeader, SplitsError, Buffered, ErrorsAlone
  <2>6. QED
    BY <1>3, <2>1, <2>4, <2>5 DEF Decoded
<1>10. QED
  BY <1>5, <1>6, <1>7, <1>8, <1>9 DEF Next

LEMMA DecodedIsFaithful == Inv /\ Decodes => FaithfulDecoding
<1> SUFFICES ASSUME Inv, Decodes, hazards = {}
             PROVE  /\ pc # "exited" /\ IsPrefix(effects, OwedEffects)
                    /\ pc = "dispatch" => effects = OwedEffects
  BY DEF FaithfulDecoding
<1>1. Decoded /\ FramesOK /\ arrived \in Nat /\ arrived <= Len(Stream) /\ Len(frames) \in Nat
  BY StreamIsSeq, EndIs DEF Decodes, Inv, TypeOK
<1>2. PICK k \in 0..Len(frames) : Place(k)
  BY <1>1 DEF Decoded
<1>3. effects = OwedFor(k) /\ l \in Nat /\ Len(input) \in Nat /\ Len(input) <= arrived /\ Width \in Nat
  BY <1>2, WireAssumption DEF Place, Inv, TypeOK, Decodes, Decoded, Buffered
<1>4. PICK m \in 0..Len(frames) : End(m) <= arrived /\ (m < Len(frames) => arrived < End(m + 1))
  BY <1>1, LastArrived
<1>5. OwedEffects = OwedFor(m)
  BY <1>1, <1>4, ArrivedAre
<1>6. End(k) <= Consumed /\ End(k) \in Nat
  <2>1. End(k) \in Nat
    BY <1>1, EndIs
  <2>2. QED
    BY <1>2, <1>3, <2>1 DEF Place, Between, Inside, AfterError
<1>7. k <= m
  <2> SUFFICES ASSUME m < k PROVE FALSE
    BY <1>1
  <2>1. m + 1 \in 0..Len(frames) /\ m + 1 <= k /\ m < Len(frames)
    BY <1>1
  <2>2. End(m + 1) <= End(k) /\ End(m + 1) \in Nat
    BY <1>1, <2>1, EndGrows, EndIs
  <2>3. End(k) <= arrived
    BY <1>1, <1>3, <1>6 DEF Consumed
  <2>4. QED
    BY <1>1, <1>4, <1>6, <2>1, <2>2, <2>3
<1>8. IsPrefix(effects, OwedEffects)
  BY <1>1, <1>3, <1>5, <1>7, OwedPrefix
<1>9. ASSUME pc = "dispatch" PROVE effects = OwedEffects
  <2>1. Consumed = arrived
    BY <1>1, <1>9 DEF Decoded, Consumed
  <2>2. k < Len(frames) => arrived < End(k + 1)
    <3> SUFFICES ASSUME k < Len(frames) PROVE arrived < End(k + 1)
      OBVIOUS
    <3>1. k + 1 \in 1..Len(frames) /\ (k + 1) - 1 = k
      BY <1>1
    <3>2. End(k + 1) > End(k) /\ End(k + 1) \in Nat
      BY <1>1, <3>1, EndNext
    <3>3. End(k + 1) = End(k) + Width + FrameSize(frames[k + 1]) /\ FrameSize(frames[k + 1]) \in Nat
      BY <1>1, <3>1, EndIs, FrameIs
    <3>4. CASE Between(k)
      BY <2>1, <3>2, <3>4 DEF Between
    <3>5. CASE Inside(k)
      BY <1>3, <1>6, <2>1, <3>3, <3>5 DEF Inside
    <3>6. QED
      BY <1>2, <1>9, <3>4, <3>5 DEF Place, AfterError
  <2>3. OwedEffects = OwedFor(k)
    <3>1. End(k) <= arrived
      BY <1>6, <2>1
    <3>2. QED
      BY <1>1, <2>2, <3>1, ArrivedAre
  <2>4. QED
    BY <1>3, <2>3
<1>10. pc # "exited"
  BY <1>1 DEF Decoded
<1>11. QED
  BY <1>8, <1>9, <1>10

(* Whatever frames an nsqd that keeps to its protocol sends, and however   *)
(* they are cut apart on the way, headers and errors excepted: readcb      *)
(* (sub.c:265-384) answers and enqueues what they ask for, once, in order, *)
(* with nsqd's bytes, and no later than it returns.                        *)
THEOREM DecodesFaithfully == NsqdFrames => (Spec => []FaithfulDecoding)
<1> SUFFICES ASSUME NsqdFrames PROVE Spec => []FaithfulDecoding
  OBVIOUS
<1>1. Init => Decodes
  <2>1. Init => Fresh
    BY InvInit DEF Init, Fresh, Inv
  <2>2. QED
    BY <2>1, FreshDecodes DEF Decodes
<1>2. Inv /\ Decodes /\ [Next]_vars => (Inv /\ Decodes)'
  BY InvStep, DecodesStep
<1>3. QED
  BY <1>1, <1>2, InvInit, DecodedIsFaithful, PTL DEF Spec
==============================================================================
