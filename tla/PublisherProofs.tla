--------------------------- MODULE PublisherProofs ---------------------------
(***************************************************************************)
(* What the three results of publish() say, for every number of messages   *)
(* and heartbeats: "Pub lost connection" is thrown only on a connection    *)
(* nsqd has closed, with any of the hazards; with whole frames and whole   *)
(* sends, true means that nsqd has the message, false that it refused it,  *)
(* and heartbeats are answered.                                            *)
(***************************************************************************)
EXTENDS Publisher, WireProofs

(* Every call has one result, and what it may be. *)
ResultsOK == results \in [Message -> {"none", "true", "false", "exception"}] /\ calls \in Nat

Inv == ResultsOK /\ ExceptionMeansClosed

(* A call that returns anything else changes no other's result. *)
LEMMA ReturnKeeps ==
    ASSUME ResultsOK, NEW ret \in {"true", "false", "exception"}, Return(ret), UNCHANGED calls
    PROVE  /\ ResultsOK'
           /\ \A m \in Message : results'[m] = results[m] \/ results'[m] = ret
  BY DEF ResultsOK, Return

(* true and false are no exceptions. *)
LEMMA ReturnOther ==
    ASSUME Inv, NEW ret \in {"true", "false"}, Return(ret), UNCHANGED <<calls, open>>
    PROVE  Inv'
<1>1. ResultsOK' /\ \A m \in Message : results'[m] = "exception" => results[m] = "exception"
  BY ReturnKeeps DEF Inv
<1>2. QED
  BY <1>1 DEF Inv, ExceptionMeansClosed

LEMMA NothingReturned ==
    ASSUME Inv, UNCHANGED results, calls' \in Nat, ~open => ~open'
    PROVE  Inv'
  BY DEF Inv, ResultsOK, ExceptionMeansClosed

LEMMA PublisherStepKeeps == Inv /\ PublisherStep => Inv'
<1> SUFFICES ASSUME Inv, PublisherStep PROVE Inv'
  OBVIOUS
<1>0. calls \in Nat
  BY DEF Inv, ResultsOK
<1>1. CASE LostConnection
  <2>1. ResultsOK' /\ \A m \in Message : results'[m] = results[m] \/ results'[m] = "exception"
    BY <1>1, ReturnKeeps DEF LostConnection, Inv
  <2>2. ~open' /\ ~open
    BY <1>1 DEF LostConnection, Eof, nsqd
  <2>3. QED
    BY <2>1, <2>2 DEF Inv, ExceptionMeansClosed
<1>2. CASE ReadSize \/ ReadMore \/ ReadOverrun
  BY <1>0, <1>2, NothingReturned DEF ReadSize, ReadMore, ReadOverrun, nsqd
<1>3. CASE ReplyOk
  <2>1. Return("true") /\ UNCHANGED <<calls, open>>
    BY <1>3 DEF ReplyOk, ReadWhole, nsqd
  <2>2. QED
    BY <2>1, ReturnOther
<1>4. CASE ReplyHeartbeat
  BY <1>0, <1>4, NothingReturned DEF ReplyHeartbeat, ReadWhole, nsqd
<1>5. CASE ReplyOther
  <2>1. Return("false") /\ UNCHANGED <<calls, open>>
    BY <1>5 DEF ReplyOther, ReadWhole, nsqd
  <2>2. QED
    BY <2>1, ReturnOther
<1>6. QED
  BY <1>1, <1>2, <1>3, <1>4, <1>5 DEF PublisherStep

(* nsqd's end is never opened again: a new connection is a new property,   *)
(* which is Connector's.                                                   *)
LEMMA NsqdKeeps == Inv /\ (NsqdStep \/ NsqdBeats \/ NsqdCloses \/ Arrive) => Inv'
<1> SUFFICES ASSUME Inv, NsqdStep \/ NsqdBeats \/ NsqdCloses \/ Arrive PROVE Inv'
  OBVIOUS
<1>0. calls \in Nat
  BY DEF Inv, ResultsOK
<1>1. CASE NsqdStep
  <2>1. UNCHANGED <<calls, results>>
    BY <1>1 DEF NsqdStep
  <2>2. ~open => ~open'
    BY <1>1 DEF NsqdStep
  <2>3. QED
    BY <1>0, <2>1, <2>2, NothingReturned
<1>2. CASE NsqdBeats \/ NsqdCloses
  BY <1>0, <1>2, NothingReturned DEF NsqdBeats, NsqdCloses, Hangup
<1>3. CASE Arrive
  BY <1>0, <1>3, NothingReturned DEF Arrive, nsqd
<1>4. QED
  BY <1>1, <1>2, <1>3

LEMMA InvInit == Init => Inv
  BY DEF Init, Inv, ResultsOK, ExceptionMeansClosed

LEMMA InvStep == Inv /\ [Next]_vars => Inv'
<1> SUFFICES ASSUME Inv, [Next]_vars PROVE Inv'
  OBVIOUS
<1>1. CASE publish \/ deferredPublish
  <2>1. calls' = calls + 1 /\ UNCHANGED <<results, open>>
    BY <1>1 DEF publish, deferredPublish, Call, nsqd
  <2>2. QED
    BY <2>1, NothingReturned DEF Inv, ResultsOK
<1>2. CASE UNCHANGED vars
  <2>1. UNCHANGED <<calls, results, open>>
    BY <1>2 DEF vars, nsqd
  <2>2. QED
    BY <2>1, NothingReturned DEF Inv, ResultsOK
<1>3. QED
  BY <1>1, <1>2, PublisherStepKeeps, NsqdKeeps DEF Next

(* A call throws "Pub lost connection" only once nsqd has closed its end   *)
(* (pub.c:201-205, 277-281).                                               *)
THEOREM ExceptionIsHonest == Spec => []ExceptionMeansClosed
  BY InvInit, InvStep, PTL DEF Spec, Inv

-----------------------------------------------------------------------------
(* The frames nsqd sends. *)

Frame == {Ok, Heartbeat, Error}

LEMMA FrameIs ==
    ASSUME NEW f \in Frame
    PROVE  /\ f.type \in 0..2 /\ f.data \in Seq(Byte) /\ FrameSize(f) \in Nat /\ FrameSize(f) >= Width
           /\ Fits(f.type) /\ Fits(FrameSize(f))
           /\ Encode(f) \in Seq(Byte) /\ Len(Encode(f)) = Width + FrameSize(f)
           /\ \A i \in 1..Width : Encode(f)[i] = Digits(FrameSize(f))[i]
           /\ \A i \in 1..Width : Encode(f)[Width + i] = Digits(f.type)[i]
           /\ \A i \in 1..Len(f.data) : Encode(f)[Width + Width + i] = f.data[i]
  BY EncodingIs, PublisherAssumption DEF Frame

-----------------------------------------------------------------------------
(* Frames one after the other. *)

(* The first s frames of line, and nothing else, are these bytes. *)
Encoded(line, s) == [i \in 1..s |-> Encode(line[i])]
Fills(bytes, line, s) == bytes = FlattenSeq(Encoded(line, s))

LEMMA EncodeIs ==
    ASSUME NEW f \in Frame
    PROVE  /\ Encode(f) \in Seq(Byte) /\ Len(Encode(f)) = Width + FrameSize(f)
           /\ Len(Encode(f)) \in Nat /\ Len(Encode(f)) > 0 /\ FrameSize(f) \in Nat /\ Width \in Nat
<1>1. Encode(f) \in Seq(Byte) /\ Len(Encode(f)) = Width + FrameSize(f) /\ FrameSize(f) \in Nat
  BY FrameIs
<1>2. QED
  BY <1>1, WireAssumption

LEMMA EncodedAre ==
    ASSUME NEW line \in Seq(Frame), NEW s \in 0..Len(line)
    PROVE  /\ Encoded(line, s) \in [1..s -> Seq(Byte)] /\ s \in Nat
           /\ \A i \in 1..s : Encoded(line, s)[i] = Encode(line[i]) /\ line[i] \in Frame
<1>1. \A i \in 1..s : line[i] \in Frame
  OBVIOUS
<1>2. \A i \in 1..s : Encode(line[i]) \in Seq(Byte)
  BY <1>1, EncodeIs
<1>3. QED
  BY <1>1, <1>2 DEF Encoded

LEMMA NothingFills ==
    ASSUME NEW line \in Seq(Frame)
    PROVE  Fills(<<>>, line, 0)
<1>1. Encoded(line, 0) = [i \in 1..0 |-> <<>>]
  BY DEF Encoded
<1>2. QED
  BY <1>1, NothingFlat, Zenon DEF Fills

(* A line goes on behind the frames that are there. *)
LEMMA FillsAnyway ==
    ASSUME NEW bytes \in Seq(Byte), NEW line \in Seq(Frame), NEW s \in 0..Len(line), Fills(bytes, line, s),
           NEW f \in Frame
    PROVE  Fills(bytes, Append(line, f), s) /\ s \in 0..Len(Append(line, f))
<1>1. (\A i \in 1..s : Append(line, f)[i] = line[i]) /\ s \in 0..Len(Append(line, f))
  OBVIOUS
<1>2. Encoded(Append(line, f), s) = Encoded(line, s)
  BY <1>1 DEF Encoded
<1>3. QED
  BY <1>1, <1>2 DEF Fills

(* One more frame arrives. *)
LEMMA FillsMore ==
    ASSUME NEW bytes \in Seq(Byte), NEW line \in Seq(Frame), NEW s \in 0..Len(line), s < Len(line),
           Fills(bytes, line, s)
    PROVE  Fills(bytes \o Encode(line[s + 1]), line, s + 1)
<1>1. s + 1 \in 0..Len(line) /\ line[s + 1] \in Frame
  OBVIOUS
<1> DEFINE more == Encoded(line, s + 1)
           these == Encoded(line, s)
           E == Encode(line[s + 1])
<1>2. OneMore(s, these, E, more)
  <2>1. these \in [1..s -> Seq(Byte)] /\ s \in Nat /\ \A i \in 1..s : these[i] = Encode(line[i])
    BY EncodedAre
  <2>2. more \in [1..(s + 1) -> Seq(Byte)] /\ \A i \in 1..(s + 1) : more[i] = Encode(line[i])
    BY <1>1, EncodedAre
  <2>3. E \in Seq(Byte)
    BY <1>1, EncodeIs
  <2> HIDE DEF these, more
  <2>4. QED
    BY <2>1, <2>2, <2>3 DEF OneMore
<1> HIDE DEF more, these, E
<1>3. FlattenSeq(more) = FlattenSeq(these) \o E
  BY <1>2, FlattenMore, Zenon
<1>4. QED
  BY <1>3 DEF Fills, more, these, E

(* The first frame, and what is behind it. *)
LEMMA FillsFirst ==
    ASSUME NEW bytes \in Seq(Byte), NEW line \in Seq(Frame), NEW s \in 1..Len(line), Fills(bytes, line, s)
    PROVE  \E rest \in Seq(Byte) : bytes = Encode(line[1]) \o rest /\ Fills(rest, Tail(line), s - 1)
<1> DEFINE these == Encoded(line, s)
           rest == FlattenSeq([i \in 1..(s - 1) |-> these[i + 1]])
<1>1. /\ these \in [1..s -> Seq(Byte)] /\ s \in Nat \ {0} /\ these[1] = Encode(line[1])
      /\ \A i \in 1..(s - 1) : these[i + 1] = Encode(Tail(line)[i])
  <2>1. s \in 0..Len(line) /\ 1 \in 1..s /\ s \in Nat \ {0}
    OBVIOUS
  <2>2. \A i \in 1..(s - 1) : i + 1 \in 1..s /\ Tail(line)[i] = line[i + 1]
    OBVIOUS
  <2>3. these \in [1..s -> Seq(Byte)] /\ \A i \in 1..s : these[i] = Encode(line[i])
    BY <2>1, EncodedAre
  <2> HIDE DEF these
  <2>4. QED
    BY <2>1, <2>2, <2>3
<1>2. [i \in 1..(s - 1) |-> these[i + 1]] = Encoded(Tail(line), s - 1)
  <2> HIDE DEF these
  <2>1. QED
    BY <1>1 DEF Encoded
<1>3. FlattenSeq(these) = these[1] \o rest /\ rest \in Seq(Byte)
  <2> HIDE DEF these
  <2>1. QED
    BY <1>1, FlattenFirst
<1>4. Fills(rest, Tail(line), s - 1)
  BY <1>2 DEF Fills
<1>5. bytes = FlattenSeq(these)
  BY DEF Fills
<1> HIDE DEF rest, these
<1>6. QED
  BY <1>1, <1>3, <1>4, <1>5

LEMMA FirstFrame ==
    ASSUME NEW bytes \in Seq(Byte), NEW line \in Seq(Frame), NEW s \in 1..Len(line), Fills(bytes, line, s)
    PROVE  /\ Len(bytes) >= Len(Encode(line[1])) /\ line[1] \in Frame
           /\ \A p \in 1..Len(Encode(line[1])) : bytes[p] = Encode(line[1])[p]
<1>1. line[1] \in Frame
  OBVIOUS
<1> DEFINE E == Encode(line[1])
<1>2. E \in Seq(Byte) /\ Len(E) \in Nat
  BY <1>1, EncodeIs
<1>3. PICK rest \in Seq(Byte) : bytes = E \o rest
  BY FillsFirst
<1> HIDE DEF E
<1>4. Len(bytes) >= Len(E) /\ \A p \in 1..Len(E) : bytes[p] = E[p]
  <2>1. Len(rest) \in Nat /\ Len(E \o rest) = Len(E) + Len(rest) /\ \A p \in 1..Len(E) : (E \o rest)[p] = E[p]
    BY <1>2, BytesJoined
  <2>2. QED
    BY <1>2, <1>3, <2>1
<1>5. QED
  BY <1>1, <1>4 DEF E

LEMMA NoneFill ==
    ASSUME NEW bytes \in Seq(Byte), NEW line \in Seq(Frame), NEW s \in 0..Len(line), Fills(bytes, line, s)
    PROVE  bytes = <<>> <=> s = 0
<1>1. ASSUME s = 0 PROVE bytes = <<>>
  BY <1>1, NothingFills DEF Fills
<1>2. ASSUME s # 0, bytes = <<>> PROVE FALSE
  <2>1. s \in 1..Len(line)
    BY <1>2
  <2>2. Len(bytes) >= Len(Encode(line[1])) /\ line[1] \in Frame
    BY <2>1, FirstFrame
  <2>3. QED
    BY <1>2, <2>2, EncodeIs
<1>3. QED
  BY <1>1, <1>2

(* The first frame is taken off. *)
LEMMA FillsRest ==
    ASSUME NEW bytes \in Seq(Byte), NEW line \in Seq(Frame), NEW s \in 1..Len(line), Fills(bytes, line, s),
           NEW rest \in Seq(Byte), Len(rest) = Len(bytes) - Len(Encode(line[1])),
           \A i \in 1..Len(rest) : rest[i] = bytes[Len(Encode(line[1])) + i]
    PROVE  Fills(rest, Tail(line), s - 1)
<1>1. line[1] \in Frame
  OBVIOUS
<1> DEFINE E == Encode(line[1])
<1>2. E \in Seq(Byte) /\ Len(E) \in Nat
  BY <1>1, EncodeIs
<1>3. PICK behind \in Seq(Byte) : bytes = E \o behind /\ Fills(behind, Tail(line), s - 1)
  BY FillsFirst
<1>4. Len(rest) = Len(bytes) - Len(E) /\ \A i \in 1..Len(rest) : rest[i] = bytes[Len(E) + i]
  OBVIOUS
<1> HIDE DEF E
<1>5. /\ Len(behind) \in Nat /\ Len(E \o behind) = Len(E) + Len(behind)
      /\ \A i \in 1..Len(behind) : (E \o behind)[Len(E) + i] = behind[i]
  BY <1>2, BytesJoined
<1>6. Len(rest) = Len(behind) /\ \A i \in 1..Len(rest) : rest[i] = behind[i]
  <2>1. Len(bytes) = Len(E) + Len(behind) /\ \A i \in 1..Len(behind) : bytes[Len(E) + i] = behind[i]
    BY <1>3, <1>5
  <2>2. Len(rest) = Len(behind)
    BY <1>2, <1>4, <1>5, <2>1
  <2>3. QED
    BY <1>4, <2>1, <2>2, Zenon
<1>7. rest = behind
  BY <1>6, SameBytes, Zenon
<1>8. QED
  BY <1>3, <1>7

-----------------------------------------------------------------------------
(* The commands on their way. *)

Units == [message : Nat, part : Nat]

(* No PUB is; the PUB of a call is, some of it taken, behind p NOPs. *)
Quiet(taken, units) == taken = <<>> /\ \A i \in 1..Len(units) : units[i] = Nop
Underway(p, call, taken, units) ==
    /\ Len(taken) < Parts /\ (taken # <<>> => p = 0)
    /\ \A i \in 1..Len(taken) : taken[i] = Unit(call, i)
    /\ p + Parts - Len(taken) <= Len(units)
    /\ \A i \in 1..Len(units) :
         units[i] = IF i \in (p + 1)..(p + Parts - Len(taken)) THEN Unit(call, Len(taken) + i - p) ELSE Nop

LEMMA UnitsAre ==
    /\ Nop \in Units /\ Nop.part = 0 /\ Parts \in Nat /\ Parts > 1
    /\ \A m \in Nat, i \in Nat : Unit(m, i) \in Units /\ Unit(m, i).message = m /\ Unit(m, i).part = i
    /\ \A m \in Nat, i \in Nat : i > 0 => Unit(m, i) # Nop
<1>1. Nop \in Units /\ Nop.part = 0
  BY DEF Nop, Unit, Units
<1>2. ASSUME NEW m \in Nat, NEW i \in Nat
      PROVE  Unit(m, i) \in Units /\ Unit(m, i).message = m /\ Unit(m, i).part = i
  BY DEF Unit, Units
<1>3. Parts \in Nat /\ Parts > 1
  BY PublisherAssumption
<1>4. QED
  BY <1>1, <1>2, <1>3

LEMMA PubIs ==
    ASSUME NEW call \in Nat
    PROVE  /\ Pub(call) \in Seq(Units) /\ Len(Pub(call)) = Parts
           /\ \A i \in 1..Parts : Pub(call)[i] = Unit(call, i)
  BY UnitsAre DEF Pub

LEMMA UnitsJoined ==
    ASSUME NEW s \in Seq(Units), NEW t \in Seq(Units)
    PROVE  /\ s \o t \in Seq(Units) /\ Len(s \o t) = Len(s) + Len(t)
           /\ \A i \in 1..Len(s) : (s \o t)[i] = s[i]
           /\ \A i \in 1..Len(t) : (s \o t)[Len(s) + i] = t[i]
  OBVIOUS

LEMMA OneNop == <<Nop>> \in Seq(Units) /\ Len(<<Nop>>) = 1 /\ <<Nop>>[1] = Nop
  BY UnitsAre

(* A NOP goes on behind anything. *)
LEMMA NopBehind ==
    ASSUME NEW units \in Seq(Units), NEW taken
    PROVE  /\ units \o <<Nop>> \in Seq(Units) /\ Len(units \o <<Nop>>) = Len(units) + 1
           /\ Quiet(taken, units) => Quiet(taken, units \o <<Nop>>)
           /\ \A p, call : taken \in Seq(Units) /\ p \in Nat /\ Underway(p, call, taken, units) =>
                 Underway(p, call, taken, units \o <<Nop>>)
<1> DEFINE more == units \o <<Nop>>
           n == Len(units)
<1>1. /\ more \in Seq(Units) /\ Len(more) = n + 1 /\ n \in Nat
      /\ (\A i \in 1..n : more[i] = units[i]) /\ more[n + 1] = Nop
  <2> DEFINE one == <<Nop>>
  <2>1. one \in Seq(Units) /\ Len(one) = 1 /\ one[1] = Nop
    BY OneNop
  <2> HIDE DEF one
  <2>2. /\ units \o one \in Seq(Units) /\ Len(units \o one) = Len(units) + Len(one)
        /\ \A i \in 1..Len(units) : (units \o one)[i] = units[i]
        /\ \A i \in 1..Len(one) : (units \o one)[Len(units) + i] = one[i]
    BY <2>1, UnitsJoined, Zenon
  <2>3. 1 \in 1..Len(one) /\ n \in Nat
    BY <2>1
  <2>4. (units \o one)[n + 1] = Nop
    BY <2>1, <2>2, <2>3
  <2>5. more = units \o one
    BY DEF one
  <2> HIDE DEF more
  <2>6. QED
    BY <2>1, <2>2, <2>3, <2>4, <2>5
<1> HIDE DEF more, n
<1>2. ASSUME Quiet(taken, units) PROVE Quiet(taken, more)
  BY <1>1, <1>2 DEF Quiet, n
<1>3. ASSUME NEW p, NEW call, taken \in Seq(Units), p \in Nat, Underway(p, call, taken, units)
      PROVE  Underway(p, call, taken, more)
  <2> DEFINE k == Len(taken)
  <2>1. k \in Nat /\ Parts \in Nat /\ k < Parts /\ p + Parts - k <= n
    BY <1>3, UnitsAre DEF Underway, n
  <2>2. ASSUME NEW i \in 1..n
        PROVE  units[i] = IF i \in (p + 1)..(p + Parts - k) THEN Unit(call, k + i - p) ELSE Nop
    BY <1>3 DEF Underway, n
  <2> HIDE DEF k
  <2>3. ASSUME NEW i \in 1..(n + 1)
        PROVE  more[i] = IF i \in (p + 1)..(p + Parts - k) THEN Unit(call, k + i - p) ELSE Nop
    <3>1. CASE i = n + 1
      <4>1. i \notin (p + 1)..(p + Parts - k)
        BY <1>1, <1>3, <2>1, <3>1
      <4>2. QED
        BY <1>1, <3>1, <4>1
    <3>2. CASE i # n + 1
      <4>1. i \in 1..n
        BY <1>1, <3>2
      <4>2. QED
        BY <1>1, <2>2, <4>1
    <3>3. QED
      BY <3>1, <3>2
  <2>4. p + Parts - k <= n + 1
    BY <1>1, <1>3, <2>1
  <2>5. QED
    BY <1>1, <1>3, <2>1, <2>3, <2>4 DEF Underway, k
<1>4. QED
  BY <1>1, <1>2, <1>3 DEF more, n

(* The command of a call goes on behind NOPs. *)
LEMMA PubBehind ==
    ASSUME NEW units \in Seq(Units), NEW call \in Nat, Quiet(<<>>, units)
    PROVE  /\ units \o Pub(call) \in Seq(Units) /\ Len(units) \in 0..Len(units \o Pub(call))
           /\ Underway(Len(units), call, <<>>, units \o Pub(call))
<1> DEFINE more == units \o Pub(call)
           n == Len(units)
<1>1. /\ more \in Seq(Units) /\ Len(more) = n + Parts /\ n \in Nat
      /\ \A i \in 1..n : more[i] = units[i]
      /\ \A i \in 1..Parts : more[n + i] = Unit(call, i)
  <2> DEFINE pub == Pub(call)
  <2>1. pub \in Seq(Units) /\ Len(pub) = Parts /\ \A i \in 1..Parts : pub[i] = Unit(call, i)
    BY PubIs
  <2> HIDE DEF pub
  <2>2. /\ units \o pub \in Seq(Units) /\ Len(units \o pub) = Len(units) + Len(pub)
        /\ \A i \in 1..Len(units) : (units \o pub)[i] = units[i]
        /\ \A i \in 1..Len(pub) : (units \o pub)[Len(units) + i] = pub[i]
    BY <2>1, UnitsJoined, Zenon
  <2>3. more = units \o pub
    BY DEF pub
  <2> HIDE DEF more
  <2>4. QED
    BY <2>1, <2>2, <2>3
<1>2. \A i \in 1..n : units[i] = Nop
  BY DEF Quiet
<1> HIDE DEF more, n
<1>3. Parts \in Nat /\ Parts > 1 /\ Len(<<>>) = 0
  BY UnitsAre
<1>4. ASSUME NEW i \in 1..(n + Parts)
      PROVE  more[i] = IF i \in (n + 1)..(n + Parts - 0) THEN Unit(call, 0 + i - n) ELSE Nop
  <2>1. CASE i <= n
    BY <1>1, <1>2, <1>3, <2>1
  <2>2. CASE i > n
    <3>1. i - n \in 1..Parts /\ n + (i - n) = i /\ 0 + i - n = i - n /\ i \in (n + 1)..(n + Parts - 0)
      BY <1>1, <1>3, <2>2
    <3>2. more[i] = Unit(call, i - n)
      BY <1>1, <3>1
    <3>3. QED
      BY <3>1, <3>2
  <2>3. QED
    BY <1>1, <1>3, <2>1, <2>2
<1>5. n + Parts - 0 <= n + Parts /\ n \in 0..(n + Parts) /\ \A i \in 1..0 : FALSE
  BY <1>1, <1>3
<1>6. Underway(n, call, <<>>, more)
  BY <1>1, <1>3, <1>4, <1>5 DEF Underway
<1>7. QED
  BY <1>1, <1>5, <1>6 DEF more, n

(* What nsqd takes from the front. *)
LEMMA TailOfUnits ==
    ASSUME NEW units \in Seq(Units), units # <<>>
    PROVE  /\ Tail(units) \in Seq(Units) /\ Len(Tail(units)) = Len(units) - 1 /\ Len(units) \in Nat /\ Len(units) > 0
           /\ Head(units) = units[1] /\ Head(units) \in Units
           /\ \A i \in 1..Len(Tail(units)) : Tail(units)[i] = units[i + 1]
  OBVIOUS

LEMMA QuietFront ==
    ASSUME NEW units \in Seq(Units), units # <<>>, NEW taken, Quiet(taken, units)
    PROVE  taken = <<>> /\ Head(units) = Nop /\ Quiet(taken, Tail(units))
<1>1. /\ Len(units) \in Nat /\ Len(units) > 0 /\ Head(units) = units[1]
      /\ Len(Tail(units)) = Len(units) - 1 /\ \A i \in 1..Len(Tail(units)) : Tail(units)[i] = units[i + 1]
  BY TailOfUnits
<1>2. \A i \in 1..Len(units) : units[i] = Nop
  BY DEF Quiet
<1>3. ASSUME NEW i \in 1..Len(Tail(units)) PROVE Tail(units)[i] = Nop
  BY <1>1, <1>2
<1>4. QED
  BY <1>1, <1>2, <1>3 DEF Quiet

LEMMA NopFront ==
    ASSUME NEW units \in Seq(Units), NEW taken \in Seq(Units), NEW call \in Nat, NEW p \in Nat, p > 0,
           Underway(p, call, taken, units)
    PROVE  units # <<>> /\ taken = <<>> /\ Head(units) = Nop /\ Underway(p - 1, call, taken, Tail(units))
           /\ p - 1 \in 0..Len(Tail(units))
<1> DEFINE n == Len(units)
<1>1. /\ Parts \in Nat /\ n \in Nat /\ taken = <<>> /\ Len(taken) = 0 /\ 0 < Parts /\ p + Parts - 0 <= n
  BY UnitsAre DEF Underway
<1>2. ASSUME NEW i \in 1..n
      PROVE  units[i] = IF i \in (p + 1)..(p + Parts - 0) THEN Unit(call, 0 + i - p) ELSE Nop
  BY <1>1 DEF Underway
<1>3. n > 0 /\ units # <<>>
  BY <1>1
<1>4. /\ Head(units) = units[1] /\ Len(Tail(units)) = n - 1
      /\ \A i \in 1..Len(Tail(units)) : Tail(units)[i] = units[i + 1]
  BY <1>3, TailOfUnits
<1> HIDE DEF n
<1>5. Head(units) = Nop
  <2>1. 1 \in 1..n /\ 1 \notin (p + 1)..(p + Parts - 0)
    BY <1>1, <1>3
  <2>2. QED
    BY <1>2, <1>4, <2>1
<1> DEFINE q == p - 1
<1>6. ASSUME NEW i \in 1..(n - 1)
      PROVE  Tail(units)[i] = IF i \in (q + 1)..(q + Parts - 0) THEN Unit(call, 0 + i - q) ELSE Nop
  <2>1. i + 1 \in 1..n /\ i \in 1..Len(Tail(units)) /\ 0 + (i + 1) - p = 0 + i - q
    BY <1>1, <1>4
  <2>2. i + 1 \in (p + 1)..(p + Parts - 0) <=> i \in (q + 1)..(q + Parts - 0)
    BY <1>1
  <2>3. Tail(units)[i] = units[i + 1]
    BY <1>4, <2>1
  <2> HIDE DEF q
  <2>4. QED
    BY <1>2, <2>1, <2>2, <2>3
<1>7. q \in Nat /\ q + Parts - 0 <= n - 1 /\ q \in 0..(n - 1)
  BY <1>1
<1> HIDE DEF q
<1>8. Underway(q, call, <<>>, Tail(units))
  BY <1>1, <1>4, <1>6, <1>7 DEF Underway
<1>9. QED
  BY <1>1, <1>3, <1>4, <1>5, <1>7, <1>8 DEF q

LEMMA PartFront ==
    ASSUME NEW units \in Seq(Units), NEW taken \in Seq(Units), NEW call \in Nat, Underway(0, call, taken, units)
    PROVE  /\ units # <<>> /\ Head(units) = Unit(call, Len(taken) + 1) /\ Append(taken, Head(units)) \in Seq(Units)
           /\ Len(taken) + 1 < Parts => Underway(0, call, Append(taken, Head(units)), Tail(units))
           /\ Len(taken) + 1 = Parts => /\ Append(taken, Head(units)) = Pub(call)
                                        /\ Quiet(<<>>, Tail(units))
<1> DEFINE n == Len(units)
           k == Len(taken)
<1>1. Parts \in Nat /\ n \in Nat /\ k \in Nat /\ k < Parts /\ 0 + Parts - k <= n
      /\ \A i \in 1..k : taken[i] = Unit(call, i)
  BY UnitsAre DEF Underway
<1>2. ASSUME NEW i \in 1..n
      PROVE  units[i] = IF i \in (0 + 1)..(0 + Parts - k) THEN Unit(call, k + i - 0) ELSE Nop
  BY DEF Underway
<1>3. n > 0 /\ units # <<>>
  BY <1>1
<1>4. /\ Head(units) = units[1] /\ Head(units) \in Units /\ Len(Tail(units)) = n - 1
      /\ \A i \in 1..Len(Tail(units)) : Tail(units)[i] = units[i + 1]
  BY <1>3, TailOfUnits
<1> DEFINE more == Append(taken, Head(units))
<1>5. /\ more \in Seq(Units) /\ Len(more) = k + 1 /\ more # <<>>
      /\ (\A i \in 1..k : more[i] = taken[i]) /\ more[k + 1] = Head(units)
  <2> DEFINE u == Head(units)
  <2>1. u \in Units
    BY <1>4
  <2> HIDE DEF u
  <2>2. /\ Append(taken, u) \in Seq(Units) /\ Len(Append(taken, u)) = Len(taken) + 1
        /\ \A i \in 1..Len(taken) : Append(taken, u)[i] = taken[i]
        /\ Append(taken, u)[Len(taken) + 1] = u
    BY <2>1
  <2>3. more # <<>>
    BY <1>1, <2>2 DEF u
  <2>4. QED
    BY <2>2, <2>3 DEF u
<1> HIDE DEF n, k, more
<1>6. Head(units) = Unit(call, k + 1)
  <2>1. 1 \in 1..n /\ 1 \in (0 + 1)..(0 + Parts - k) /\ k + 1 - 0 = k + 1
    BY <1>1, <1>3
  <2>2. QED
    BY <1>2, <1>4, <2>1
<1>7. \A i \in 1..(k + 1) : more[i] = Unit(call, i)
  <2>1. \A i \in 1..(k + 1) : i \in 1..k \/ i = k + 1
    BY <1>1
  <2>2. QED
    BY <1>1, <1>5, <1>6, <2>1
<1>8. ASSUME NEW i \in 1..(n - 1)
      PROVE  Tail(units)[i] = IF i \in 1..(Parts - (k + 1)) THEN Unit(call, (k + 1) + i) ELSE Nop
  <2>1. i + 1 \in 1..n /\ i \in 1..Len(Tail(units)) /\ k + (i + 1) - 0 = (k + 1) + i
    BY <1>1, <1>4
  <2>2. i + 1 \in (0 + 1)..(0 + Parts - k) <=> i \in 1..(Parts - (k + 1))
    BY <1>1
  <2>3. Tail(units)[i] = units[i + 1]
    BY <1>4, <2>1
  <2>4. QED
    BY <1>2, <2>1, <2>2, <2>3
<1>9. ASSUME k + 1 < Parts PROVE Underway(0, call, more, Tail(units))
  <2>1. 0 + Parts - (k + 1) <= n - 1
    BY <1>1
  <2>2. ASSUME NEW i \in 1..(n - 1)
        PROVE  Tail(units)[i] = IF i \in (0 + 1)..(0 + Parts - (k + 1)) THEN Unit(call, (k + 1) + i - 0) ELSE Nop
    <3>1. 0 + 1 = 1 /\ 0 + Parts - (k + 1) = Parts - (k + 1) /\ (k + 1) + i - 0 = (k + 1) + i
      BY <1>1
    <3>2. QED
      BY <1>8, <3>1
  <2>3. QED
    BY <1>4, <1>5, <1>7, <1>9, <2>1, <2>2 DEF Underway
<1>10. ASSUME k + 1 = Parts PROVE more = Pub(call) /\ Quiet(<<>>, Tail(units))
  <2>1. more = Pub(call)
    <3>1. Pub(call) \in Seq(Units) /\ Len(Pub(call)) = Parts /\ \A i \in 1..Parts : Pub(call)[i] = Unit(call, i)
      BY PubIs
    <3> DEFINE pub == Pub(call)
    <3> HIDE DEF pub
    <3>2. pub \in Seq(Units) /\ Len(pub) = Len(more) /\ \A i \in 1..Len(more) : more[i] = pub[i]
      BY <1>5, <1>7, <1>10, <3>1 DEF pub
    <3>3. more = pub
      BY <1>5, <3>2
    <3>4. QED
      BY <3>3 DEF pub
  <2>2. ASSUME NEW i \in 1..(n - 1) PROVE Tail(units)[i] = Nop
    <3>1. i \notin 1..(Parts - (k + 1))
      BY <1>1, <1>10
    <3>2. QED
      BY <1>8, <3>1
  <2>3. QED
    BY <1>4, <2>1, <2>2 DEF Quiet
<1>11. QED
  BY <1>3, <1>5, <1>6, <1>9, <1>10 DEF k, more

-----------------------------------------------------------------------------
(* How often something is in a sequence. *)

LEMMA TimesFacts ==
    ASSUME NEW S, NEW s \in Seq(S), NEW x
    PROVE  IsFiniteSet({i \in DOMAIN s : s[i] = x}) /\ Times(x, s) \in Nat
<1>1. IsFiniteSet(DOMAIN s)
  <2>1. DOMAIN s = 1..Len(s) /\ Len(s) \in Int
    OBVIOUS
  <2>2. QED
    BY <2>1, FS_Interval
<1>2. IsFiniteSet({i \in DOMAIN s : s[i] = x})
  BY <1>1, FS_Subset
<1>3. QED
  BY <1>2, FS_CardinalityType DEF Times

LEMMA TimesNothing == \A x : Times(x, <<>>) = 0
<1>1. ASSUME NEW x PROVE {i \in DOMAIN <<>> : <<>>[i] = x} = {}
  OBVIOUS
<1>2. QED
  BY <1>1, FS_EmptySet DEF Times

LEMMA TimesAppend ==
    ASSUME NEW S, NEW s \in Seq(S), NEW e \in S, NEW x
    PROVE  Times(x, Append(s, e)) = Times(x, s) + (IF e = x THEN 1 ELSE 0)
<1> DEFINE P == {i \in DOMAIN s : s[i] = x}
           Q == {i \in DOMAIN Append(s, e) : Append(s, e)[i] = x}
<1>1. /\ Len(s) \in Nat /\ DOMAIN s = 1..Len(s) /\ DOMAIN Append(s, e) = 1..(Len(s) + 1)
      /\ \A i \in 1..Len(s) : Append(s, e)[i] = s[i]
      /\ Append(s, e)[Len(s) + 1] = e
  OBVIOUS
<1>2. Len(s) + 1 \notin P /\ 1..(Len(s) + 1) = 1..Len(s) \cup {Len(s) + 1}
  BY <1>1
<1>3. Q = IF e = x THEN P \cup {Len(s) + 1} ELSE P
  BY <1>1, <1>2
<1>4. IsFiniteSet(P)
  BY TimesFacts
<1> HIDE DEF P, Q
<1>5. Cardinality(Q) = Cardinality(P) + (IF e = x THEN 1 ELSE 0)
  <2>1. Cardinality(P) \in Nat
    BY <1>4, FS_CardinalityType
  <2>2. \A y : y \notin P => Cardinality(P \cup {y}) = Cardinality(P) + 1
    BY <1>4, FS_AddElement
  <2>3. QED
    BY <1>2, <1>3, <2>1, <2>2
<1>6. QED
  BY <1>5 DEF Times, P, Q

LEMMA TimesTail ==
    ASSUME NEW S, NEW s \in Seq(S), s # <<>>, NEW x
    PROVE  Times(x, s) = Times(x, Tail(s)) + (IF Head(s) = x THEN 1 ELSE 0)
<1> DEFINE P == {i \in DOMAIN s : s[i] = x}
           Q == {i \in DOMAIN Tail(s) : Tail(s)[i] = x}
           f == [i \in Q |-> i + 1]
<1>1. /\ Len(s) \in Nat \ {0} /\ DOMAIN s = 1..Len(s) /\ DOMAIN Tail(s) = 1..(Len(s) - 1)
      /\ \A i \in 1..(Len(s) - 1) : Tail(s)[i] = s[i + 1]
      /\ Head(s) = s[1] /\ Tail(s) \in Seq(S)
  OBVIOUS
<1>2. IsFiniteSet(P) /\ IsFiniteSet(Q)
  BY <1>1, TimesFacts
<1>3. f \in Bijection(Q, P \ {1})
  <2>1. \A i \in Q : i \in 1..(Len(s) - 1) /\ i + 1 \in 1..Len(s) /\ i + 1 # 1
    BY <1>1
  <2>2. f \in [Q -> P \ {1}]
    BY <1>1, <2>1
  <2>3. \A i, j \in Q : f[i] = f[j] => i = j
    BY <2>1
  <2>4. \A j \in P \ {1} : j - 1 \in Q /\ f[j - 1] = j
    <3>1. ASSUME NEW j \in P \ {1} PROVE j - 1 \in 1..(Len(s) - 1) /\ Tail(s)[j - 1] = s[j] /\ s[j] = x
      BY <1>1
    <3>2. \A j \in P \ {1} : j - 1 \in Q /\ (j - 1) + 1 = j
      BY <1>1, <3>1
    <3>3. QED
      BY <3>2
  <2>5. QED
    BY <2>2, <2>3, <2>4 DEF Bijection, Injection, Surjection, IsInjective
<1>4. Cardinality(P \ {1}) = Cardinality(Q)
  BY <1>2, <1>3, FS_Bijection DEF ExistsBijection
<1>5. 1 \in P <=> Head(s) = x
  BY <1>1
<1> HIDE DEF P, Q
<1>6. Cardinality(P) = Cardinality(Q) + (IF Head(s) = x THEN 1 ELSE 0)
  <2>1. Cardinality(P) \in Nat /\ Cardinality(Q) \in Nat
    BY <1>2, FS_CardinalityType
  <2>2. Cardinality(P \ {1}) = IF 1 \in P THEN Cardinality(P) - 1 ELSE Cardinality(P)
    BY <1>2, FS_RemoveElement
  <2>3. QED
    BY <1>4, <1>5, <2>1, <2>2
<1>7. QED
  BY <1>6 DEF Times, P, Q

(* NOPs and the commands of publish() on their way. *)
LEMMA NopsOnTheWay ==
    ASSUME NEW units \in Seq(Units)
    PROVE  /\ Times(Nop, units) \in Nat
           /\ Times(Nop, units \o <<Nop>>) = Times(Nop, units) + 1
           /\ \A call \in Nat : Times(Nop, units \o Pub(call)) = Times(Nop, units)
           /\ units # <<>> => /\ Head(units) = Nop => Times(Nop, units) = Times(Nop, Tail(units)) + 1
                              /\ Head(units) # Nop => Times(Nop, units) = Times(Nop, Tail(units))
                              /\ Times(Nop, Tail(units)) \in Nat
<1>1. Times(Nop, units) \in Nat
  BY TimesFacts
<1>2. Times(Nop, units \o <<Nop>>) = Times(Nop, units) + 1
  <2>1. units \o <<Nop>> = Append(units, Nop) /\ Nop \in Units
    BY UnitsAre
  <2>2. Times(Nop, Append(units, Nop)) = Times(Nop, units) + 1
    BY <2>1, TimesAppend
  <2>3. QED
    BY <2>1, <2>2
<1>3. ASSUME NEW call \in Nat PROVE Times(Nop, units \o Pub(call)) = Times(Nop, units)
  <2> DEFINE pub == Pub(call)
  <2>1. pub \in Seq(Units) /\ Len(pub) = Parts /\ Parts \in Nat /\ \A i \in 1..Len(pub) : pub[i] # Nop
    <3>1. Parts \in Nat /\ \A i \in 1..Parts : i \in Nat /\ i > 0
      BY UnitsAre
    <3>2. \A i \in 1..Parts : Unit(call, i) # Nop
      BY <3>1, UnitsAre
    <3>3. QED
      BY <3>1, <3>2, PubIs
  <2> HIDE DEF pub
  <2> DEFINE all == units \o pub
  <2>2. /\ all \in Seq(Units) /\ Len(all) = Len(units) + Len(pub)
        /\ \A i \in 1..Len(units) : all[i] = units[i]
        /\ \A i \in 1..Len(pub) : all[Len(units) + i] = pub[i]
    BY <2>1, UnitsJoined, Zenon
  <2> HIDE DEF all
  <2>3. DOMAIN all = 1..(Len(units) + Parts) /\ DOMAIN units = 1..Len(units) /\ Len(units) \in Nat
    BY <2>1, <2>2
  <2>4. ASSUME NEW i \in 1..(Len(units) + Parts), i \notin 1..Len(units) PROVE all[i] # Nop
    <3>1. i - Len(units) \in 1..Len(pub) /\ Len(units) + (i - Len(units)) = i
      BY <2>1, <2>3, <2>4
    <3>2. all[Len(units) + (i - Len(units))] = pub[i - Len(units)] /\ pub[i - Len(units)] # Nop
      BY <2>1, <2>2, <3>1
    <3>3. QED
      BY <3>1, <3>2
  <2>5. \A i \in 1..Len(units) : i \in 1..(Len(units) + Parts)
    BY <2>1, <2>3
  <2>6. {i \in DOMAIN all : all[i] = Nop} = {i \in DOMAIN units : units[i] = Nop}
    BY <2>2, <2>3, <2>4, <2>5
  <2>7. QED
    BY <2>6 DEF Times, all, pub
<1>4. ASSUME units # <<>>
      PROVE  /\ Times(Nop, units) = Times(Nop, Tail(units)) + (IF Head(units) = Nop THEN 1 ELSE 0)
             /\ Times(Nop, Tail(units)) \in Nat
  <2>1. Tail(units) \in Seq(Units)
    BY <1>4
  <2>2. QED
    BY <1>4, <2>1, TimesFacts, TimesTail
<1>5. QED
  BY <1>1, <1>2, <1>3, <1>4

-----------------------------------------------------------------------------
(* Without hazards: what is between a call and its answer. *)

ConversationTypes ==
    /\ calls \in Nat /\ pc \in {"idle", "size", "body", "exited"}
    /\ toNsqd \in Seq(Units) /\ pending \in Seq(Units)
    /\ transit \in Seq(Seq(Byte)) /\ socket \in Seq(Byte)

(* line is the frames that have not been read, s of them in the socket; of *)
(* the first one, read() may have had the size.                            *)
Received == IF pc = "body" THEN Digits(msg_size) \o socket ELSE socket
Arriving(line, s) ==
    /\ Len(transit) = Len(line) - s
    /\ \A i \in 1..Len(transit) : transit[i] = Encode(line[s + i])
    /\ Fills(Received, line, s)
Reading(line, s) == pc = "body" => s > 0 /\ msg_size = FrameSize(line[1]) /\ l = 0

(* There is one answer in it at most, to the call that waits for it. *)
Beats(line) == \A i \in 1..Len(line) : line[i] = Heartbeat
Answers(line) ==
    /\ \A i, j \in 1..Len(line) : line[i] # Heartbeat /\ line[j] # Heartbeat => i = j
    /\ \A i \in 1..Len(line) : /\ line[i] # Heartbeat => pc # "idle"
                               /\ line[i] = Ok => calls \in stored
                               /\ line[i] = Error => calls \in refused

(* Either the PUB of the call is on its way, or its answer may be. *)
Commands(line) ==
    open => \/ Quiet(pending, toNsqd)
            \/ /\ pc # "idle" /\ Beats(line)
               /\ \E p \in 0..Len(toNsqd) : Underway(p, calls, pending, toNsqd)

Talk(line, s) ==
    /\ ConversationTypes /\ s \in 0..Len(line)
    /\ Arriving(line, s) /\ Reading(line, s) /\ Answers(line) /\ Commands(line)

LEMMA FramesDiffer ==
    /\ Ok.data = OkData /\ Heartbeat.data = HeartbeatData /\ Error.data = ErrorData
    /\ OkData # HeartbeatData /\ OkData # ErrorData /\ HeartbeatData # ErrorData
    /\ Ok # Heartbeat /\ Ok # Error /\ Heartbeat # Error
    /\ Ok \in Frame /\ Heartbeat \in Frame /\ Error \in Frame
<1>1. Ok.data = OkData /\ Heartbeat.data = HeartbeatData /\ Error.data = ErrorData
  BY DEF Ok, Heartbeat, Error
<1>2. ASSUME NEW a, NEW b PROVE Cardinality({a, b}) # 3
  <2>1. Cardinality({}) = 0 /\ IsFiniteSet({})
    BY FS_EmptySet
  <2>2. IsFiniteSet({a}) /\ Cardinality({a}) = 1
    BY FS_Singleton
  <2>3. {a, b} = {a} \cup {b}
    OBVIOUS
  <2>4. Cardinality({a} \cup {b}) \in {1, 2}
    BY <2>2, FS_AddElement
  <2>5. QED
    BY <2>3, <2>4
<1>3. OkData # HeartbeatData
  <2>1. ASSUME OkData = HeartbeatData PROVE FALSE
    <3>1. {OkData, HeartbeatData, ErrorData} = {OkData, ErrorData}
      BY <2>1
    <3>2. QED
      BY <1>2, <3>1, PublisherAssumption
  <2>2. QED
    BY <2>1
<1>4. OkData # ErrorData
  <2>1. ASSUME OkData = ErrorData PROVE FALSE
    <3>1. {OkData, HeartbeatData, ErrorData} = {OkData, HeartbeatData}
      BY <2>1
    <3>2. QED
      BY <1>2, <3>1, PublisherAssumption
  <2>2. QED
    BY <2>1
<1>5. HeartbeatData # ErrorData
  <2>1. ASSUME HeartbeatData = ErrorData PROVE FALSE
    <3>1. {OkData, HeartbeatData, ErrorData} = {OkData, HeartbeatData}
      BY <2>1
    <3>2. QED
      BY <1>2, <3>1, PublisherAssumption
  <2>2. QED
    BY <2>1
<1>6. Ok \in Frame /\ Heartbeat \in Frame /\ Error \in Frame
  BY DEF Frame
<1>7. QED
  BY <1>1, <1>3, <1>4, <1>5, <1>6

(* All of it is sent. *)
LEMMA SendsAll ==
    ASSUME hazards = {}, NEW units \in Seq(Units), Send(units)
    PROVE  toNsqd' = IF open THEN toNsqd \o units ELSE toNsqd
<1>1. SubSeq(units, 1, Len(units)) = units
  OBVIOUS
<1>2. QED
  BY <1>1 DEF Send

(* A frame is sent after those on their way. *)
LEMMA AnswerBehind ==
    ASSUME NEW line \in Seq(Frame), NEW s \in Nat, Talk(line, s), NEW frame \in Frame, Answer(frame),
           UNCHANGED <<pc, msg_size, l, socket>>
    PROVE  /\ Append(line, frame) \in Seq(Frame) /\ s \in 0..Len(Append(line, frame))
           /\ transit' \in Seq(Seq(Byte))
           /\ Arriving(Append(line, frame), s)' /\ Reading(Append(line, frame), s)'
<1> DEFINE more == Append(line, frame)
<1>1. /\ more \in Seq(Frame) /\ Len(more) = Len(line) + 1 /\ more[Len(line) + 1] = frame /\ Len(line) \in Nat
      /\ \A i \in 1..Len(line) : more[i] = line[i]
  OBVIOUS
<1>2. s \in 0..Len(line) /\ Arriving(line, s) /\ Reading(line, s) /\ ConversationTypes
  BY DEF Talk
<1> HIDE DEF more
<1>3. s \in 0..Len(more) /\ Fills(Received, more, s)
  <2>1. Received \in Seq(Byte)
    <3>1. pc = "body" => Digits(msg_size) \in Seq(Byte)
      <4>1. ASSUME pc = "body" PROVE Digits(msg_size) \in Seq(Byte)
        <5>1. msg_size = FrameSize(line[1]) /\ line[1] \in Frame
          BY <1>2, <4>1 DEF Reading
        <5>2. QED
          BY <5>1, EncodeIs, DigitsAre
      <4>2. QED
        BY <4>1
    <3>2. QED
      BY <1>2, <3>1 DEF Received, ConversationTypes
  <2>2. Fills(Received, line, s)
    BY <1>2 DEF Arriving
  <2>3. QED
    BY <1>2, <2>1, <2>2, FillsAnyway DEF more
<1>4. Received' = Received
  BY DEF Received
<1>5. /\ transit' \in Seq(Seq(Byte)) /\ Len(transit') = Len(transit) + 1
      /\ transit'[Len(transit) + 1] = Encode(frame) /\ \A i \in 1..Len(transit) : transit'[i] = transit[i]
  <2> DEFINE bytes == Encode(frame)
  <2>1. bytes \in Seq(Byte) /\ transit \in Seq(Seq(Byte)) /\ transit' = Append(transit, bytes)
    BY <1>2, EncodeIs DEF ConversationTypes, Answer
  <2> HIDE DEF bytes
  <2>2. QED
    BY <2>1 DEF bytes
<1>6. Len(transit) = Len(line) - s /\ \A i \in 1..Len(transit) : transit[i] = Encode(line[s + i])
  BY <1>2 DEF Arriving
<1>7. ASSUME NEW i \in 1..Len(transit') PROVE transit'[i] = Encode(more[s + i])
  <2>1. CASE i \in 1..Len(transit)
    <3>1. s + i \in 1..Len(line)
      BY <1>1, <1>2, <1>6, <2>1
    <3>2. QED
      BY <1>1, <1>5, <1>6, <2>1, <3>1
  <2>2. CASE i = Len(transit) + 1
    <3>1. s + i = Len(line) + 1
      BY <1>1, <1>2, <1>6, <2>2
    <3>2. QED
      BY <1>1, <1>5, <2>2, <3>1
  <2>3. QED
    BY <1>1, <1>2, <1>5, <1>6, <2>1, <2>2
<1>8. Arriving(more, s)'
  <2>1. Len(transit') = Len(more) - s
    BY <1>1, <1>2, <1>5, <1>6
  <2>2. Fills(Received', more, s)
    BY <1>3, <1>4
  <2>3. QED
    BY <1>7, <2>1, <2>2 DEF Arriving
<1>9. Reading(more, s)'
  <2>1. pc = "body" => more[1] = line[1]
    BY <1>1, <1>2 DEF Reading
  <2>2. QED
    BY <1>2, <2>1 DEF Reading
<1>10. QED
  BY <1>1, <1>3, <1>5, <1>8, <1>9 DEF more

LEMMA AppendIs ==
    ASSUME NEW line \in Seq(Frame), NEW frame \in Frame
    PROVE  /\ Len(Append(line, frame)) = Len(line) + 1 /\ Len(line) \in Nat
           /\ Append(line, frame)[Len(line) + 1] = frame
           /\ \A i \in 1..Len(line) : Append(line, frame)[i] = line[i]
           /\ \A i \in 1..Len(Append(line, frame)) : i \in 1..Len(line) \/ i = Len(line) + 1
  OBVIOUS

(* publish() sends its command when nothing but heartbeats is left. *)
LEMMA CallTalks ==
    ASSUME hazards = {}, NEW line \in Seq(Frame), NEW s \in Nat, Talk(line, s), Call
    PROVE  Talk(line, s)'
<1>1. /\ pc = "idle" /\ pc' = "size" /\ calls' = calls + 1 /\ Send(Pub(calls + 1))
      /\ UNCHANGED <<msg_size, l, transit, socket, open, pending, stored, refused>>
  BY DEF Call, reader, nsqd
<1>2. /\ ConversationTypes /\ s \in 0..Len(line)
      /\ Arriving(line, s) /\ Reading(line, s) /\ Answers(line) /\ Commands(line)
  BY DEF Talk
<1>3. Beats(line)
  BY <1>1, <1>2 DEF Beats, Answers
<1>4. calls + 1 \in Nat /\ Pub(calls + 1) \in Seq(Units)
  BY <1>2, PubIs DEF ConversationTypes
<1>5. toNsqd' = IF open THEN toNsqd \o Pub(calls + 1) ELSE toNsqd
  BY <1>1, <1>4, SendsAll
<1>6. ASSUME open
      PROVE  /\ toNsqd' \in Seq(Units) /\ pending = <<>> /\ Len(toNsqd) \in 0..Len(toNsqd')
             /\ Underway(Len(toNsqd), calls + 1, <<>>, toNsqd')
  <2>1. Quiet(pending, toNsqd)
    BY <1>1, <1>2, <1>6 DEF Commands
  <2>2. pending = <<>> /\ toNsqd \in Seq(Units)
    BY <1>2, <2>1 DEF Quiet, ConversationTypes
  <2>3. QED
    BY <1>4, <1>5, <1>6, <2>1, <2>2, PubBehind
<1>7. ConversationTypes'
  BY <1>1, <1>2, <1>4, <1>5, <1>6 DEF ConversationTypes
<1>8. Arriving(line, s)'
  <2>1. Received' = Received
    BY <1>1 DEF Received
  <2>2. QED
    BY <1>1, <1>2, <2>1 DEF Arriving
<1>9. Commands(line)'
  BY <1>1, <1>3, <1>6 DEF Commands, Beats
<1>10. Answers(line)' /\ Reading(line, s)'
  BY <1>1, <1>3, FramesDiffer DEF Answers, Beats, Reading
<1>11. QED
  BY <1>2, <1>7, <1>8, <1>9, <1>10 DEF Talk

(* read() returned 0: there is nothing left to read. *)
LEMMA LostTalks ==
    ASSUME NEW line \in Seq(Frame), NEW s \in Nat, Talk(line, s), LostConnection
    PROVE  Talk(line, s)'
<1>1. /\ pc = "size" /\ pc' = "idle" /\ ~open /\ transit = <<>> /\ socket = <<>>
      /\ UNCHANGED <<calls, msg_size, l, toNsqd, transit, socket, open, pending, stored, refused>>
  BY DEF LostConnection, Eof, Return, reader, connection, nsqd
<1>2. /\ ConversationTypes /\ s \in 0..Len(line)
      /\ Arriving(line, s) /\ Reading(line, s) /\ Answers(line) /\ Commands(line)
  BY DEF Talk
<1>3. Received' = Received /\ Received = <<>>
  BY <1>1 DEF Received
<1>4. s = 0
  <2>1. <<>> \in Seq(Byte) /\ Fills(<<>>, line, s)
    BY <1>2, <1>3 DEF Arriving
  <2>2. QED
    BY <1>2, <2>1, NoneFill
<1>5. Len(line) = 0
  BY <1>1, <1>2, <1>4 DEF Arriving
<1>6. ConversationTypes'
  BY <1>1, <1>2 DEF ConversationTypes
<1>7. Arriving(line, s)'
  BY <1>1, <1>2, <1>3 DEF Arriving
<1>8. Answers(line)' /\ Reading(line, s)' /\ Commands(line)'
  BY <1>1, <1>5 DEF Answers, Reading, Commands
<1>9. QED
  BY <1>2, <1>6, <1>7, <1>8 DEF Talk

(* A frame arrives. *)
LEMMA ArriveTalks ==
    ASSUME hazards = {}, NEW line \in Seq(Frame), NEW s \in Nat, Talk(line, s), Arrive
    PROVE  Talk(line, s + 1)'
<1> DEFINE bytes == Head(transit)
<1>1. /\ transit # <<>>
      /\ UNCHANGED <<calls, pc, msg_size, l, toNsqd, open, pending, stored, refused>>
  BY DEF Arrive, reader, nsqd
<1>2. /\ ConversationTypes /\ s \in 0..Len(line)
      /\ Arriving(line, s) /\ Reading(line, s) /\ Answers(line) /\ Commands(line)
  BY DEF Talk
<1>3. Len(transit) = Len(line) - s /\ \A i \in 1..Len(transit) : transit[i] = Encode(line[s + i])
  BY <1>2 DEF Arriving
<1>4. /\ Len(transit) \in Nat /\ Len(transit) > 0 /\ bytes = transit[1] /\ Len(line) \in Nat
      /\ Tail(transit) \in Seq(Seq(Byte)) /\ Len(Tail(transit)) = Len(transit) - 1
      /\ \A i \in 1..Len(Tail(transit)) : Tail(transit)[i] = transit[i + 1]
  BY <1>1, <1>2 DEF ConversationTypes
<1>5. s < Len(line) /\ s + 1 \in 1..Len(line) /\ line[s + 1] \in Frame
  BY <1>2, <1>3, <1>4
<1>6. bytes = Encode(line[s + 1])
  BY <1>3, <1>4
<1>7. bytes \in Seq(Byte) /\ Len(bytes) \in Nat /\ Len(bytes) > 0 /\ Width \in Nat
  BY <1>5, <1>6, EncodeIs
<1>8. socket' = socket \o bytes /\ transit' = Tail(transit)
  <2>1. PICK n \in 1..Len(bytes) :
          /\ n < Width => "split_size" \in hazards
          /\ n \in Width..(Len(bytes) - 1) => "split_body" \in hazards
          /\ socket' = socket \o SubSeq(bytes, 1, n)
          /\ transit' = IF n = Len(bytes) THEN Tail(transit)
                        ELSE <<SubSeq(bytes, n + 1, Len(bytes))>> \o Tail(transit)
    BY DEF Arrive
  <2>2. n = Len(bytes)
    BY <1>7, <2>1
  <2>3. SubSeq(bytes, 1, Len(bytes)) = bytes
    <3> HIDE DEF bytes
    <3>1. QED
      BY <1>7
  <2>4. QED
    BY <2>1, <2>2, <2>3
<1> HIDE DEF bytes
<1>9. Received \in Seq(Byte) /\ Received' = Received \o bytes
  <2>1. CASE pc = "body"
    <3> DEFINE d == Digits(msg_size)
    <3>1. msg_size = FrameSize(line[1]) /\ line[1] \in Frame
      BY <1>2, <2>1 DEF Reading
    <3>2. d \in Seq(Byte) /\ socket \in Seq(Byte)
      BY <1>2, <3>1, EncodeIs, DigitsAre DEF ConversationTypes
    <3>3. Received = d \o socket /\ Received' = d \o (socket \o bytes)
      BY <1>1, <1>8, <2>1 DEF Received
    <3> HIDE DEF d
    <3>4. d \o socket \in Seq(Byte) /\ d \o (socket \o bytes) = (d \o socket) \o bytes
      BY <1>7, <3>2
    <3>5. QED
      BY <3>3, <3>4
  <2>2. CASE pc # "body"
    BY <1>1, <1>2, <1>8, <2>2 DEF Received, ConversationTypes
  <2>3. QED
    BY <2>1, <2>2
<1>10. Fills(Received', line, s + 1)
  <2>1. Fills(Received, line, s)
    BY <1>2 DEF Arriving
  <2>2. Fills(Received \o Encode(line[s + 1]), line, s + 1)
    BY <1>2, <1>5, <1>9, <2>1, FillsMore
  <2>3. QED
    BY <1>6, <1>9, <2>2
<1>11. Arriving(line, s + 1)'
  <2>1. Len(transit') = Len(line) - (s + 1)
    BY <1>2, <1>3, <1>4, <1>8
  <2>2. ASSUME NEW i \in 1..Len(transit') PROVE transit'[i] = Encode(line[(s + 1) + i])
    <3>1. i + 1 \in 1..Len(transit) /\ s + (i + 1) = (s + 1) + i /\ i \in 1..Len(Tail(transit))
      BY <1>2, <1>4, <1>8
    <3>2. QED
      BY <1>3, <1>4, <1>8, <3>1
  <2>3. QED
    BY <1>10, <2>1, <2>2 DEF Arriving
<1>12. ConversationTypes'
  <2>1. socket' \in Seq(Byte)
    BY <1>2, <1>7, <1>8 DEF ConversationTypes
  <2>2. QED
    BY <1>1, <1>2, <1>4, <1>8, <2>1 DEF ConversationTypes
<1>13. Answers(line)' /\ Commands(line)'
  BY <1>1, <1>2 DEF Answers, Commands
<1>14. Reading(line, s + 1)' /\ s + 1 \in 0..Len(line)
  BY <1>1, <1>2, <1>5 DEF Reading
<1>15. QED
  BY <1>11, <1>12, <1>13, <1>14 DEF Talk

(* read() of a size gets the size of the first frame. *)
LEMMA ReadSizeTalks ==
    ASSUME NEW line \in Seq(Frame), NEW s \in Nat, Talk(line, s), ReadSize, pc' # "exited"
    PROVE  Talk(line, s)'
<1> DEFINE f == line[1]
<1>1. /\ pc = "size" /\ socket # <<>>
      /\ UNCHANGED <<calls, toNsqd, transit, open, pending, stored, refused>>
  BY DEF ReadSize, nsqd
<1>2. /\ ConversationTypes /\ s \in 0..Len(line)
      /\ Arriving(line, s) /\ Reading(line, s) /\ Answers(line) /\ Commands(line)
  BY DEF Talk
<1>3. socket \in Seq(Byte) /\ Fills(socket, line, s) /\ Len(socket) \in Nat
  BY <1>1, <1>2 DEF Arriving, Received, ConversationTypes
<1>4. s \in 1..Len(line)
  <2>1. s # 0
    BY <1>1, <1>2, <1>3, NoneFill
  <2>2. QED
    BY <1>2, <2>1
<1>5. /\ Len(socket) >= Len(Encode(f)) /\ f \in Frame
      /\ \A p \in 1..Len(Encode(f)) : socket[p] = Encode(f)[p]
  BY <1>3, <1>4, FirstFrame
<1>6. /\ Len(Encode(f)) = Width + FrameSize(f) /\ FrameSize(f) \in Nat /\ Width \in Nat
      /\ Fits(FrameSize(f)) /\ \A i \in 1..Width : Encode(f)[i] = Digits(FrameSize(f))[i]
  BY <1>5, EncodeIs, FrameIs
<1> DEFINE size == FrameSize(f)
           d == Digits(size)
<1>7. d \in Seq(Byte) /\ Len(d) = Width /\ SizeIn(d) = size
  BY <1>6, DigitsAre, SizeRead
<1>8. Width <= Len(socket)
  <2> DEFINE m == Len(Encode(f))
             k == Len(socket)
  <2>1. m = Width + size /\ size \in Nat /\ Width \in Nat /\ k >= m /\ k \in Nat
    BY <1>3, <1>5, <1>6
  <2> HIDE DEF m, size, k
  <2>2. Width <= k
    BY <2>1
  <2>3. QED
    BY <2>2 DEF k
<1>9. Least(Width, Len(socket)) = Width
  BY <1>8 DEF Least
<1> DEFINE head == SubSeq(socket, 1, Width)
           rest == SubSeq(socket, Width + 1, Len(socket))
<1>10. head = d
  <2>1. /\ head \in Seq(Byte) /\ Len(head) = IF 1 <= Width THEN Width - 1 + 1 ELSE 0
        /\ \A i \in 1..Len(head) : head[i] = socket[1 + i - 1]
    <3>1. 1 \in 1..(Len(socket) + 1) /\ Width \in 0..Len(socket)
      BY <1>3, <1>6, <1>8
    <3>2. QED
      BY <1>3, <3>1, Piece
  <2>2. Len(head) = Width
    BY <1>6, <2>1, WireAssumption
  <2> HIDE DEF head
  <2>3. ASSUME NEW i \in 1..Width PROVE head[i] = d[i]
    <3>1. 1 + i - 1 = i /\ i \in 1..Len(Encode(f))
      BY <1>6
    <3>2. QED
      BY <1>5, <1>6, <2>1, <2>2, <3>1
  <2> HIDE DEF d
  <2>4. QED
    BY <1>7, <2>1, <2>2, <2>3, SameBytes
<1>11. SizeIn(SubSeq(socket, 1, Least(Width, Len(socket)))) = size
  BY <1>7, <1>9, <1>10
<1>12. pc' = "body" /\ msg_size' = size /\ l' = 0 /\ socket' = rest
  BY <1>9, <1>11 DEF ReadSize
<1>13. rest \in Seq(Byte) /\ d \o rest = socket
  <2>1. /\ rest \in Seq(Byte) /\ Len(rest) = IF Width + 1 <= Len(socket) THEN Len(socket) - (Width + 1) + 1 ELSE 0
        /\ \A i \in 1..Len(rest) : rest[i] = socket[(Width + 1) + i - 1]
    <3>1. Width + 1 \in 1..(Len(socket) + 1) /\ Len(socket) \in 0..Len(socket)
      BY <1>3, <1>6, <1>8
    <3>2. QED
      BY <1>3, <3>1, Piece
  <2>2. Len(rest) = Len(socket) - Width
    BY <1>3, <1>6, <1>8, <2>1
  <2> HIDE DEF rest, d
  <2> DEFINE whole == d \o rest
  <2>3. /\ whole \in Seq(Byte) /\ Len(whole) = Len(d) + Len(rest)
        /\ \A i \in 1..Len(d) : whole[i] = d[i]
        /\ \A i \in 1..Len(rest) : whole[Len(d) + i] = rest[i]
    BY <1>7, <2>1, BytesJoined, Zenon
  <2> HIDE DEF whole
  <2>4. Len(whole) = Len(socket)
    BY <1>3, <1>6, <1>7, <2>2, <2>3
  <2>5. ASSUME NEW i \in 1..Len(whole) PROVE whole[i] = socket[i]
    <3>1. CASE i <= Width
      <4>1. i \in 1..Len(d) /\ i \in 1..Len(Encode(f)) /\ i \in 1..Width
        BY <1>6, <1>7, <3>1
      <4>2. QED
        BY <1>5, <1>6, <2>3, <4>1 DEF d
    <3>2. CASE i > Width
      <4>1. i - Width \in 1..Len(rest) /\ Len(d) + (i - Width) = i /\ (Width + 1) + (i - Width) - 1 = i
        BY <1>3, <1>6, <1>7, <2>2, <2>4, <3>2
      <4>2. QED
        BY <2>1, <2>3, <4>1
    <3>3. QED
      BY <1>6, <3>1, <3>2
  <2>6. whole = socket
    BY <1>3, <2>3, <2>4, <2>5, SameBytes
  <2>7. QED
    BY <2>1, <2>6 DEF whole
<1>14. Received' = socket
  BY <1>12, <1>13 DEF Received
<1>15. Arriving(line, s)'
  BY <1>1, <1>2, <1>3, <1>14 DEF Arriving
<1>16. ConversationTypes'
  BY <1>1, <1>2, <1>12, <1>13 DEF ConversationTypes
<1>17. Reading(line, s)'
  BY <1>4, <1>12 DEF Reading
<1>18. Answers(line)' /\ Commands(line)'
  BY <1>1, <1>2, <1>12 DEF Answers, Commands
<1>19. QED
  BY <1>2, <1>15, <1>16, <1>17, <1>18 DEF Talk

(* read() of a frame gets the whole of the first one, and no more. *)
LEMMA BodyRead ==
    ASSUME hazards = {}, NEW line \in Seq(Frame), NEW s \in Nat, Talk(line, s), pc = "body"
    PROVE  /\ s \in 1..Len(line) /\ line[1] \in Frame
           /\ ~ReadAgain(Read) /\ ~Overrun(Read) /\ Texts(Read.message) = {line[1].data}
           /\ Read.socket \in Seq(Byte) /\ Fills(Read.socket, Tail(line), s - 1)
<1> DEFINE f == line[1]
           E == Encode(f)
           d == Digits(msg_size)
           b == Received
           n == msg_size
<1>1. /\ ConversationTypes /\ s \in 1..Len(line) /\ n = FrameSize(f) /\ l = 0 /\ Fills(b, line, s)
  BY DEF Talk, Reading, Arriving
<1>2. f \in Frame
  BY <1>1
<1>3. /\ f.data \in Seq(Byte) /\ n \in Nat /\ n >= Width /\ Width \in Nat /\ Width > 0
      /\ n = Width + Len(f.data) /\ E \in Seq(Byte) /\ Len(E) = Width + n
      /\ \A i \in 1..Len(f.data) : E[Width + Width + i] = f.data[i]
  <2>1. /\ f.data \in Seq(Byte) /\ FrameSize(f) \in Nat /\ FrameSize(f) >= Width
        /\ E \in Seq(Byte) /\ Len(E) = Width + FrameSize(f)
        /\ \A i \in 1..Len(f.data) : E[Width + Width + i] = f.data[i]
    BY <1>2, FrameIs, Zenon
  <2>2. FrameSize(f) = Width + Len(f.data)
    BY DEF FrameSize
  <2> HIDE DEF f, E
  <2>3. n = FrameSize(f) /\ Width \in Nat /\ Width > 0
    BY <1>1, WireAssumption
  <2>4. QED
    BY <2>1, <2>2, <2>3
<1>4. /\ d \in Seq(Byte) /\ Len(d) = Width /\ socket \in Seq(Byte) /\ Len(socket) \in Nat
  BY <1>1, <1>3, DigitsAre DEF ConversationTypes
<1>5. /\ b \in Seq(Byte) /\ Len(b) = Width + Len(socket)
      /\ \A i \in 1..Len(socket) : b[Width + i] = socket[i]
  <2>1. b = d \o socket
    BY DEF Received
  <2> HIDE DEF d, b
  <2>2. /\ d \o socket \in Seq(Byte) /\ Len(d \o socket) = Len(d) + Len(socket)
        /\ \A i \in 1..Len(socket) : (d \o socket)[Len(d) + i] = socket[i]
    BY <1>4, BytesJoined, Zenon
  <2>3. QED
    BY <1>4, <2>1, <2>2
<1> HIDE DEF b
<1>6. Len(b) >= Len(E) /\ \A p \in 1..Len(E) : b[p] = E[p]
  BY <1>1, <1>5, FirstFrame
<1>7. n <= Len(socket)
  <2> DEFINE k == Len(socket)
             m == Len(b)
             e == Len(E)
  <2>1. m = Width + k /\ e = Width + n /\ m >= e /\ k \in Nat
    BY <1>3, <1>4, <1>5, <1>6
  <2> HIDE DEF k, m, e
  <2>2. n <= k
    BY <1>3, <2>1
  <2>3. QED
    BY <2>2 DEF k
<1>8. Least(msg_size, Len(socket)) = n
  BY <1>7 DEF Least
<1> DEFINE text == [i \in 1..n |-> socket[i]]
           rest == SubSeq(socket, n + 1, Len(socket))
<1>9. Read.l = n /\ Read.message = text /\ Read.socket = rest
  <2>1. 0 + n = n /\ ~(n = 0 /\ msg_size > 0 /\ ~Eof) /\ ~(0 + n > msg_size)
    BY <1>3
  <2>2. Read.l = n /\ Read.socket = rest
    BY <1>1, <1>8, <2>1 DEF Read
  <2>3. Read.message = [i \in 1..n |-> IF i \in (0 + 1)..(0 + n) THEN socket[i - 0] ELSE message[i]]
    BY <1>1, <1>8, <2>1 DEF Read
  <2>4. \A i \in 1..n : i \in (0 + 1)..(0 + n) /\ i - 0 = i
    BY <1>3
  <2>5. QED
    BY <2>2, <2>3, <2>4
<1>10. ~ReadAgain(Read)
  BY <1>3, <1>9 DEF ReadAgain
<1>11. text \in Seq(Byte) /\ Len(text) = n
  <2>1. \A i \in 1..n : i \in 1..Len(socket)
    BY <1>3, <1>4, <1>7
  <2>2. \A i \in 1..n : socket[i] \in Byte
    BY <1>4, <2>1
  <2>3. QED
    BY <1>3, <2>2
<1>12. ~Overrun(Read)
  BY <1>3, <1>9, <1>11 DEF Overrun
<1> HIDE DEF text
<1>13. SubSeq(text, Width + 1, Len(text)) = f.data
  <2> DEFINE sub == SubSeq(text, Width + 1, Len(text))
             data == f.data
  <2>1. /\ sub \in Seq(Byte) /\ Len(sub) = IF Width + 1 <= n THEN n - (Width + 1) + 1 ELSE 0
        /\ \A i \in 1..Len(sub) : sub[i] = text[(Width + 1) + i - 1]
    <3>1. Width + 1 \in 1..(Len(text) + 1) /\ Len(text) \in 0..Len(text)
      BY <1>3, <1>11
    <3>2. QED
      BY <1>11, <3>1, Piece
  <2>2. Len(sub) = Len(data)
    <3> DEFINE k == Len(data)
    <3>1. k \in Nat /\ n = Width + k
      BY <1>3
    <3> HIDE DEF k, sub
    <3>2. Len(sub) = k
      BY <1>3, <2>1, <3>1
    <3>3. QED
      BY <3>2 DEF k
  <2> HIDE DEF sub
  <2>3. ASSUME NEW i \in 1..Len(sub) PROVE sub[i] = data[i]
    <3> DEFINE k == Len(data)
    <3>1. k \in Nat /\ n = Width + k /\ i \in 1..k
      BY <1>3, <2>2
    <3> HIDE DEF k
    <3> DEFINE m == Len(socket)
               e == Len(E)
    <3>0. m \in Nat /\ n <= m /\ n \in Nat /\ Width \in Nat /\ e = Width + n
      BY <1>3, <1>4, <1>7
    <3> HIDE DEF m, n, e
    <3>2. /\ (Width + 1) + i - 1 = Width + i /\ Width + i \in 1..n /\ Width + i \in 1..m
          /\ Width + (Width + i) = Width + Width + i /\ Width + Width + i \in 1..e
      BY <3>0, <3>1
    <3> USE DEF m, n, e
    <3>3. sub[i] = socket[Width + i]
      BY <2>1, <3>2 DEF text
    <3>4. socket[Width + i] = E[Width + Width + i]
      BY <1>5, <1>6, <3>2
    <3>5. E[Width + Width + i] = data[i]
      BY <1>3, <2>2
    <3>6. QED
      BY <3>3, <3>4, <3>5
  <2> HIDE DEF data
  <2>4. data \in Seq(Byte)
    BY <1>3 DEF data
  <2>5. sub = data
    BY <2>1, <2>2, <2>3, <2>4, SameBytes
  <2>6. QED
    BY <2>5 DEF sub, data
<1>14. \A i \in DOMAIN f.data : f.data[i] # 0
  BY <1>2, PublisherAssumption DEF Frame, Ok, Heartbeat, Error
<1>15. Texts(text) = {f.data}
  <2> DEFINE data == f.data
  <2>1. {i \in DOMAIN data : data[i] = 0} = {}
    BY <1>14
  <2>2. SubSeq(text, Width + 1, Len(text)) = data
    BY <1>13
  <2> HIDE DEF data
  <2>3. Texts(text) = {data}
    BY <2>1, <2>2 DEF Texts
  <2>4. QED
    BY <2>3 DEF data
<1>16. rest \in Seq(Byte) /\ Fills(rest, Tail(line), s - 1)
  <2>1. /\ rest \in Seq(Byte) /\ Len(rest) = IF n + 1 <= Len(socket) THEN Len(socket) - (n + 1) + 1 ELSE 0
        /\ \A i \in 1..Len(rest) : rest[i] = socket[(n + 1) + i - 1]
    <3>1. n + 1 \in 1..(Len(socket) + 1) /\ Len(socket) \in 0..Len(socket)
      <4> DEFINE k == Len(socket)
      <4>1. n \in Nat /\ k \in Nat /\ n <= k
        BY <1>3, <1>4, <1>7
      <4> HIDE DEF n, k
      <4>2. n + 1 \in 1..(k + 1) /\ k \in 0..k
        BY <4>1
      <4>3. QED
        BY <4>2 DEF k
    <3>2. QED
      BY <1>4, <3>1, Piece
  <2> HIDE DEF rest
  <2>2. Len(rest) = Len(socket) - n
    <3> DEFINE k == Len(socket)
               m == Len(rest)
    <3>1. m = IF n + 1 <= k THEN k - (n + 1) + 1 ELSE 0
      BY <2>1
    <3>2. k \in Nat /\ n <= k /\ n \in Nat
      BY <1>3, <1>4, <1>7
    <3> HIDE DEF k, m, n
    <3>3. m = k - n
      BY <3>1, <3>2
    <3>4. QED
      BY <3>3 DEF k, m
  <2>3. Len(rest) = Len(b) - Len(E)
    BY <1>3, <1>4, <1>5, <2>2
  <2>4. ASSUME NEW i \in 1..Len(rest) PROVE rest[i] = b[Len(E) + i]
    <3>1. (n + 1) + i - 1 = n + i /\ n + i \in 1..Len(socket) /\ Width + (n + i) = (Width + n) + i
      BY <1>3, <1>4, <1>7, <2>2
    <3>2. rest[i] = socket[n + i] /\ socket[n + i] = b[Width + (n + i)]
      BY <1>5, <2>1, <3>1
    <3>3. QED
      BY <1>3, <3>1, <3>2
  <2>5. QED
    BY <1>1, <1>5, <2>1, <2>3, <2>4, FillsRest
<1>17. QED
  BY <1>1, <1>2, <1>9, <1>10, <1>12, <1>15, <1>16

(* Then the others are left. *)
LEMMA WholeTalks ==
    ASSUME hazards = {}, NEW line \in Seq(Frame), NEW s \in Nat, Talk(line, s), ReadWhole(Read),
           pc' \in {"idle", "size"}, line[1] = Heartbeat => pc' # "idle",
           toNsqd' \in Seq(Units), UNCHANGED open, Commands(Tail(line))'
    PROVE  Talk(Tail(line), s - 1)' /\ Tail(line) \in Seq(Frame) /\ s - 1 \in Nat
<1>1. /\ pc = "body" /\ socket' = Read.socket
      /\ UNCHANGED <<calls, transit, pending, stored, refused>>
  BY DEF ReadWhole, nsqd
<1>2. /\ ConversationTypes /\ s \in 0..Len(line)
      /\ Arriving(line, s) /\ Reading(line, s) /\ Answers(line) /\ Commands(line)
  BY DEF Talk
<1>3. /\ s \in 1..Len(line) /\ line[1] \in Frame
      /\ Read.socket \in Seq(Byte) /\ Fills(Read.socket, Tail(line), s - 1)
  BY <1>1, BodyRead
<1> DEFINE less == Tail(line)
<1>4. /\ Len(line) \in Nat /\ Len(line) > 0 /\ less \in Seq(Frame) /\ Len(less) = Len(line) - 1
      /\ \A i \in 1..Len(less) : less[i] = line[i + 1]
  BY <1>3
<1> HIDE DEF less
<1>5. s - 1 \in Nat /\ s - 1 \in 0..Len(less)
  BY <1>3, <1>4
<1>6. Received' = Read.socket
  BY <1>1 DEF Received
<1>7. Arriving(less, s - 1)'
  <2>1. Len(transit) = Len(line) - s /\ \A i \in 1..Len(transit) : transit[i] = Encode(line[s + i])
    BY <1>2 DEF Arriving
  <2>2. Len(transit) = Len(less) - (s - 1)
    BY <1>3, <1>4, <2>1
  <2>3. ASSUME NEW i \in 1..Len(transit) PROVE transit[i] = Encode(less[(s - 1) + i])
    <3>1. (s - 1) + i \in 1..Len(less) /\ (s - 1) + i + 1 = s + i
      BY <1>3, <1>4, <2>2
    <3>2. less[(s - 1) + i] = line[s + i]
      BY <1>4, <3>1
    <3>3. QED
      BY <2>1, <3>2
  <2>4. Fills(Received', less, s - 1)
    BY <1>3, <1>6 DEF less
  <2>5. QED
    BY <1>1, <2>2, <2>3, <2>4 DEF Arriving
<1>8. Reading(less, s - 1)'
  BY DEF Reading
<1>9. Answers(less)'
  <2>1. \A i \in 1..Len(less) : i + 1 \in 1..Len(line) /\ i + 1 # 1 /\ 1 \in 1..Len(line)
    BY <1>4
  <2>2. ASSUME NEW i \in 1..Len(less), NEW j \in 1..Len(less), less[i] # Heartbeat, less[j] # Heartbeat
        PROVE  i = j
    <3>1. i + 1 = j + 1
      BY <1>2, <1>4, <2>1, <2>2 DEF Answers
    <3>2. QED
      BY <3>1
  <2>3. ASSUME NEW i \in 1..Len(less)
        PROVE  /\ less[i] # Heartbeat => pc' # "idle"
               /\ less[i] = Ok => calls' \in stored'
               /\ less[i] = Error => calls' \in refused'
    <3>1. less[i] # Heartbeat => line[1] = Heartbeat
      BY <1>2, <1>4, <2>1 DEF Answers
    <3>2. (line[i + 1] = Ok => calls \in stored) /\ (line[i + 1] = Error => calls \in refused)
      BY <1>2, <2>1 DEF Answers
    <3>3. QED
      BY <1>1, <1>4, <3>1, <3>2
  <2>4. QED
    BY <2>2, <2>3 DEF Answers
<1>10. ConversationTypes'
  BY <1>1, <1>2, <1>3 DEF ConversationTypes
<1>11. QED
  BY <1>4, <1>5, <1>7, <1>8, <1>9, <1>10 DEF Talk, less

(* What the three branches have read and what they send. *)
LEMMA ReplyReads ==
    ASSUME hazards = {}, NEW line \in Seq(Frame), NEW s \in Nat, Talk(line, s),
           ReplyOk \/ ReplyHeartbeat \/ ReplyOther
    PROVE  /\ ReplyOk => line[1] = Ok /\ pc' = "idle" /\ UNCHANGED toNsqd
           /\ ReplyOther => line[1] = Error /\ pc' = "idle" /\ UNCHANGED toNsqd
           /\ ReplyHeartbeat => /\ line[1] = Heartbeat /\ pc' = "size"
                                /\ toNsqd' = IF open THEN toNsqd \o <<Nop>> ELSE toNsqd
<1>1. pc = "body"
  BY DEF ReplyOk, ReplyHeartbeat, ReplyOther, ReadWhole
<1>2. line[1] \in Frame /\ Texts(Read.message) = {line[1].data}
  BY <1>1, BodyRead
<1>3. ASSUME ReplyOk PROVE line[1] = Ok /\ pc' = "idle" /\ UNCHANGED toNsqd
  <2>1. line[1].data = OkData /\ pc' = "idle" /\ UNCHANGED toNsqd
    BY <1>2, <1>3 DEF ReplyOk, Return
  <2>2. QED
    BY <1>2, <2>1, FramesDiffer DEF Frame
<1>4. ASSUME ReplyOther PROVE line[1] = Error /\ pc' = "idle" /\ UNCHANGED toNsqd
  <2>1. line[1].data # OkData /\ line[1].data # HeartbeatData /\ pc' = "idle" /\ UNCHANGED toNsqd
    BY <1>2, <1>4 DEF ReplyOther, Return
  <2>2. QED
    BY <1>2, <2>1, FramesDiffer DEF Frame
<1>5. ASSUME ReplyHeartbeat
      PROVE  /\ line[1] = Heartbeat /\ pc' = "size"
             /\ toNsqd' = IF open THEN toNsqd \o <<Nop>> ELSE toNsqd
  <2>1. line[1].data = HeartbeatData /\ pc' = "size" /\ Send(<<Nop>>)
    BY <1>2, <1>5 DEF ReplyHeartbeat
  <2>2. toNsqd' = IF open THEN toNsqd \o <<Nop>> ELSE toNsqd
    <3> DEFINE one == <<Nop>>
    <3>1. one \in Seq(Units)
      BY OneNop
    <3> HIDE DEF one
    <3>2. Send(one)
      BY <2>1 DEF one
    <3>3. toNsqd' = IF open THEN toNsqd \o one ELSE toNsqd
      BY <3>1, <3>2, SendsAll
    <3>4. QED
      BY <3>3 DEF one
  <2>3. QED
    BY <1>2, <2>1, <2>2, FramesDiffer DEF Frame
<1>6. QED
  BY <1>3, <1>4, <1>5

LEMMA ReplyTalks ==
    ASSUME hazards = {}, NEW line \in Seq(Frame), NEW s \in Nat, Talk(line, s),
           ReplyOk \/ ReplyHeartbeat \/ ReplyOther
    PROVE  /\ Talk(Tail(line), s - 1)' /\ Tail(line) \in Seq(Frame) /\ s - 1 \in Nat
           /\ ReplyOk => calls \in stored
           /\ ReplyOther => calls \in refused
<1>1. ReadWhole(Read)
  BY DEF ReplyOk, ReplyHeartbeat, ReplyOther
<1>2. pc = "body" /\ UNCHANGED <<calls, open, pending, stored, refused>>
  BY <1>1 DEF ReadWhole, nsqd
<1>3. s \in 1..Len(line)
  BY <1>2, BodyRead
<1>4. ConversationTypes /\ Answers(line) /\ Commands(line)
  BY DEF Talk
<1>5. 1 \in 1..Len(line) /\ Len(line) \in Nat
  BY <1>3
<1>6. /\ Len(Tail(line)) = Len(line) - 1 /\ \A i \in 1..Len(Tail(line)) : Tail(line)[i] = line[i + 1]
  BY <1>5
<1>7. Beats(line) => Beats(Tail(line)) /\ line[1] = Heartbeat
  BY <1>5, <1>6 DEF Beats
<1>8. CASE ReplyOk \/ ReplyOther
  <2>1. line[1] \in {Ok, Error} /\ pc' = "idle" /\ UNCHANGED toNsqd
    BY <1>8, ReplyReads
  <2>2. line[1] # Heartbeat
    BY <2>1, FramesDiffer
  <2>3. Commands(Tail(line))'
    BY <1>2, <1>4, <1>7, <2>1, <2>2 DEF Commands
  <2>4. toNsqd' \in Seq(Units)
    BY <1>4, <2>1 DEF ConversationTypes
  <2>5. Talk(Tail(line), s - 1)' /\ Tail(line) \in Seq(Frame) /\ s - 1 \in Nat
    BY <1>1, <1>2, <2>1, <2>2, <2>3, <2>4, WholeTalks
  <2>6. ReplyOk => calls \in stored
    BY <1>4, <1>5, ReplyReads DEF Answers
  <2>7. ReplyOther => calls \in refused
    BY <1>4, <1>5, ReplyReads DEF Answers
  <2>8. QED
    BY <2>5, <2>6, <2>7
<1>9. CASE ReplyHeartbeat
  <2>1. pc' = "size" /\ toNsqd' = IF open THEN toNsqd \o <<Nop>> ELSE toNsqd
    BY <1>9, ReplyReads
  <2>2. toNsqd \in Seq(Units) /\ pending \in Seq(Units)
    BY <1>4 DEF ConversationTypes
  <2>3. toNsqd' \in Seq(Units) /\ (open => Len(toNsqd') = Len(toNsqd) + 1)
    BY <2>1, <2>2, NopBehind
  <2>4. Commands(Tail(line))'
    <3>1. ASSUME open, Quiet(pending, toNsqd) PROVE Quiet(pending, toNsqd)'
      <4>1. Quiet(pending, toNsqd')
        BY <2>1, <2>2, <3>1, NopBehind
      <4>2. QED
        BY <1>2, <4>1 DEF Quiet
    <3>2. ASSUME open, NEW p \in 0..Len(toNsqd), Underway(p, calls, pending, toNsqd)
          PROVE  p \in 0..Len(toNsqd') /\ Underway(p, calls', pending', toNsqd')
      <4>1. Underway(p, calls, pending, toNsqd')
        BY <2>1, <2>2, <3>2, NopBehind
      <4>2. p \in 0..Len(toNsqd')
        BY <2>2, <2>3, <3>2
      <4>3. QED
        BY <1>2, <4>1, <4>2
    <3>3. QED
      BY <1>2, <1>4, <1>7, <2>1, <3>1, <3>2 DEF Commands, Beats
  <2>5. ~ReplyOk /\ ~ReplyOther
    BY <2>1, ReplyReads
  <2>6. QED
    BY <1>1, <1>2, <2>1, <2>3, <2>4, <2>5, WholeTalks
<1>10. QED
  BY <1>8, <1>9

-----------------------------------------------------------------------------
(* While nsqd's end is open, a heartbeat is still to be read or has its    *)
(* NOP, on the way or there; no error has been sent.                       *)
Paired(line) ==
    /\ beats \in 0..MaxBeats /\ nops \in Nat
    /\ open => /\ beats = nops + Times(Nop, toNsqd) + Times(Heartbeat, line)
               /\ \A i \in 1..Len(line) : line[i] # Error
Conversation == \E line \in Seq(Frame), s \in Nat : Talk(line, s) /\ Paired(line)

LEMMA PairedStays ==
    ASSUME NEW line, Paired(line), UNCHANGED <<beats, nops>>, open' => open /\ UNCHANGED toNsqd
    PROVE  Paired(line)'
  BY DEF Paired

LEMMA CallPairs ==
    ASSUME hazards = {}, NEW line \in Seq(Frame), NEW s \in Nat, Talk(line, s), Paired(line), Call
    PROVE  Paired(line)'
<1>1. /\ Send(Pub(calls + 1)) /\ UNCHANGED <<open, beats, nops>>
  BY DEF Call, nsqd
<1>2. toNsqd \in Seq(Units) /\ calls + 1 \in Nat /\ Pub(calls + 1) \in Seq(Units)
  BY PubIs DEF Talk, ConversationTypes
<1>3. toNsqd' = IF open THEN toNsqd \o Pub(calls + 1) ELSE toNsqd
  BY <1>1, <1>2, SendsAll
<1>4. Times(Nop, toNsqd') = Times(Nop, toNsqd)
  BY <1>2, <1>3, NopsOnTheWay
<1>5. QED
  BY <1>1, <1>4 DEF Paired

LEMMA ReplyPairs ==
    ASSUME hazards = {}, NEW line \in Seq(Frame), NEW s \in Nat, Talk(line, s), Paired(line),
           ReplyOk \/ ReplyHeartbeat \/ ReplyOther
    PROVE  Paired(Tail(line))'
<1>1. pc = "body" /\ UNCHANGED <<open, beats, nops>>
  BY DEF ReplyOk, ReplyHeartbeat, ReplyOther, ReadWhole, nsqd
<1>2. s \in 1..Len(line) /\ toNsqd \in Seq(Units)
  BY <1>1, BodyRead DEF Talk, ConversationTypes
<1>3. /\ line # <<>> /\ Head(line) = line[1] /\ Tail(line) \in Seq(Frame)
      /\ \A i \in 1..Len(Tail(line)) : i + 1 \in 1..Len(line) /\ Tail(line)[i] = line[i + 1]
  BY <1>2
<1>4. /\ Times(Heartbeat, line) = Times(Heartbeat, Tail(line)) + (IF Head(line) = Heartbeat THEN 1 ELSE 0)
      /\ Times(Heartbeat, Tail(line)) \in Nat
  BY <1>3, TimesTail, TimesFacts
<1>5. Times(Nop, toNsqd) \in Nat /\ Times(Nop, toNsqd \o <<Nop>>) = Times(Nop, toNsqd) + 1
  BY <1>2, NopsOnTheWay
<1>6. beats \in 0..MaxBeats /\ nops \in Nat
  BY DEF Paired
<1>7. ASSUME open
      PROVE  /\ beats = nops + Times(Nop, toNsqd') + Times(Heartbeat, Tail(line))
             /\ \A i \in 1..Len(Tail(line)) : Tail(line)[i] # Error
  <2>1. beats = nops + Times(Nop, toNsqd) + Times(Heartbeat, line) /\ \A i \in 1..Len(line) : line[i] # Error
    BY <1>7 DEF Paired
  <2>2. CASE ReplyHeartbeat
    <3>1. Head(line) = Heartbeat /\ toNsqd' = toNsqd \o <<Nop>>
      BY <1>3, <1>7, <2>2, ReplyReads
    <3>2. Times(Nop, toNsqd') = Times(Nop, toNsqd) + 1 /\ Times(Heartbeat, line) = Times(Heartbeat, Tail(line)) + 1
      BY <1>4, <1>5, <3>1
    <3> DEFINE a == Times(Nop, toNsqd)
               b == Times(Heartbeat, Tail(line))
               c == Times(Nop, toNsqd')
               d == Times(Heartbeat, line)
    <3>3. beats = nops + a + d /\ c = a + 1 /\ d = b + 1 /\ a \in Nat /\ b \in Nat
      BY <1>4, <1>5, <2>1, <3>2
    <3> HIDE DEF a, b, c, d
    <3>4. beats = nops + c + b
      BY <1>6, <3>3
    <3>5. QED
      BY <1>3, <2>1, <3>4 DEF b, c
  <2>3. CASE ReplyOk \/ ReplyOther
    <3>1. Head(line) # Heartbeat /\ toNsqd' = toNsqd
      BY <1>3, <2>3, ReplyReads, FramesDiffer
    <3>2. Times(Heartbeat, line) = Times(Heartbeat, Tail(line))
      BY <1>4, <3>1
    <3>3. QED
      BY <1>3, <2>1, <3>1, <3>2
  <2>4. QED
    BY <2>2, <2>3
<1>8. QED
  BY <1>1, <1>6, <1>7 DEF Paired

(* nsqd takes the next unit. *)
LEMMA TakenPairs ==
    ASSUME NEW line \in Seq(Frame), Paired(line), toNsqd \in Seq(Units), toNsqd # <<>>,
           toNsqd' = Tail(toNsqd), UNCHANGED <<open, beats>>,
           nops' = IF Head(toNsqd) = Nop THEN nops + 1 ELSE nops
    PROVE  Paired(line)'
<1>1. /\ Head(toNsqd) = Nop => Times(Nop, toNsqd) = Times(Nop, Tail(toNsqd)) + 1
      /\ Head(toNsqd) # Nop => Times(Nop, toNsqd) = Times(Nop, Tail(toNsqd))
      /\ Times(Nop, Tail(toNsqd)) \in Nat
  BY NopsOnTheWay
<1>2. beats \in 0..MaxBeats /\ nops \in Nat /\ Times(Heartbeat, line) \in Nat
  BY TimesFacts DEF Paired
<1>3. ASSUME open
      PROVE  /\ beats = nops' + Times(Nop, toNsqd') + Times(Heartbeat, line)
             /\ \A i \in 1..Len(line) : line[i] # Error
  <2>1. beats = nops + Times(Nop, toNsqd) + Times(Heartbeat, line) /\ \A i \in 1..Len(line) : line[i] # Error
    BY <1>3 DEF Paired
  <2> DEFINE a == Times(Nop, toNsqd)
             b == Times(Nop, Tail(toNsqd))
             c == Times(Heartbeat, line)
             d == nops'
  <2>2. /\ beats = nops + a + c /\ b \in Nat /\ c \in Nat
        /\ \/ d = nops + 1 /\ a = b + 1
           \/ d = nops /\ a = b
    BY <1>1, <1>2, <2>1
  <2> HIDE DEF a, b, c, d
  <2>3. beats = d + b + c
    BY <1>2, <2>2
  <2>4. QED
    BY <2>1, <2>3 DEF b, c, d
<1>4. nops' \in Nat
  BY <1>2
<1>5. QED
  BY <1>2, <1>3, <1>4 DEF Paired

(* Its answer is no heartbeat and no error. *)
LEMMA OkPairs ==
    ASSUME NEW line \in Seq(Frame), Paired(line)
    PROVE  Paired(Append(line, Ok))
<1>1. Times(Heartbeat, Append(line, Ok)) = Times(Heartbeat, line)
  <2>1. Ok \in Frame /\ Ok # Heartbeat
    BY FramesDiffer
  <2>2. Times(Heartbeat, line) \in Nat
    BY TimesFacts
  <2>3. Times(Heartbeat, Append(line, Ok)) = Times(Heartbeat, line) + (IF Ok = Heartbeat THEN 1 ELSE 0)
    BY <2>1, TimesAppend
  <2>4. QED
    BY <2>1, <2>2, <2>3
<1>2. (\A i \in 1..Len(line) : line[i] # Error) =>
          \A i \in 1..Len(Append(line, Ok)) : Append(line, Ok)[i] # Error
  BY AppendIs, FramesDiffer
<1>3. QED
  BY <1>1, <1>2 DEF Paired

LEMMA BeatPairs ==
    ASSUME NEW line \in Seq(Frame), NEW s \in Nat, Talk(line, s), Paired(line),
           beats < MaxBeats, beats' = beats + 1, UNCHANGED <<open, nops, toNsqd>>
    PROVE  Paired(Append(line, Heartbeat))'
<1>1. /\ Times(Heartbeat, Append(line, Heartbeat)) = Times(Heartbeat, line) + 1
      /\ Times(Heartbeat, line) \in Nat
  BY TimesAppend, TimesFacts, FramesDiffer
<1>2. (\A i \in 1..Len(line) : line[i] # Error) =>
          \A i \in 1..Len(Append(line, Heartbeat)) : Append(line, Heartbeat)[i] # Error
  BY AppendIs, FramesDiffer
<1>3. beats \in 0..MaxBeats /\ nops \in Nat /\ MaxBeats \in Nat /\ beats' \in 0..MaxBeats
  BY PublisherAssumption DEF Paired
<1>4. ASSUME open PROVE beats' = nops + Times(Nop, toNsqd) + Times(Heartbeat, Append(line, Heartbeat))
  <2> DEFINE a == nops + Times(Nop, toNsqd)
             b == Times(Heartbeat, line)
             c == Times(Heartbeat, Append(line, Heartbeat))
  <2>1. beats = a + b /\ c = b + 1 /\ b \in Nat
    BY <1>1, <1>4 DEF Paired
  <2>2. a \in Int
    <3>1. toNsqd \in Seq(Units)
      BY DEF Talk, ConversationTypes
    <3>2. Times(Nop, toNsqd) \in Nat
      BY <3>1, TimesFacts
    <3>3. QED
      BY <1>3, <3>2
  <2> HIDE DEF a, b, c
  <2>3. beats' = a + c
    BY <1>3, <2>1, <2>2
  <2>4. QED
    BY <2>3 DEF a, c
<1>5. QED
  BY <1>2, <1>3, <1>4 DEF Paired

(* nsqd takes what is on its way, and answers a whole PUB. *)
LEMMA NsqdTalks ==
    ASSUME NEW line \in Seq(Frame), NEW s \in Nat, Talk(line, s), Paired(line), NsqdStep
    PROVE  \E more \in Seq(Frame) : Talk(more, s)' /\ Paired(more)'
<1>1. /\ open /\ toNsqd # <<>>
      /\ NsqdTakesPart \/ NsqdStores \/ NsqdRefuses \/ NsqdHearsNop \/ NsqdRejects
      /\ UNCHANGED <<calls, pc, msg_size, l, socket, beats>>
  BY DEF NsqdStep, reader
<1>2. /\ ConversationTypes /\ s \in 0..Len(line)
      /\ Arriving(line, s) /\ Reading(line, s) /\ Answers(line) /\ Commands(line)
  BY DEF Talk
<1>3. toNsqd \in Seq(Units) /\ pending \in Seq(Units) /\ calls \in Nat /\ Len(pending) \in Nat
  BY <1>2 DEF ConversationTypes
<1>4. Tail(toNsqd) \in Seq(Units) /\ Head(toNsqd) \in Units
  BY <1>1, <1>3, TailOfUnits
<1>5. Received' = Received
  BY <1>1 DEF Received
(* What the next unit is. *)
<1>6. \/ pending = <<>> /\ Head(toNsqd) = Nop /\ Quiet(pending, Tail(toNsqd))
      \/ /\ pc # "idle" /\ Beats(line) /\ pending = <<>> /\ Head(toNsqd) = Nop
         /\ \E p \in 0..Len(Tail(toNsqd)) : Underway(p, calls, pending, Tail(toNsqd))
      \/ pc # "idle" /\ Beats(line) /\ Underway(0, calls, pending, toNsqd)
  <2>1. CASE Quiet(pending, toNsqd)
    BY <1>1, <1>3, <2>1, QuietFront
  <2>2. CASE /\ pc # "idle" /\ Beats(line)
             /\ \E p \in 0..Len(toNsqd) : Underway(p, calls, pending, toNsqd)
    <3>1. PICK p \in 0..Len(toNsqd) : Underway(p, calls, pending, toNsqd)
      BY <2>2
    <3>2. CASE p = 0
      BY <2>2, <3>1, <3>2
    <3>3. CASE p # 0
      <4>1. p \in Nat /\ p > 0
        BY <3>3
      <4>2. /\ pending = <<>> /\ Head(toNsqd) = Nop /\ Underway(p - 1, calls, pending, Tail(toNsqd))
            /\ p - 1 \in 0..Len(Tail(toNsqd))
        BY <1>3, <3>1, <4>1, NopFront
      <4>3. QED
        BY <2>2, <4>2
    <3>4. QED
      BY <3>2, <3>3
  <2>3. QED
    BY <1>1, <1>2, <2>1, <2>2 DEF Commands
<1>7. CASE Head(toNsqd) = Nop /\ pending = <<>>
  <2>1. /\ toNsqd' = Tail(toNsqd) /\ nops' = nops + 1
        /\ UNCHANGED <<transit, open, pending, stored, refused>>
    <3>1. Head(toNsqd).part = 0 /\ Len(Append(pending, Head(toNsqd))) = 1 /\ Parts # 1
      BY <1>4, <1>7, UnitsAre
    <3>2. ~NsqdTakesPart /\ ~NsqdStores /\ ~NsqdRefuses /\ ~NsqdRejects
      BY <1>7, <3>1 DEF NsqdTakesPart, NsqdStores, NsqdRefuses, NsqdRejects
    <3>3. QED
      BY <1>1, <3>2 DEF NsqdHearsNop
  <2>2. ASSUME Underway(0, calls, pending, toNsqd) PROVE FALSE
    <3>1. Head(toNsqd) = Unit(calls, Len(pending) + 1)
      BY <1>3, <2>2, PartFront
    <3>2. Len(pending) + 1 \in Nat /\ Len(pending) + 1 > 0
      BY <1>3
    <3>3. QED
      BY <1>3, <1>7, <3>1, <3>2, UnitsAre
  <2>3. Commands(line)'
    BY <1>1, <1>6, <2>1, <2>2 DEF Commands, Beats
  <2>4. ConversationTypes'
    BY <1>1, <1>2, <1>4, <2>1 DEF ConversationTypes
  <2>5. Arriving(line, s)' /\ Reading(line, s)' /\ Answers(line)'
    BY <1>1, <1>2, <1>5, <2>1 DEF Arriving, Reading, Answers
  <2>6. Talk(line, s)'
    BY <1>2, <2>3, <2>4, <2>5 DEF Talk
  <2>7. Paired(line)'
    BY <1>1, <1>3, <1>7, <2>1, TakenPairs
  <2>8. QED
    BY <2>6, <2>7
<1>8. CASE pc # "idle" /\ Beats(line) /\ Underway(0, calls, pending, toNsqd)
  <2> DEFINE taken == Append(pending, Head(toNsqd))
  <2>1. /\ Head(toNsqd) = Unit(calls, Len(pending) + 1) /\ taken \in Seq(Units)
        /\ Len(pending) + 1 < Parts => Underway(0, calls, taken, Tail(toNsqd))
        /\ Len(pending) + 1 = Parts => taken = Pub(calls) /\ Quiet(<<>>, Tail(toNsqd))
    BY <1>3, <1>8, PartFront
  <2>2. /\ Len(taken) = Len(pending) + 1 /\ Parts \in Nat /\ Parts > 1
        /\ Head(toNsqd) # Nop /\ Head(toNsqd).part = Len(pending) + 1
        /\ Pub(calls)[1].message = calls
    <3>1. Len(taken) = Len(pending) + 1
      BY <1>3, <1>4
    <3>2. Head(toNsqd) # Nop /\ Head(toNsqd).part = Len(pending) + 1 /\ Parts \in Nat /\ Parts > 1
      BY <1>3, <2>1, UnitsAre
    <3>3. Pub(calls)[1] = Unit(calls, 1)
      BY <1>3, <3>2, PubIs
    <3>4. QED
      BY <1>3, <3>1, <3>2, <3>3, UnitsAre
  <2>3. pending = <<>> => Len(pending) = 0
    OBVIOUS
  <2> HIDE DEF taken
  <2>4. ~NsqdHearsNop /\ ~NsqdRejects
    BY <2>2, <2>3 DEF NsqdHearsNop, NsqdRejects
  <2>5. CASE NsqdTakesPart
    <3>1. /\ Len(pending) + 1 < Parts /\ pending' = taken /\ toNsqd' = Tail(toNsqd)
          /\ UNCHANGED <<transit, open, stored, refused, nops>>
      BY <2>5 DEF NsqdTakesPart, taken
    <3>2. Underway(0, calls', pending', toNsqd') /\ 0 \in 0..Len(toNsqd')
      BY <1>1, <1>4, <2>1, <3>1
    <3>3. Commands(line)'
      BY <1>1, <1>8, <3>2 DEF Commands, Beats
    <3>4. ConversationTypes'
      BY <1>1, <1>2, <1>4, <2>1, <3>1 DEF ConversationTypes
    <3>5. Arriving(line, s)' /\ Reading(line, s)' /\ Answers(line)'
      BY <1>1, <1>2, <1>5, <3>1 DEF Arriving, Reading, Answers
    <3>6. Talk(line, s)'
      BY <1>2, <3>3, <3>4, <3>5 DEF Talk
    <3>7. Paired(line)'
      BY <1>1, <1>3, <2>2, <3>1, TakenPairs
    <3>8. QED
      BY <3>6, <3>7
  <2>6. CASE NsqdStores
    <3> DEFINE more == Append(line, Ok)
    <3>1. /\ Len(taken) = Parts /\ pending' = <<>> /\ toNsqd' = Tail(toNsqd) /\ Answer(Ok)
          /\ stored' = IF taken = Pub(taken[1].message) THEN stored \cup {taken[1].message} ELSE stored
          /\ UNCHANGED <<open, refused, nops>>
      BY <2>6 DEF NsqdStores, taken
    <3>2. taken = Pub(calls) /\ Quiet(<<>>, Tail(toNsqd)) /\ taken[1].message = calls
      BY <2>1, <2>2, <3>1
    <3>3. calls \in stored'
      BY <3>1, <3>2
    <3>4. /\ more \in Seq(Frame) /\ s \in 0..Len(more) /\ transit' \in Seq(Seq(Byte))
          /\ Arriving(more, s)' /\ Reading(more, s)'
      BY <1>1, <3>1, AnswerBehind, FramesDiffer
    <3>5. Answers(more)'
      BY <1>1, <1>8, <3>3, AppendIs, FramesDiffer DEF Answers, Beats
    <3> HIDE DEF more
    <3>6. Commands(more)'
      BY <3>1, <3>2 DEF Commands
    <3>7. ConversationTypes'
      BY <1>1, <1>2, <1>4, <3>1, <3>4 DEF ConversationTypes
    <3>8. Talk(more, s)'
      BY <3>4, <3>5, <3>6, <3>7 DEF Talk
    <3>9. Paired(more)'
      <4>1. Paired(more)
        BY OkPairs DEF more
      <4>2. QED
        BY <1>1, <1>3, <2>2, <3>1, <3>4, <4>1, TakenPairs
    <3>10. QED
      BY <3>4, <3>8, <3>9
  <2>7. CASE NsqdRefuses
    <3> DEFINE more == Append(line, Error)
    <3>1. /\ Len(taken) = Parts /\ pending' = <<>> /\ toNsqd' = <<>> /\ open' = FALSE /\ Answer(Error)
          /\ refused' = refused \cup {taken[1].message} /\ UNCHANGED <<stored, nops>>
      BY <2>7 DEF NsqdRefuses, Hangup, taken
    <3>2. taken[1].message = calls
      BY <2>1, <2>2, <3>1
    <3>3. calls \in refused'
      BY <3>1, <3>2
    <3>4. /\ more \in Seq(Frame) /\ s \in 0..Len(more) /\ transit' \in Seq(Seq(Byte))
          /\ Arriving(more, s)' /\ Reading(more, s)'
      BY <1>1, <3>1, AnswerBehind, FramesDiffer
    <3>5. Answers(more)'
      BY <1>1, <1>8, <3>3, AppendIs, FramesDiffer DEF Answers, Beats
    <3> HIDE DEF more
    <3>6. Commands(more)'
      BY <3>1 DEF Commands
    <3>7. ConversationTypes'
      BY <1>1, <1>2, <3>1, <3>4 DEF ConversationTypes
    <3>8. Talk(more, s)'
      BY <3>4, <3>5, <3>6, <3>7 DEF Talk
    <3>9. Paired(more)'
      BY <1>1, <3>1 DEF Paired
    <3>10. QED
      BY <3>4, <3>8, <3>9
  <2>8. QED
    BY <1>1, <2>4, <2>5, <2>6, <2>7
<1>9. QED
  BY <1>6, <1>7, <1>8

LEMMA UnaskedTalks ==
    ASSUME NEW line \in Seq(Frame), NEW s \in Nat, Talk(line, s), Paired(line),
           NsqdBeats \/ NsqdCloses
    PROVE  \E more \in Seq(Frame) : Talk(more, s)' /\ Paired(more)'
<1>1. /\ ConversationTypes /\ s \in 0..Len(line)
      /\ Arriving(line, s) /\ Reading(line, s) /\ Answers(line) /\ Commands(line)
  BY DEF Talk
<1>2. CASE NsqdBeats
  <2> DEFINE more == Append(line, Heartbeat)
  <2>1. /\ Answer(Heartbeat)
        /\ UNCHANGED <<calls, pc, msg_size, l, socket, toNsqd, open, pending, stored, refused>>
    BY <1>2 DEF NsqdBeats, reader
  <2>2. /\ more \in Seq(Frame) /\ s \in 0..Len(more) /\ transit' \in Seq(Seq(Byte))
        /\ Arriving(more, s)' /\ Reading(more, s)'
    BY <2>1, AnswerBehind, FramesDiffer
  <2>3. Beats(line) => Beats(more)
    BY AppendIs, FramesDiffer DEF Beats
  <2>4. Answers(more)'
    <3>1. \A i \in 1..Len(more) : more[i] # Heartbeat => i \in 1..Len(line) /\ more[i] = line[i]
      BY AppendIs, FramesDiffer
    <3> HIDE DEF more
    <3>2. QED
      BY <1>1, <2>1, <3>1, FramesDiffer DEF Answers
  <2> HIDE DEF more
  <2>5. Commands(more)'
    BY <1>1, <2>1, <2>3 DEF Commands, Beats
  <2>6. ConversationTypes'
    BY <1>1, <2>1, <2>2 DEF ConversationTypes
  <2>7. Talk(more, s)'
    BY <2>2, <2>4, <2>5, <2>6 DEF Talk
  <2>8. Paired(more)'
    <3>1. beats < MaxBeats /\ beats' = beats + 1 /\ UNCHANGED <<open, nops, toNsqd>>
      BY <1>2 DEF NsqdBeats
    <3>2. QED
      BY <3>1, BeatPairs DEF more
  <2>9. QED
    BY <2>2, <2>7, <2>8
<1>3. CASE NsqdCloses
  <2>1. /\ open' = FALSE /\ toNsqd' = <<>>
        /\ UNCHANGED <<calls, pc, msg_size, l, transit, socket, pending, stored, refused, beats, nops>>
    BY <1>3 DEF NsqdCloses, Hangup, reader
  <2>2. Received' = Received
    BY <2>1 DEF Received
  <2>3. Arriving(line, s)' /\ Reading(line, s)' /\ Answers(line)' /\ Commands(line)'
    BY <1>1, <2>1, <2>2 DEF Arriving, Reading, Answers, Commands
  <2>4. ConversationTypes'
    BY <1>1, <2>1 DEF ConversationTypes
  <2>5. Talk(line, s)'
    BY <1>1, <2>3, <2>4 DEF Talk
  <2>6. Paired(line)'
    BY <2>1, PairedStays
  <2>7. QED
    BY <2>5, <2>6
<1>4. QED
  BY <1>2, <1>3

(* Results, and what nsqd has done, only become more. *)
Honest ==
    \A m \in Message : /\ results[m] = "true" => m \in stored
                       /\ results[m] = "false" => m \in refused
Calm == hazards = {} => Honest /\ (pc # "exited" => Conversation)

LEMMA NsqdForgetsNothing ==
    ASSUME Next
    PROVE  hazards' = hazards /\ stored \subseteq stored' /\ refused \subseteq refused'
<1>1. CASE publish \/ deferredPublish
  BY <1>1 DEF publish, deferredPublish, Call, nsqd
<1>2. CASE PublisherStep
  BY <1>2 DEF PublisherStep, LostConnection, ReadSize, ReadMore, ReplyOk, ReplyHeartbeat, ReplyOther,
              ReadOverrun, ReadWhole, nsqd
<1>3. CASE NsqdStep
  BY <1>3 DEF NsqdStep, NsqdTakesPart, NsqdStores, NsqdRefuses, NsqdHearsNop, NsqdRejects
<1>4. CASE NsqdBeats \/ NsqdCloses \/ Arrive
  BY <1>4 DEF NsqdBeats, NsqdCloses, Arrive, nsqd
<1>5. QED
  BY <1>1, <1>2, <1>3, <1>4 DEF Next

(* Who returns what. *)
LEMMA ResultsOfNext ==
    ASSUME Inv, Next
    PROVE  \/ UNCHANGED results
           \/ /\ LostConnection \/ ReplyOk \/ ReplyOther
              /\ pc # "exited"
              /\ \A m \in Message : results'[m] # results[m] =>
                    /\ m = calls /\ results'[m] = "true" => ReplyOk
                    /\ m = calls /\ results'[m] = "false" => ReplyOther
                    /\ m = calls
<1>1. ASSUME NEW ret, Return(ret)
      PROVE  \A m \in Message : results'[m] # results[m] => m = calls /\ results'[m] = ret
  BY <1>1 DEF Return, Inv, ResultsOK
<1>2. CASE LostConnection
  <2>1. Return("exception") /\ pc # "exited"
    BY <1>2 DEF LostConnection
  <2>2. QED
    BY <1>1, <1>2, <2>1
<1>3. CASE ReplyOk
  <2>1. Return("true") /\ pc # "exited"
    BY <1>3 DEF ReplyOk, ReadWhole
  <2>2. QED
    BY <1>1, <1>3, <2>1
<1>4. CASE ReplyOther
  <2>1. Return("false") /\ pc # "exited"
    BY <1>4 DEF ReplyOther, ReadWhole
  <2>2. QED
    BY <1>1, <1>4, <2>1
<1>5. CASE ReadSize \/ ReadMore \/ ReadOverrun \/ ReplyHeartbeat
  BY <1>5 DEF ReadSize, ReadMore, ReadOverrun, ReplyHeartbeat
<1>6. CASE NsqdStep \/ NsqdBeats \/ NsqdCloses \/ Arrive
  BY <1>6 DEF NsqdStep, NsqdBeats, NsqdCloses, Arrive
<1>7. CASE publish \/ deferredPublish
  BY <1>7 DEF publish, deferredPublish, Call
<1>8. QED
  BY <1>2, <1>3, <1>4, <1>5, <1>6, <1>7 DEF Next, PublisherStep

(* Nothing brings a script back that has exited. *)
LEMMA ConversationStep ==
    ASSUME hazards = {}, pc # "exited" => Conversation, Next, pc' # "exited"
    PROVE  /\ Conversation'
           /\ ReplyOk => calls \in stored
           /\ ReplyOther => calls \in refused
<1>1. pc # "exited"
  <2>1. ASSUME pc = "exited" PROVE FALSE
    BY <2>1 DEF Next, publish, deferredPublish, Call, PublisherStep, LostConnection, ReadSize, ReadMore,
                ReplyOk, ReplyHeartbeat, ReplyOther, ReadOverrun, ReadWhole, NsqdStep, NsqdBeats,
                NsqdCloses, Arrive
  <2>2. QED
    BY <2>1
<1>2. PICK line \in Seq(Frame), s \in Nat : Talk(line, s) /\ Paired(line)
  BY <1>1 DEF Conversation
<1>3. ASSUME NEW more \in Seq(Frame), NEW n \in Nat, Talk(more, n)', Paired(more)'
      PROVE  Conversation'
  BY <1>3 DEF Conversation
<1>4. CASE publish \/ deferredPublish
  <2>1. Call
    BY <1>4 DEF publish, deferredPublish
  <2>2. Talk(line, s)' /\ Paired(line)'
    BY <1>2, <2>1, CallTalks, CallPairs
  <2>3. ~ReplyOk /\ ~ReplyOther
    BY <2>1 DEF Call, ReplyOk, ReplyOther, ReadWhole
  <2>4. QED
    BY <1>2, <1>3, <2>2, <2>3
<1>5. CASE LostConnection
  <2>1. Talk(line, s)' /\ Paired(line)'
    <3>1. UNCHANGED <<open, toNsqd, beats, nops>>
      BY <1>5 DEF LostConnection, connection, nsqd
    <3>2. QED
      BY <1>2, <1>5, <3>1, LostTalks, PairedStays
  <2>2. ~ReplyOk /\ ~ReplyOther
    BY <1>5 DEF LostConnection, ReplyOk, ReplyOther, ReadWhole
  <2>3. QED
    BY <1>2, <1>3, <2>1, <2>2
<1>6. CASE ReadSize
  <2>1. Talk(line, s)' /\ Paired(line)'
    <3>1. UNCHANGED <<open, toNsqd, beats, nops>>
      BY <1>6 DEF ReadSize, nsqd
    <3>2. QED
      BY <1>2, <1>6, <3>1, ReadSizeTalks, PairedStays
  <2>2. ~ReplyOk /\ ~ReplyOther
    BY <1>6 DEF ReadSize, ReplyOk, ReplyOther, ReadWhole
  <2>3. QED
    BY <1>2, <1>3, <2>1, <2>2
<1>7. CASE ReplyOk \/ ReplyHeartbeat \/ ReplyOther
  <2>1. /\ Talk(Tail(line), s - 1)' /\ Tail(line) \in Seq(Frame) /\ s - 1 \in Nat
        /\ ReplyOk => calls \in stored
        /\ ReplyOther => calls \in refused
        /\ Paired(Tail(line))'
    BY <1>2, <1>7, ReplyTalks, ReplyPairs
  <2>2. QED
    BY <1>3, <2>1
<1>8. CASE ReadMore \/ ReadOverrun
  <2>1. pc = "body" /\ (ReadAgain(Read) \/ Overrun(Read))
    BY <1>8 DEF ReadMore, ReadOverrun
  <2>2. QED
    BY <1>2, <2>1, BodyRead
<1>9. CASE NsqdStep \/ NsqdBeats \/ NsqdCloses \/ Arrive
  <2>1. \E more \in Seq(Frame), n \in Nat : Talk(more, n)' /\ Paired(more)'
    <3>1. CASE NsqdStep
      BY <1>2, <3>1, NsqdTalks
    <3>2. CASE NsqdBeats \/ NsqdCloses
      BY <1>2, <3>2, UnaskedTalks
    <3>3. CASE Arrive
      <4>1. Talk(line, s + 1)' /\ s + 1 \in Nat
        BY <1>2, <3>3, ArriveTalks
      <4>2. Paired(line)'
        BY <1>2, <3>3, PairedStays DEF Arrive, nsqd
      <4>3. QED
        BY <1>2, <4>1, <4>2
    <3>4. QED
      BY <1>9, <3>1, <3>2, <3>3
  <2>2. Conversation'
    BY <2>1 DEF Conversation
  <2>3. UNCHANGED results /\ (NsqdStep \/ UNCHANGED pc)
    BY <1>9 DEF NsqdStep, NsqdBeats, NsqdCloses, Arrive
  <2>4. UNCHANGED pc
    BY <1>9 DEF NsqdStep, NsqdBeats, NsqdCloses, Arrive
  <2>5. ~ReplyOk /\ ~ReplyOther
    BY <2>4 DEF ReplyOk, ReplyOther, ReadWhole, Return
  <2>6. QED
    BY <2>2, <2>5
<1>10. QED
  BY <1>4, <1>5, <1>6, <1>7, <1>8, <1>9 DEF Next, PublisherStep

LEMMA CalmInit == Init => Calm
<1> SUFFICES ASSUME Init PROVE Calm
  OBVIOUS
<1>1. Honest
  BY DEF Init, Honest
<1>2. Talk(<<>>, 0)
  <2>1. ConversationTypes
    BY DEF Init, ConversationTypes
  <2>2. Received = <<>>
    BY DEF Init, Received
  <2>3. Fills(<<>>, <<>>, 0)
    <3>1. <<>> \in Seq(Frame)
      OBVIOUS
    <3>2. QED
      BY <3>1, NothingFills
  <2>4. Arriving(<<>>, 0)
    BY <2>2, <2>3 DEF Init, Arriving
  <2>5. Reading(<<>>, 0) /\ Answers(<<>>)
    BY DEF Init, Reading, Answers
  <2>6. Commands(<<>>)
    BY DEF Init, Commands, Quiet
  <2>7. QED
    BY <2>1, <2>4, <2>5, <2>6 DEF Talk
<1>3. Paired(<<>>)
  <2>1. beats = 0 /\ nops = 0 /\ toNsqd = <<>> /\ MaxBeats \in Nat
    BY PublisherAssumption DEF Init
  <2>2. Times(Nop, <<>>) = 0 /\ Times(Heartbeat, <<>>) = 0
    BY TimesNothing
  <2>3. QED
    BY <2>1, <2>2 DEF Paired
<1>4. Conversation
  <2>1. <<>> \in Seq(Frame) /\ 0 \in Nat
    OBVIOUS
  <2>2. QED
    BY <1>2, <1>3, <2>1 DEF Conversation
<1>5. QED
  BY <1>1, <1>4 DEF Calm

LEMMA CalmStep == Inv /\ Calm /\ [Next]_vars => Calm'
<1> SUFFICES ASSUME Inv, Calm, [Next]_vars PROVE Calm'
  OBVIOUS
<1>1. CASE Next
  <2>1. hazards' = hazards /\ stored \subseteq stored' /\ refused \subseteq refused'
    BY <1>1, NsqdForgetsNothing
  <2>2. SUFFICES ASSUME hazards = {} PROVE Honest' /\ (pc' # "exited" => Conversation')
    BY <2>1 DEF Calm
  <2>3. Honest /\ (pc # "exited" => Conversation)
    BY <2>2 DEF Calm
  <2>4. CASE UNCHANGED results
    <3>1. Honest'
      BY <2>1, <2>3, <2>4 DEF Honest
    <3>2. QED
      BY <1>1, <2>2, <2>3, <3>1, ConversationStep
  <2>5. CASE /\ LostConnection \/ ReplyOk \/ ReplyOther
             /\ \A m \in Message : results'[m] # results[m] =>
                    /\ m = calls /\ results'[m] = "true" => ReplyOk
                    /\ m = calls /\ results'[m] = "false" => ReplyOther
                    /\ m = calls
    <3>1. pc' # "exited"
      BY <2>5 DEF LostConnection, ReplyOk, ReplyOther, Return
    <3>2. Conversation' /\ (ReplyOk => calls \in stored) /\ (ReplyOther => calls \in refused)
      BY <1>1, <2>2, <2>3, <3>1, ConversationStep
    <3>3. Honest'
      BY <2>1, <2>3, <2>5, <3>2 DEF Honest
    <3>4. QED
      BY <3>2, <3>3
  <2>6. QED
    BY <1>1, <2>4, <2>5, ResultsOfNext
<1>2. CASE UNCHANGED vars
  BY <1>2 DEF vars, reader, connection, nsqd, Calm, Honest, Conversation, Talk, ConversationTypes,
              Arriving, Received, Reading, Answers, Commands, Paired
<1>3. QED
  BY <1>1, <1>2

(* The two invariants hold together. *)
LEMMA CalmHolds == Spec => []Calm
<1>1. Init => Inv /\ Calm
  BY InvInit, CalmInit
<1>2. Inv /\ Calm /\ [Next]_vars => Inv' /\ Calm'
  BY InvStep, CalmStep
<1>3. QED
  BY <1>1, <1>2, PTL DEF Spec

(* With whole frames and whole sends, publish() returns true only for a    *)
(* message nsqd has as it was sent (pub.c:219-233, 295-309).               *)
THEOREM TrueIsStored == Spec => []TrueMeansStored
<1>1. Calm => TrueMeansStored
  BY DEF Calm, Honest, TrueMeansStored
<1>2. QED
  BY <1>1, CalmHolds, PTL

(* And it returns false only for a message nsqd has refused, heartbeats or *)
(* not (pub.c:219-233, 295-309; README.md:199).                            *)
THEOREM FalseIsRefused == Spec => []FalseMeansRefused
<1>1. Calm => FalseMeansRefused
  BY DEF Calm, Honest, FalseMeansRefused
<1>2. QED
  BY <1>1, CalmHolds, PTL

-----------------------------------------------------------------------------
LEMMA PiecesJoined ==
    ASSUME NEW s \in Seq(Seq(Byte)), NEW t \in Seq(Seq(Byte))
    PROVE  /\ s \o t \in Seq(Seq(Byte)) /\ Len(s \o t) = Len(s) + Len(t)
           /\ \A i \in 1..Len(s) : (s \o t)[i] = s[i]
           /\ \A i \in 1..Len(t) : (s \o t)[Len(s) + i] = t[i]
  OBVIOUS

(* Between two reads the frames of the line are all that is unread. *)
LEMMA UnreadIs ==
    ASSUME NEW line \in Seq(Frame), NEW s \in 0..Len(line), Arriving(line, s), ConversationTypes, pc # "body"
    PROVE  Fills(Unread, line, Len(line))
<1> DEFINE all == <<socket>> \o transit
           n == Len(transit)
           Upto(k) == [i \in 1..k |-> all[i]]
           T == {k \in 0..n : Fills(FlattenSeq(Upto(k + 1)), line, s + k)}
<1>1. /\ socket \in Seq(Byte) /\ transit \in Seq(Seq(Byte)) /\ n \in Nat /\ n = Len(line) - s
      /\ (\A i \in 1..n : transit[i] = Encode(line[s + i]))
      /\ Fills(socket, line, s)
  BY DEF Arriving, ConversationTypes, Received
<1>2. /\ all \in Seq(Seq(Byte)) /\ Len(all) = n + 1 /\ DOMAIN all = 1..(n + 1)
      /\ all[1] = socket /\ \A i \in 1..n : all[i + 1] = transit[i]
  <2> DEFINE one == <<socket>>
  <2>1. one \in Seq(Seq(Byte)) /\ Len(one) = 1 /\ one[1] = socket
    BY <1>1
  <2> HIDE DEF one
  <2>2. /\ one \o transit \in Seq(Seq(Byte)) /\ Len(one \o transit) = Len(one) + n
        /\ \A i \in 1..Len(one) : (one \o transit)[i] = one[i]
        /\ \A i \in 1..n : (one \o transit)[Len(one) + i] = transit[i]
    BY <1>1, <2>1, PiecesJoined, Zenon
  <2>3. all = one \o transit
    BY DEF one
  <2> HIDE DEF all, n
  <2>4. /\ all \in Seq(Seq(Byte)) /\ Len(all) = 1 + n /\ all[1] = socket
        /\ \A i \in 1..n : all[1 + i] = transit[i]
    <3>1. all \in Seq(Seq(Byte)) /\ Len(all) = 1 + n /\ \A i \in 1..n : all[1 + i] = transit[i]
      BY <2>1, <2>2, <2>3, Zenon
    <3>2. 1 \in 1..Len(one)
      BY <2>1
    <3>3. all[1] = socket
      BY <2>1, <2>2, <2>3, <3>2, Zenon
    <3>4. QED
      BY <3>1, <3>3
  <2>5. DOMAIN all = 1..(n + 1) /\ Len(all) = n + 1
    BY <1>1, <2>4
  <2>6. \A i \in 1..n : 1 + i = i + 1
    OBVIOUS
  <2>7. QED
    BY <2>4, <2>5, <2>6
<1> HIDE DEF all, n
<1>3. ASSUME NEW k \in 0..(n + 1) PROVE Upto(k) \in [1..k -> Seq(Byte)] /\ k \in Nat
  <2>1. \A i \in 1..k : i \in 1..(n + 1)
    BY <1>1
  <2>2. QED
    BY <1>1, <1>2, <2>1
<1>4. 0 \in T
  <2> DEFINE x == [i \in 1..0 |-> <<>>]
             y == Upto(0 + 1)
  <2>1. OneMore(0, x, socket, y)
    <3>1. /\ x \in [1..0 -> Seq(Byte)] /\ y \in [1..(0 + 1) -> Seq(Byte)] /\ 0 \in Nat
          /\ (\A i \in 1..0 : y[i] = x[i]) /\ y[0 + 1] = socket
      BY <1>1, <1>2, <1>3
    <3> HIDE DEF x, y
    <3>2. QED
      BY <1>1, <3>1 DEF OneMore
  <2>2. FlattenSeq(x) = <<>>
    BY NothingFlat
  <2> HIDE DEF x
  <2>3. FlattenSeq(y) = FlattenSeq(x) \o socket
    <3> HIDE DEF y
    <3>1. QED
      BY <2>1, FlattenMore, Zenon
  <2>4. FlattenSeq(y) = socket
    BY <1>1, <2>2, <2>3, NoneJoined
  <2>5. s + 0 = s /\ 0 \in 0..n
    BY <1>1
  <2>6. QED
    BY <1>1, <2>4, <2>5
<1>5. ASSUME NEW k \in 1..n, k - 1 \in T PROVE k \in T
  <2> DEFINE m == s + (k - 1)
             x == Upto(k)
             y == Upto(k + 1)
             e == Encode(line[m + 1])
  <2>1. /\ m \in 0..Len(line) /\ m < Len(line) /\ m + 1 = s + k /\ k \in 0..n /\ (k - 1) + 1 = k
        /\ k \in 0..(n + 1) /\ k + 1 \in 0..(n + 1) /\ k + 1 \in 1..(n + 1) /\ line[m + 1] \in Frame
    BY <1>1
  <2>2. Fills(FlattenSeq(x), line, m)
    BY <1>5, <2>1
  <2>3. OneMore(k, x, e, y)
    <3>1. x \in [1..k -> Seq(Byte)] /\ y \in [1..(k + 1) -> Seq(Byte)] /\ k \in Nat
      BY <1>3, <2>1
    <3>2. (\A i \in 1..k : y[i] = x[i]) /\ y[k + 1] = all[k + 1]
      BY <2>1
    <3>3. all[k + 1] = e /\ e \in Seq(Byte)
      BY <1>1, <1>2, <2>1, EncodeIs
    <3> HIDE DEF x, y, e
    <3>4. QED
      BY <3>1, <3>2, <3>3 DEF OneMore
  <2> HIDE DEF x, y
  <2>4. FlattenSeq(y) = FlattenSeq(x) \o e /\ FlattenSeq(x) \in Seq(Byte)
    <3> HIDE DEF e
    <3>1. QED
      BY <2>3, FlattenMore, Zenon
  <2>5. Fills(FlattenSeq(x) \o Encode(line[m + 1]), line, m + 1)
    <3> HIDE DEF m
    <3>1. QED
      BY <2>1, <2>2, <2>4, FillsMore
  <2>6. Fills(FlattenSeq(y), line, s + k)
    BY <2>1, <2>4, <2>5
  <2>7. QED
    BY <2>1, <2>6 DEF y
<1> HIDE DEF T
<1>6. n \in T
  <2>1. \A k \in 0..n : k \in T
    BY <1>1, <1>4, <1>5, AllIndices
  <2>2. QED
    BY <1>1, <2>1
<1>7. Upto(n + 1) = all /\ s + n = Len(line)
  BY <1>1, <1>2
<1>8. Fills(FlattenSeq(Upto(n + 1)), line, s + n)
  BY <1>6 DEF T
<1> HIDE DEF Upto
<1>9. QED
  BY <1>7, <1>8 DEF Unread, all

(* One answer at most, and a heartbeat for every other frame. *)
LEMMA LineIsShort ==
    ASSUME NEW line \in Seq(Frame), Answers(line)
    PROVE  Len(line) <= Times(Heartbeat, line) + 1 /\ Len(line) \in Nat
<1> DEFINE H == {i \in DOMAIN line : line[i] = Heartbeat}
           A == {i \in DOMAIN line : line[i] # Heartbeat}
<1>1. Len(line) \in Nat /\ DOMAIN line = 1..Len(line) /\ H \cup A = 1..Len(line) /\ H \cap A = {}
  OBVIOUS
<1>2. \A i, j \in A : i = j
  BY <1>1 DEF Answers
<1> HIDE DEF A
<1>3. IsFiniteSet(A) /\ Cardinality(A) \in 0..1
  <2>1. CASE A = {}
    BY <2>1, FS_EmptySet
  <2>2. CASE A # {}
    <3>1. PICK a : a \in A
      BY <2>2
    <3>2. A = {a}
      BY <1>2, <3>1
    <3>3. IsFiniteSet({a}) /\ Cardinality({a}) = 1
      BY FS_Singleton
    <3>4. QED
      BY <3>2, <3>3
  <2>3. QED
    BY <2>1, <2>2
<1>4. IsFiniteSet(H) /\ Cardinality(H) = Times(Heartbeat, line) /\ Times(Heartbeat, line) \in Nat
  BY TimesFacts DEF Times
<1> HIDE DEF H
<1>5. Cardinality(H \cup A) = Cardinality(H) + Cardinality(A) - Cardinality(H \cap A)
  BY <1>3, <1>4, FS_Union
<1>6. Cardinality(1..Len(line)) = Len(line) /\ Cardinality({}) = 0
  <2>1. 1 \in Int /\ Len(line) \in Int
    BY <1>1
  <2>2. Cardinality(1..Len(line)) = IF 1 > Len(line) THEN 0 ELSE Len(line) - 1 + 1
    BY <2>1, FS_Interval
  <2>3. QED
    BY <1>1, <2>2, FS_EmptySet
<1>7. Cardinality(1..Len(line)) = Cardinality(H) + Cardinality(A) - Cardinality({})
  BY <1>1, <1>5, Zenon
<1>8. QED
  BY <1>1, <1>3, <1>4, <1>6, <1>7

LEMMA AnsweredFromTalk ==
    ASSUME NEW line \in Seq(Frame), NEW s \in Nat, Talk(line, s), Paired(line), pc \in {"idle", "size"}, open
    PROVE  /\ line \in BoundedSeq({Ok, Heartbeat}, MaxBeats + 1)
           /\ Unread = FlattenSeq([i \in DOMAIN line |-> Encode(line[i])])
           /\ beats = nops + Times(Nop, toNsqd) + Times(Heartbeat, line)
<1>1. /\ ConversationTypes /\ s \in 0..Len(line) /\ Arriving(line, s) /\ Answers(line)
      /\ toNsqd \in Seq(Units)
  BY DEF Talk, ConversationTypes
<1>2. /\ beats \in 0..MaxBeats /\ nops \in Nat
      /\ beats = nops + Times(Nop, toNsqd) + Times(Heartbeat, line)
      /\ \A i \in 1..Len(line) : line[i] # Error
  BY DEF Paired
<1>3. DOMAIN line = 1..Len(line) /\ line \in [1..Len(line) -> Frame]
  OBVIOUS
<1>4. Unread = FlattenSeq([i \in DOMAIN line |-> Encode(line[i])])
  <2>1. Fills(Unread, line, Len(line))
    BY <1>1, UnreadIs
  <2>2. QED
    BY <1>3, <2>1 DEF Fills, Encoded
<1>5. Len(line) \in 0..(MaxBeats + 1)
  <2>1. Times(Nop, toNsqd) \in Nat /\ Times(Heartbeat, line) \in Nat
    BY <1>1, TimesFacts
  <2>2. Len(line) <= Times(Heartbeat, line) + 1 /\ Len(line) \in Nat /\ MaxBeats \in Nat
    BY <1>1, LineIsShort, PublisherAssumption
  <2> DEFINE a == Times(Nop, toNsqd)
             b == Times(Heartbeat, line)
  <2>3. beats = nops + a + b /\ a \in Nat /\ b \in Nat /\ Len(line) <= b + 1
    BY <1>2, <2>1, <2>2
  <2> HIDE DEF a, b
  <2>4. QED
    BY <1>2, <2>2, <2>3
<1>6. line \in [1..Len(line) -> {Ok, Heartbeat}]
  BY <1>2, <1>3 DEF Frame
<1>7. line \in BoundedSeq({Ok, Heartbeat}, MaxBeats + 1)
  BY <1>5, <1>6 DEF BoundedSeq, SeqOf
<1>8. QED
  BY <1>2, <1>4, <1>7

(* While nsqd's end is open, what is unread between two reads is whole     *)
(* frames, and each heartbeat not among them has its NOP, on the way or    *)
(* there (pub.c:223-227, 310-311).                                         *)
THEOREM BeatsAreAnswered == Spec => []HeartbeatsAnswered
<1>1. Calm => HeartbeatsAnswered
  <2> SUFFICES ASSUME Calm, hazards = {}, pc \in {"idle", "size"}, open PROVE HeartbeatsAnswered
    BY DEF HeartbeatsAnswered
  <2>1. PICK line \in Seq(Frame), s \in Nat : Talk(line, s) /\ Paired(line)
    BY DEF Calm, Conversation
  <2>2. QED
    BY <2>1, AnsweredFromTalk DEF HeartbeatsAnswered
<1>2. QED
  BY <1>1, CalmHolds, PTL

-----------------------------------------------------------------------------
(* Every message nsqd has as it was sent had its OK, whatever happens. *)
StoredOK == oks \in Nat /\ IsFiniteSet(stored) /\ Cardinality(stored) <= oks

LEMMA StoredStep == StoredOK /\ [Next]_vars => StoredOK'
<1> SUFFICES ASSUME StoredOK, [Next]_vars PROVE StoredOK'
  OBVIOUS
<1>1. CASE NsqdStep /\ NsqdStores
  <2>1. oks' = oks + 1 /\ (stored' = stored \/ \E m : stored' = stored \cup {m})
    BY <1>1 DEF NsqdStores
  <2> DEFINE c == Cardinality(stored)
  <2>2. IsFiniteSet(stored) /\ c \in Nat /\ oks \in Nat /\ c <= oks
    BY FS_CardinalityType DEF StoredOK
  <2>3. CASE stored' = stored
    <3>1. Cardinality(stored') = c
      BY <2>3
    <3>2. oks' \in Nat /\ c <= oks'
      <4> HIDE DEF c
      <4> QED
        BY <2>1, <2>2
    <3>3. QED
      BY <2>2, <2>3, <3>1, <3>2 DEF StoredOK
  <2>4. CASE \E m : stored' = stored \cup {m}
    <3>1. PICK m : stored' = stored \cup {m}
      BY <2>4
    <3>2. /\ IsFiniteSet(stored \cup {m})
          /\ Cardinality(stored \cup {m}) = IF m \in stored THEN c ELSE c + 1
      BY <2>2, FS_AddElement
    <3>3. /\ IsFiniteSet(stored')
          /\ Cardinality(stored') = c \/ Cardinality(stored') = c + 1
      BY <3>1, <3>2
    <3>4. oks' \in Nat /\ Cardinality(stored') <= oks'
      <4> HIDE DEF c
      <4> QED
        BY <2>1, <2>2, <3>3
    <3>5. QED
      BY <3>3, <3>4 DEF StoredOK
  <2>5. QED
    BY <2>1, <2>3, <2>4
<1>2. CASE UNCHANGED <<stored, oks>>
  BY <1>2 DEF StoredOK
<1>3. UNCHANGED <<stored, oks>> \/ (NsqdStep /\ NsqdStores)
  <2>1. CASE NsqdStep
    BY <2>1 DEF NsqdStep, NsqdTakesPart, NsqdRefuses, NsqdHearsNop, NsqdRejects
  <2>2. CASE publish \/ deferredPublish
    BY <2>2 DEF publish, deferredPublish, Call, nsqd
  <2>3. CASE PublisherStep
    BY <2>3 DEF PublisherStep, LostConnection, ReadSize, ReadMore, ReplyOk, ReplyHeartbeat, ReplyOther,
                ReadOverrun, ReadWhole, nsqd
  <2>4. CASE NsqdBeats \/ NsqdCloses \/ Arrive
    BY <2>4 DEF NsqdBeats, NsqdCloses, Arrive, nsqd
  <2>5. CASE UNCHANGED vars
    BY <2>5 DEF vars, nsqd
  <2>6. QED
    BY <2>1, <2>2, <2>3, <2>4, <2>5 DEF Next
<1>4. QED
  BY <1>1, <1>2, <1>3

(* With whole frames and whole sends no call returns true without an OK of *)
(* its own, heartbeats and errors or not (pub.c:219-233, 295-309).         *)
THEOREM TrueHasItsOk == Spec => [](hazards = {} => TrueHasAnOk)
<1>1. Init => StoredOK
  <2>1. Init => oks = 0 /\ stored = {}
    BY DEF Init
  <2>2. QED
    BY <2>1, FS_EmptySet DEF StoredOK
<1>2. Calm /\ StoredOK => (hazards = {} => TrueHasAnOk)
  <2> SUFFICES ASSUME Calm, StoredOK, hazards = {} PROVE TrueHasAnOk
    OBVIOUS
  <2> DEFINE T == {m \in Message : results[m] = "true"}
  <2>1. T \subseteq stored
    BY DEF Calm, Honest
  <2> HIDE DEF T
  <2>2. Cardinality(T) <= Cardinality(stored) /\ IsFiniteSet(T)
    BY <2>1, FS_Subset DEF StoredOK
  <2>3. Cardinality(T) \in Nat /\ Cardinality(stored) \in Nat
    BY <2>2, FS_CardinalityType DEF StoredOK
  <2>4. Cardinality(T) <= oks
    BY <2>2, <2>3 DEF StoredOK
  <2>5. QED
    BY <2>4 DEF TrueHasAnOk, T
<1>3. QED
  BY <1>1, <1>2, StoredStep, CalmHolds, PTL DEF Spec
==============================================================================
