--------------------------- MODULE WorkerLoopProofs ---------------------------
(***************************************************************************)
(* The event loop of a worker, in time and over reconnects. A consumer     *)
(* whose callbacks stay under one heartbeat interval, or call touch() that *)
(* often, is never closed for its silence: without its queue, and with it, *)
(* as the loop with its queue is Heartbeat's loop. And no message is taken *)
(* back for its wait in the queue as long as Rdy callbacks stay under the  *)
(* message timeout. For every interval, Rdy, callback length and timeout.  *)
(*                                                                         *)
(* A worker that reconnects has one connection, leaves at most one socket  *)
(* behind for each EOF, and, if every socket can be opened, frees no       *)
(* bufferevent twice: for any number of descriptors and of losses.         *)
(***************************************************************************)
EXTENDS EventLoop, Reconnect, FiniteSetTheorems, SequenceTheorems, TLAPS

-----------------------------------------------------------------------------
(* Heartbeat: the loop without its queue. *)

LEMMA TypeInit == Init => TypeOK
<1> SUFFICES ASSUME Init PROVE TypeOK
  OBVIOUS
<1>1. ClocksOK
  BY HeartbeatAssumption DEF Init, ClocksOK
<1>2. FlagsOK
  BY Zenon DEF Init, FlagsOK
<1>3. QED
  BY <1>1, <1>2 DEF TypeOK

LEMMA ClocksStep == TypeOK /\ [Next]_vars => ClocksOK'
<1> SUFFICES ASSUME ClocksOK, [Next]_vars PROVE ClocksOK'
  BY DEF TypeOK
<1> USE HeartbeatAssumption DEF ClocksOK
<1>1. CASE process_message_queue
  BY <1>1 DEF process_message_queue
<1>2. CASE touch
  BY <1>2 DEF touch
<1>3. CASE Tick
  <2>1. silence' \in Nat
    BY <1>3 DEF Tick
  <2>2. quiet' \in 0..D
    BY <1>3 DEF Tick
  <2>3. sinceBeat' = IF sinceBeat + 1 = HB THEN 0 ELSE sinceBeat + 1
    BY <1>3 DEF Tick
  <2>4. QED
    BY <2>1, <2>2, <2>3
<1>4. CASE InputOutput
  <2>1. UNCHANGED <<sinceBeat, quiet>> /\ (silence' = 0 \/ silence' = silence)
    BY <1>4, Zenon DEF InputOutput
  <2>2. QED
    BY <2>1
<1>5. CASE Poll \/ CallbackReturns \/ UNCHANGED vars
  BY <1>5 DEF Poll, CallbackReturns, vars
<1>6. QED
  BY <1>1, <1>2, <1>3, <1>4, <1>5 DEF Next

LEMMA FlagsStep == TypeOK /\ [Next]_vars => FlagsOK'
<1> SUFFICES ASSUME FlagsOK, [Next]_vars PROVE FlagsOK'
  BY DEF TypeOK
<1> USE DEF FlagsOK
<1>1. CASE Poll
  BY <1>1, Zenon DEF Poll
<1>2. CASE InputOutput
  BY <1>2, Zenon DEF InputOutput
<1>3. CASE process_message_queue
  BY <1>3, Zenon DEF process_message_queue
<1>4. CASE CallbackReturns
  BY <1>4, Zenon DEF CallbackReturns
<1>5. CASE Tick
  BY <1>5, Zenon DEF Tick
<1>6. CASE touch \/ UNCHANGED vars
  BY <1>6, Zenon DEF touch, vars
<1>7. QED
  BY <1>1, <1>2, <1>3, <1>4, <1>5, <1>6 DEF Next

LEMMA TypeStep == TypeOK /\ [Next]_vars => TypeOK'
  BY ClocksStep, FlagsStep DEF TypeOK

(* The clocks and the flags of the event loop keep to their types. *)
THEOREM TypeCorrect == Spec => []TypeOK
  BY TypeInit, TypeStep, PTL DEF Spec

LEMMA SilenceStep == TypeOK /\ SilenceBounded /\ [Next]_vars => SilenceBounded'
<1> SUFFICES ASSUME TypeOK, SilenceBounded, [Next]_vars PROVE SilenceBounded'
  OBVIOUS
<1> USE HeartbeatAssumption DEF TypeOK, ClocksOK, FlagsOK, SilenceBounded
<1>1. CASE Poll
  BY <1>1 DEF Poll
<1>2. CASE InputOutput
  <2>1. CASE writing
    BY <1>2, <2>1 DEF InputOutput
  <2>2. CASE ~writing
    BY <1>2, <2>2 DEF InputOutput
  <2>3. QED
    BY <2>1, <2>2
<1>3. CASE process_message_queue
  BY <1>3 DEF process_message_queue
<1>4. CASE touch
  BY <1>4 DEF touch
<1>5. CASE CallbackReturns
  BY <1>5 DEF CallbackReturns
<1>6. CASE Tick
  <2>1. CASE pc = "poll" /\ ~beat /\ ~outbuf
    BY <1>6, <2>1 DEF Tick
  <2>2. CASE pc = "callback"
    BY <1>6, <2>2 DEF Tick
  <2>3. QED
    BY <1>6, <2>1, <2>2 DEF Tick
<1>7. CASE UNCHANGED vars
  BY <1>7 DEF vars
<1>8. QED
  BY <1>1, <1>2, <1>3, <1>4, <1>5, <1>6, <1>7 DEF Next

(* The silence nsqd sees never exceeds one heartbeat interval and one      *)
(* stretch of a callback.                                                  *)
THEOREM BoundedSilence == Spec => []SilenceBounded
<1>1. Init => SilenceBounded
  BY HeartbeatAssumption DEF Init, SilenceBounded
<1>2. QED
  BY <1>1, TypeInit, TypeStep, SilenceStep, PTL DEF Spec

(* So nsqd never closes the connection of a consumer whose callbacks stay  *)
(* under one heartbeat interval (sub.c:189, 192, 325; command.c:47-55).    *)
THEOREM HeartbeatsSuffice == D < HB => (Spec => []NeverClosed)
<1> SUFFICES ASSUME D < HB PROVE Spec => []NeverClosed
  OBVIOUS
<1>1. TypeOK /\ SilenceBounded => NeverClosed
  BY HeartbeatAssumption DEF TypeOK, ClocksOK, SilenceBounded, NeverClosed, Closed
<1>2. QED
  BY <1>1, TypeCorrect, BoundedSilence, PTL

-----------------------------------------------------------------------------
(* Every step of the loop with its queue is one of the loop, or none.      *)
LEMMA StepOfHeartbeat == [LoopNext]_loopVars => [Next]_vars
<1> SUFFICES ASSUME [LoopNext]_loopVars PROVE [Next]_vars
  OBVIOUS
<1>1. CASE Deliver
  BY <1>1 DEF Deliver
<1>2. CASE LoopPoll \/ LoopInputOutput \/ LoopTimer \/ LoopTouch \/ LoopReturn \/ LoopTick
  BY <1>2, Zenon DEF LoopPoll, LoopInputOutput, LoopTimer, LoopTouch, LoopReturn, LoopTick, Next
<1>3. CASE UNCHANGED loopVars
  BY <1>3 DEF loopVars
<1>4. QED
  BY <1>1, <1>2, <1>3 DEF LoopNext

(* The event loop with its queue implements Heartbeat (sub.c:184-245).     *)
THEOREM ImplementsHeartbeat == LoopSpec => Spec
<1>1. LoopInit => Init
  BY DEF LoopInit
<1>2. QED
  BY <1>1, StepOfHeartbeat, PTL DEF LoopSpec, Spec

(* With its queue or without: if callbacks stay under one heartbeat        *)
(* interval, nsqd never closes the connection (sub.c:189).                 *)
THEOREM LoopNeverClosed == D < HB => (LoopSpec => []NeverClosed)
  BY ImplementsHeartbeat, HeartbeatsSuffice

(* Silence is at most one interval and one callback (sub.c:189). *)
THEOREM LoopSilenceBounded == LoopSpec => []SilenceBounded
  BY ImplementsHeartbeat, BoundedSilence

-----------------------------------------------------------------------------
LEMMA QueueInit == LoopInit => QueueOK
  BY EventLoopAssumption DEF LoopInit, Init, QueueOK

LEMMA QueueStep == QueueOK /\ [LoopNext]_loopVars => QueueOK'
<1> SUFFICES ASSUME QueueOK, [LoopNext]_loopVars PROVE QueueOK'
  OBVIOUS
<1> USE EventLoopAssumption DEF QueueOK
<1>1. CASE Deliver
  BY <1>1 DEF Deliver, vars
<1>2. CASE LoopPoll
  BY <1>2 DEF LoopPoll, Poll, queue
<1>3. CASE LoopInputOutput
  <2>1. pc = "io" /\ pc' = "timer" /\ UNCHANGED <<ages, spent>> /\ queued' \in queued..Len(ages)
    BY <1>3 DEF LoopInputOutput, InputOutput
  <2>2. QED
    BY <2>1
<1>4. CASE LoopTimer
  <2>1. pc = "timer" /\ (pc' = "callback" <=> queued > 0) /\ UNCHANGED <<ages, queued, spent>>
    BY <1>4 DEF LoopTimer, process_message_queue, queue
  <2>2. QED
    BY <2>1
<1>5. CASE LoopTouch
  <2>1. pc = "callback" /\ pc' = pc /\ ages' = [ages EXCEPT ![1] = 0] /\ UNCHANGED <<queued, spent>>
    BY <1>5 DEF LoopTouch, touch
  <2>2. ages' \in Seq(Nat) /\ Len(ages') = Len(ages)
    BY <2>1
  <2>3. QED
    BY <2>1, <2>2
<1>6. CASE LoopReturn
  <2>1. pc = "callback" /\ pc' = "poll" /\ ages' = Tail(ages) /\ queued' = queued - 1 /\ spent' = 0
    BY <1>6 DEF LoopReturn, CallbackReturns
  <2>2. ages # <<>>
    BY <2>1
  <2>3. ages' \in Seq(Nat) /\ Len(ages') = Len(ages) - 1
    BY <2>1, <2>2
  <2>4. QED
    BY <2>1, <2>3
<1>7. CASE LoopTick
  <2>1. /\ pc' = pc /\ UNCHANGED queued
        /\ ages' = [i \in 1..Len(ages) |-> ages[i] + 1]
        /\ \/ pc = "poll" /\ spent' = spent
           \/ pc = "callback" /\ spent < C /\ spent' = spent + 1
    BY <1>7 DEF LoopTick, Tick
  <2>2. ages' \in Seq(Nat) /\ Len(ages') = Len(ages)
    BY <2>1
  <2>3. spent' \in 0..C
    BY <2>1
  <2>4. QED
    BY <2>1, <2>2, <2>3
<1>8. CASE UNCHANGED loopVars
  BY <1>8 DEF loopVars, queue, vars
<1>9. QED
  BY <1>1, <1>2, <1>3, <1>4, <1>5, <1>6, <1>7, <1>8 DEF LoopNext

(* The loop's flags and clocks and its queue keep their types; a callback  *)
(* runs on a message that is queued (sub.c:184-200).                       *)
THEOREM LoopTypeCorrect == LoopSpec => []LoopTypeOK
<1>1. LoopSpec => []QueueOK
  BY QueueInit, QueueStep, PTL DEF LoopSpec
<1>2. QED
  BY <1>1, ImplementsHeartbeat, TypeCorrect, PTL DEF LoopTypeOK

-----------------------------------------------------------------------------
(* One place further back in the queue is one callback more to wait for. *)
LEMMA Product ==
    /\ \A k \in Nat : k * C \in Nat
    /\ \A k \in Nat : (k + 1) * C = k * C + C
  BY EventLoopAssumption

LEMMA WaitStep == QueueOK /\ WaitBounded /\ [LoopNext]_loopVars => WaitBounded'
<1> SUFFICES ASSUME QueueOK, WaitBounded, [LoopNext]_loopVars PROVE WaitBounded'
  OBVIOUS
<1> USE EventLoopAssumption DEF QueueOK, WaitBounded
<1>1. \A i \in 1..Rdy : (Rdy - i) * C \in Nat /\ Rdy - i \in Nat
  <2> SUFFICES ASSUME NEW i \in 1..Rdy PROVE (Rdy - i) * C \in Nat /\ Rdy - i \in Nat
    OBVIOUS
  <2>1. Rdy - i \in Nat
    OBVIOUS
  <2>2. QED
    BY <2>1, Product
<1>2. CASE Deliver
  <2>1. /\ Len(ages') = Len(ages) + 1 /\ Len(ages) + 1 <= Rdy /\ spent' = spent
        /\ ages'[Len(ages) + 1] = 0
        /\ \A i \in 1..Len(ages) : ages'[i] = ages[i]
    BY <1>2 DEF Deliver
  <2>2. ASSUME NEW i \in 1..Len(ages') PROVE ages'[i] <= (Rdy - i) * C + spent'
    <3>1. CASE i \in 1..Len(ages)
      BY <2>1, <3>1
    <3>2. CASE i = Len(ages) + 1
      <4>1. i \in 1..Rdy
        BY <2>1, <3>2
      <4>2. (Rdy - i) * C \in Nat
        BY <1>1, <4>1
      <4>3. ASSUME NEW p \in Nat PROVE 0 <= p + spent
        OBVIOUS
      <4>4. QED
        BY <2>1, <3>2, <4>2, <4>3
    <3>3. QED
      BY <2>1, <3>1, <3>2
  <2>3. QED
    BY <2>1, <2>2
<1>3. CASE LoopPoll \/ LoopInputOutput \/ LoopTimer \/ UNCHANGED loopVars
  <2>1. UNCHANGED <<ages, spent>>
    BY <1>3 DEF LoopPoll, LoopInputOutput, LoopTimer, queue, loopVars
  <2>2. QED
    BY <2>1
<1>4. CASE LoopTouch
  <2>1. ages' = [ages EXCEPT ![1] = 0] /\ spent' = spent /\ Len(ages') = Len(ages)
    BY <1>4 DEF LoopTouch
  <2>2. ASSUME NEW i \in 1..Len(ages') PROVE ages'[i] <= (Rdy - i) * C + spent'
    <3>1. ages'[i] = 0 \/ ages'[i] = ages[i]
      BY <2>1
    <3>2. QED
      BY <1>1, <2>1, <3>1
  <2>3. QED
    BY <2>1, <2>2
<1>5. CASE LoopReturn
  <2>1. Len(ages') = Len(ages) - 1 /\ spent' = 0 /\ ages' = Tail(ages) /\ ages # <<>> /\ spent <= C
    BY <1>5 DEF LoopReturn, CallbackReturns
  <2>2. ASSUME NEW i \in 1..Len(ages') PROVE ages'[i] <= (Rdy - i) * C
    <3>1. i + 1 \in 1..Len(ages) /\ ages'[i] = ages[i + 1]
      BY <2>1
    <3>2. ages[i + 1] <= (Rdy - (i + 1)) * C + C
      BY <1>1, <2>1, <3>1
    <3>3. (Rdy - (i + 1)) * C + C = (Rdy - i) * C
      <4>1. Rdy - (i + 1) \in Nat /\ (Rdy - (i + 1)) + 1 = Rdy - i
        BY <3>1
      <4>2. QED
        BY <4>1, Product
    <3>4. QED
      BY <3>1, <3>2, <3>3
  <2>3. QED
    BY <1>1, <2>1, <2>2
<1>6. CASE LoopTick
  <2>1. CASE pc = "poll"
    BY <1>6, <2>1 DEF LoopTick
  <2>2. CASE pc # "poll"
    BY <1>1, <1>6, <2>2 DEF LoopTick
  <2>3. QED
    BY <2>1, <2>2
<1>7. QED
  BY <1>2, <1>3, <1>4, <1>5, <1>6 DEF LoopNext

(* The message in place i waits for at most Rdy - i callbacks and the one  *)
(* that is running (sub.c:184-201).                                        *)
THEOREM BoundedWait == LoopSpec => []WaitBounded
<1>1. LoopInit => WaitBounded
  BY EventLoopAssumption DEF LoopInit, WaitBounded
<1>2. QED
  BY <1>1, QueueInit, QueueStep, WaitStep, PTL DEF LoopSpec

(* If Rdy callbacks stay under the timeout, nsqd takes no message back. *)
THEOREM TimeoutSuffices == Rdy * C < T => (LoopSpec => []NeverTimedOut)
<1> SUFFICES ASSUME Rdy * C < T PROVE LoopSpec => []NeverTimedOut
  OBVIOUS
<1>1. QueueOK /\ WaitBounded => NeverTimedOut
  <2> SUFFICES ASSUME QueueOK, WaitBounded, NEW i \in 1..Len(ages) PROVE ages[i] < T
    BY DEF NeverTimedOut
  <2> USE EventLoopAssumption DEF QueueOK, WaitBounded
  <2>1. i \in 1..Rdy /\ spent <= C
    OBVIOUS
  <2>2. (Rdy - i) * C + C <= Rdy * C
    <3>1. (Rdy - i) * C = Rdy * C - i * C
      BY <2>1
    <3>2. i * C = (i - 1) * C + C /\ (i - 1) * C \in Nat
      <4>1. i - 1 \in Nat /\ (i - 1) + 1 = i
        BY <2>1
      <4>2. QED
        BY <4>1, Product
    <3>3. i * C \in Int /\ Rdy * C \in Int
      BY <2>1
    <3>4. QED
      BY <3>1, <3>2, <3>3
  <2>3. ages[i] <= (Rdy - i) * C + spent /\ ages[i] \in Nat
    OBVIOUS
  <2>4. (Rdy - i) * C \in Int /\ Rdy * C \in Int
    BY <2>1
  <2>5. ASSUME NEW p \in Int, NEW q \in Int, p + C <= q, q < T,
               ages[i] <= p + spent
        PROVE  ages[i] < T
    BY <2>1, <2>3, <2>5
  <2> HIDE DEF WaitBounded
  <2>6. QED
    BY <2>1, <2>2, <2>3, <2>4, <2>5
<1>2. QED
  BY <1>1, QueueInit, QueueStep, BoundedWait, PTL DEF LoopSpec

-----------------------------------------------------------------------------
(* Reconnect: the subscribe() calls a worker piles up. *)

BevState == Holding \cup {"unconnected", "freed", "freed twice"}
Branch == {"loop", "eof", "error", "deserted"}
Frame == [bev : Nat, at : Branch]

(* Sequences, so that what is appended to them is at their end. *)
CallsOK ==
    /\ bevs \in Seq(BevState) /\ frames \in Seq(Frame)
    /\ \A i \in 1..Len(frames) : frames[i].bev \in 1..Len(bevs)
    /\ bev_res \in 0..Len(bevs)

CountersOK ==
    /\ hazards \subseteq Hazards
    /\ stage \in {"subscribe", "loop", "return", "ended", "crashed"}
    /\ references \in 0..References
    /\ losses \in 0..MaxLosses /\ eofs \in 0..losses
    /\ bases \in 0..MaxFiles

(* Only the innermost call is in its loop, and only while it turns; it has *)
(* a connection in use, and no other call has.                             *)
Piled ==
    /\ stage = "loop" => frames # <<>>
    /\ stage = "loop" /\ Innermost.at = "loop" => bevs[Innermost.bev] \in {"connecting", "up"}
    /\ \A i \in 1..Len(frames) :
        i < Len(frames) \/ stage \in {"subscribe", "return"} => frames[i].at # "loop"
    /\ \A b \in 1..Len(bevs) : bevs[b] \in {"connecting", "up"} =>
        stage \in {"loop", "crashed"} /\ frames # <<>> /\ b = Innermost.bev

LeftBehind == {b \in 1..Len(bevs) : bevs[b] = "lost"}
LeftBehindOK == Cardinality(LeftBehind) <= eofs

(* What arg->bev_res points at. *)
PointerOK == "no_base" \notin hazards =>
    /\ stage = "return" =>
        /\ bev_res # 0 /\ bevs[bev_res] = "unconnected"
        /\ \A i \in 1..Len(frames) : frames[i].bev # bev_res
    /\ stage = "loop" =>
        /\ bev_res # 0
        /\ \/ bevs[bev_res] \in {"connecting", "up"} /\ bev_res = Innermost.bev
           \/ bevs[bev_res] = "unconnected" /\ Innermost.at = "deserted"

(* Where every socket can be opened: one bufferevent for each loss and for *)
(* the call that turns, and one event base.                                *)
Untroubled == hazards = {} /\ Ample
Opened == Untroubled =>
    /\ stage \in {"subscribe", "loop", "crashed"}
    /\ stage = "subscribe" => Len(bevs) = losses
    /\ stage # "subscribe" => Len(bevs) = losses + 1
    /\ bases <= Len(bevs)
    /\ \A b \in 1..Len(bevs) : bevs[b] # "unconnected" /\ bevs[b] # "freed twice"

Inv == CallsOK /\ CountersOK /\ Piled /\ LeftBehindOK /\ PointerOK /\ Opened

-----------------------------------------------------------------------------
(* What the operators do. *)

LEMMA Appended ==
    ASSUME NEW S, NEW seq \in Seq(S), NEW x \in S
    PROVE  /\ Append(seq, x) \in Seq(S) /\ Len(Append(seq, x)) = Len(seq) + 1
           /\ \A i \in 1..Len(seq) : Append(seq, x)[i] = seq[i]
           /\ Append(seq, x)[Len(seq) + 1] = x
  OBVIOUS

LEMMA Replaced ==
    ASSUME NEW S, NEW seq \in Seq(S), NEW k \in 1..Len(seq), NEW x \in S, NEW new,
           new = [seq EXCEPT ![k] = x]
    PROVE  /\ new \in Seq(S) /\ Len(new) = Len(seq) /\ new[k] = x
           /\ \A i \in 1..Len(seq) : i # k => new[i] = seq[i]
  OBVIOUS

LEMMA InnermostInRange ==
    ASSUME CallsOK, frames # <<>>
    PROVE  /\ Len(frames) \in 1..Len(frames) /\ Innermost \in Frame
           /\ Innermost.bev \in 1..Len(bevs)
  BY DEF CallsOK, Innermost

(* Only the innermost call goes elsewhere. *)
LEMMA Suspended ==
    ASSUME CallsOK, frames # <<>>, NEW branch \in Branch, Suspend(branch)
    PROVE  /\ frames' \in Seq(Frame) /\ Len(frames') = Len(frames)
           /\ \A i \in 1..Len(frames) : frames'[i].bev = frames[i].bev
           /\ \A i \in 1..Len(frames) : i # Len(frames) => frames'[i] = frames[i]
           /\ frames'[Len(frames)].at = branch
<1> DEFINE new == [Innermost EXCEPT !.at = branch]
<1>1. new \in Frame /\ new.bev = Innermost.bev /\ new.at = branch
  BY InnermostInRange DEF Frame
<1>2. frames' = [frames EXCEPT ![Len(frames)] = new]
  BY DEF Suspend, Innermost
<1>3. frames \in Seq(Frame) /\ Len(frames) \in 1..Len(frames)
  BY InnermostInRange DEF CallsOK
<1>4. /\ frames' \in Seq(Frame) /\ Len(frames') = Len(frames) /\ frames'[Len(frames)] = new
      /\ \A i \in 1..Len(frames) : i # Len(frames) => frames'[i] = frames[i]
  <2> HIDE DEF new
  <2>1. QED
    BY <1>1, <1>2, <1>3, Replaced
<1>5. QED
  BY <1>1, <1>4 DEF Innermost

(* One bufferevent changes, the others are as they were. *)
LEMMA Changed ==
    ASSUME CallsOK, NEW k \in 1..Len(bevs), NEW state \in BevState,
           bevs' = [bevs EXCEPT ![k] = state]
    PROVE  /\ bevs' \in Seq(BevState) /\ Len(bevs') = Len(bevs) /\ bevs'[k] = state
           /\ \A b \in 1..Len(bevs) : b # k => bevs'[b] = bevs[b]
<1>1. bevs \in Seq(BevState)
  BY DEF CallsOK
<1>2. QED
  BY <1>1, Replaced

(* A connection in use, or left behind. *)
LEMMA SocketsCounted ==
    ASSUME CallsOK
    PROVE  /\ IsFiniteSet(LeftBehind) /\ Cardinality(LeftBehind) \in Nat
           /\ Sockets \in Nat
           /\ (\A b \in 1..Len(bevs) : bevs[b] \notin {"connecting", "up"}) => Sockets = Cardinality(LeftBehind)
           /\ Piled => Sockets <= Cardinality(LeftBehind) + 1
<1> DEFINE H == {b \in DOMAIN bevs : bevs[b] \in Holding}
<1>1. DOMAIN bevs = 1..Len(bevs) /\ Len(bevs) \in Nat
  BY DEF CallsOK
<1>2. IsFiniteSet(1..Len(bevs))
  BY <1>1, FS_Interval
<1>3. IsFiniteSet(H) /\ IsFiniteSet(LeftBehind)
  BY <1>1, <1>2, FS_Subset DEF LeftBehind
<1>4. Cardinality(H) \in Nat /\ Cardinality(LeftBehind) \in Nat
  BY <1>3, FS_CardinalityType
<1>5. ASSUME \A b \in 1..Len(bevs) : bevs[b] \notin {"connecting", "up"}
      PROVE  H = LeftBehind
  BY <1>1, <1>5 DEF Holding, LeftBehind
<1>6. ASSUME Piled
      PROVE  Cardinality(H) <= Cardinality(LeftBehind) + 1
  <2>1. H \subseteq LeftBehind \cup {Innermost.bev}
    <3>1. ASSUME NEW b \in H PROVE b \in LeftBehind \cup {Innermost.bev}
      <4>1. b \in 1..Len(bevs) /\ bevs[b] \in {"connecting", "up", "lost"}
        BY <1>1 DEF Holding
      <4>2. CASE bevs[b] = "lost"
        BY <4>1, <4>2 DEF LeftBehind
      <4>3. CASE bevs[b] \in {"connecting", "up"}
        BY <1>6, <4>1, <4>3 DEF Piled
      <4>4. QED
        BY <4>1, <4>2, <4>3
    <3>2. QED
      BY <3>1
  <2>2. IsFiniteSet(LeftBehind \cup {Innermost.bev})
        /\ Cardinality(LeftBehind \cup {Innermost.bev}) <= Cardinality(LeftBehind) + 1
    <3>1. /\ IsFiniteSet(LeftBehind \cup {Innermost.bev})
          /\ Cardinality(LeftBehind \cup {Innermost.bev}) =
              IF Innermost.bev \in LeftBehind THEN Cardinality(LeftBehind) ELSE Cardinality(LeftBehind) + 1
      BY <1>3, FS_AddElement, Zenon
    <3>2. QED
      BY <1>4, <3>1
  <2>3. Cardinality(H) <= Cardinality(LeftBehind \cup {Innermost.bev})
    BY <2>1, <2>2, FS_Subset
  <2>4. Cardinality(LeftBehind \cup {Innermost.bev}) \in Nat
    BY <2>2, FS_CardinalityType
  <2>5. QED
    BY <1>4, <2>2, <2>3, <2>4
<1>7. QED
  BY <1>3, <1>4, <1>5, <1>6 DEF Sockets

-----------------------------------------------------------------------------
(* What the actions do to the calls and to the bufferevents. *)

LEMMA SubscribeEffect ==
    ASSUME CallsOK, subscribe
    PROVE  /\ bevs' \in Seq(BevState) /\ Len(bevs') = Len(bevs) + 1
           /\ \A b \in 1..Len(bevs) : bevs'[b] = bevs[b]
           /\ bevs'[Len(bevs) + 1] = "connecting" /\ bev_res' = Len(bevs) + 1
           /\ frames' \in Seq(Frame) /\ Len(frames') = Len(frames) + 1
           /\ \A i \in 1..Len(frames) : frames'[i] = frames[i]
           /\ frames'[Len(frames) + 1].bev = Len(bevs) + 1
           /\ frames'[Len(frames) + 1].at = "loop"
<1>1. bevs \in Seq(BevState) /\ "connecting" \in BevState /\ frames \in Seq(Frame)
  BY DEF CallsOK, BevState, Holding
<1>2. /\ bevs' = Append(bevs, "connecting") /\ bev_res' = Len(bevs')
      /\ frames' = Append(frames, [bev |-> Len(bevs'), at |-> "loop"])
  BY DEF subscribe
<1>3. /\ bevs' \in Seq(BevState) /\ Len(bevs') = Len(bevs) + 1
      /\ \A b \in 1..Len(bevs) : bevs'[b] = bevs[b]
      /\ bevs'[Len(bevs) + 1] = "connecting"
  BY <1>1, <1>2, Appended
<1>4. [bev |-> Len(bevs'), at |-> "loop"] \in Frame
  BY <1>1, <1>3 DEF Frame, Branch
<1>5. QED
  BY <1>1, <1>2, <1>3, <1>4, Appended

LEMMA ConnectFailsEffect ==
    ASSUME CallsOK, ConnectFails
    PROVE  /\ bevs' \in Seq(BevState) /\ Len(bevs') = Len(bevs) + 1
           /\ \A b \in 1..Len(bevs) : bevs'[b] = bevs[b]
           /\ bevs'[Len(bevs) + 1] = "unconnected" /\ bev_res' = Len(bevs) + 1
           /\ frames' = frames
<1>1. bevs \in Seq(BevState) /\ "unconnected" \in BevState
  BY DEF CallsOK, BevState
<1>2. bevs' = Append(bevs, "unconnected") /\ bev_res' = Len(bevs') /\ frames' = frames
  BY DEF ConnectFails
<1>3. QED
  BY <1>1, <1>2, Appended

(* A bufferevent that is in use, or that has not been freed yet, is freed  *)
(* once.                                                                   *)
LEMMA FreeEffect ==
    ASSUME CallsOK, frames # <<>>, bufferevent_free(Innermost.bev)
    PROVE  /\ bevs' \in Seq(BevState) /\ Len(bevs') = Len(bevs)
           /\ bevs'[Innermost.bev] \in {"freed", "freed twice"}
           /\ bevs[Innermost.bev] \in Holding \cup {"unconnected"} => bevs'[Innermost.bev] = "freed"
           /\ \A b \in 1..Len(bevs) : b # Innermost.bev => bevs'[b] = bevs[b]
<1>1. "freed" \in BevState /\ "freed twice" \in BevState /\ Innermost.bev \in 1..Len(bevs)
  BY InnermostInRange DEF BevState
<1>2. CASE bevs[Innermost.bev] \in Holding \cup {"unconnected"}
  <2>1. bevs' = [bevs EXCEPT ![Innermost.bev] = "freed"]
    BY <1>2 DEF bufferevent_free
  <2>2. QED
    BY <1>1, <2>1, Changed
<1>3. CASE bevs[Innermost.bev] \notin Holding \cup {"unconnected"}
  <2>1. bevs' = [bevs EXCEPT ![Innermost.bev] = "freed twice"]
    BY <1>3 DEF bufferevent_free
  <2>2. /\ bevs' \in Seq(BevState) /\ Len(bevs') = Len(bevs) /\ bevs'[Innermost.bev] = "freed twice"
        /\ \A b \in 1..Len(bevs) : b # Innermost.bev => bevs'[b] = bevs[b]
    BY <1>1, <2>1, Changed
  <2>3. QED
    BY <1>3, <2>2
<1>4. QED
  BY <1>2, <1>3

LEMMA ConnectedEffect ==
    ASSUME CallsOK, frames # <<>>, Connected
    PROVE  /\ bevs' \in Seq(BevState) /\ Len(bevs') = Len(bevs) /\ bevs'[Innermost.bev] = "up"
           /\ \A b \in 1..Len(bevs) : b # Innermost.bev => bevs'[b] = bevs[b]
  BY InnermostInRange, Changed DEF Connected, BevState, Holding

LEMMA ConnEofEffect ==
    ASSUME CallsOK, frames # <<>>, ConnEof
    PROVE  /\ bevs' \in Seq(BevState) /\ Len(bevs') = Len(bevs) /\ bevs'[Innermost.bev] = "lost"
           /\ \A b \in 1..Len(bevs) : b # Innermost.bev => bevs'[b] = bevs[b]
  BY InnermostInRange, Changed DEF ConnEof, BevState, Holding

LEMMA ReturnEffect ==
    ASSUME CallsOK, Return, frames # <<>>
    PROVE  /\ Suspend("deserted") /\ bufferevent_free(Innermost.bev) /\ stage' = "loop"
           /\ frames' \in Seq(Frame) /\ Len(frames') = Len(frames)
           /\ \A i \in 1..Len(frames) : frames'[i].bev = frames[i].bev
           /\ \A i \in 1..Len(frames) : i # Len(frames) => frames'[i] = frames[i]
           /\ frames'[Len(frames)].at = "deserted"
<1>1. Suspend("deserted") /\ bufferevent_free(Innermost.bev) /\ stage' = "loop"
  BY DEF Return
<1>2. QED
  BY <1>1, Suspended DEF Branch

LEMMA LostEffect ==
    ASSUME CallsOK, frames # <<>>, ConnEof \/ ConnError
    PROVE  /\ stage' = "subscribe" /\ bev_res' = bev_res
           /\ frames' \in Seq(Frame) /\ Len(frames') = Len(frames)
           /\ \A i \in 1..Len(frames) : frames'[i].bev = frames[i].bev
           /\ \A i \in 1..Len(frames) : i # Len(frames) => frames'[i] = frames[i]
           /\ frames'[Len(frames)].at \in {"eof", "error"}
<1>1. CASE ConnEof
  <2>1. Suspend("eof") /\ stage' = "subscribe" /\ bev_res' = bev_res
    BY <1>1 DEF ConnEof, Lost
  <2>2. QED
    BY <2>1, Suspended DEF Branch
<1>2. CASE ConnError
  <2>1. Suspend("error") /\ stage' = "subscribe" /\ bev_res' = bev_res
    BY <1>2 DEF ConnError, Lost
  <2>2. QED
    BY <2>1, Suspended DEF Branch
<1>3. QED
  BY <1>1, <1>2

-----------------------------------------------------------------------------
(* The conjuncts of the invariant. *)

LEMMA InvInit == ReconnectInit => Inv
<1> SUFFICES ASSUME ReconnectInit PROVE Inv
  OBVIOUS
<1>1. bevs = <<>> /\ frames = <<>> /\ bev_res = 0 /\ bases = 0 /\ losses = 0 /\ eofs = 0
      /\ stage = "subscribe" /\ references = References
  BY DEF ReconnectInit
<1>2. CallsOK
  BY <1>1 DEF CallsOK
<1>3. CountersOK
  BY <1>1, ReconnectAssumption DEF ReconnectInit, CountersOK
<1>4. Piled /\ PointerOK /\ Opened
  BY <1>1 DEF Piled, PointerOK, Opened
<1>5. LeftBehindOK
  <2>1. LeftBehind = {}
    BY <1>1 DEF LeftBehind
  <2>2. QED
    BY <1>1, <2>1, FS_EmptySet DEF LeftBehindOK
<1>6. QED
  BY <1>2, <1>3, <1>4, <1>5 DEF Inv

LEMMA CallsStep == CallsOK /\ Piled /\ [ReconnectNext]_reconnectVars => CallsOK'
<1> SUFFICES ASSUME CallsOK, Piled, [ReconnectNext]_reconnectVars PROVE CallsOK'
  OBVIOUS
<1>0. Len(bevs) \in Nat /\ Len(frames) \in Nat
  BY DEF CallsOK
<1>a. ASSUME bevs' \in Seq(BevState), Len(bevs') = Len(bevs), bev_res' = bev_res,
             frames' \in Seq(Frame), Len(frames') = Len(frames),
             \A i \in 1..Len(frames) : frames'[i].bev = frames[i].bev
      PROVE  CallsOK'
  BY <1>a DEF CallsOK
<1>1. CASE subscribe
  <2>1. frames \in Seq(Frame) /\ \A i \in 1..Len(frames) : frames[i].bev \in 1..Len(bevs)
    BY DEF CallsOK
  <2>2. \A i \in 1..(Len(frames) + 1) : frames'[i].bev \in 1..(Len(bevs) + 1)
    BY <1>0, <1>1, <2>1, SubscribeEffect
  <2>3. QED
    BY <1>0, <1>1, <2>2, SubscribeEffect DEF CallsOK
<1>2. CASE ConnectFails
  BY <1>0, <1>2, ConnectFailsEffect DEF CallsOK
<1>3. CASE Return
  <2>1. CASE frames = <<>>
    BY <1>3, <2>1 DEF Return, CallsOK
  <2>2. CASE frames # <<>>
    <3>1. bev_res' = bev_res
      BY <1>3 DEF Return
    <3>2. QED
      BY <1>3, <2>2, <3>1, <1>a, ReturnEffect, FreeEffect
  <2>3. QED
    BY <2>1, <2>2
<1>4. CASE Connected
  <2>1. frames # <<>> /\ frames' = frames /\ bev_res' = bev_res
    BY <1>4 DEF Connected, Event, Piled
  <2>2. QED
    BY <1>4, <2>1, ConnectedEffect DEF CallsOK
<1>5. CASE ConnEof
  <2>1. frames # <<>>
    BY <1>5 DEF ConnEof, Lost, Event, Piled
  <2>2. QED
    BY <1>5, <2>1, <1>a, ConnEofEffect, LostEffect
<1>6. CASE ConnError
  <2>1. frames # <<>> /\ bufferevent_free(Innermost.bev)
    BY <1>6 DEF ConnError, Lost, Event, Piled
  <2>2. QED
    BY <1>6, <2>1, <1>a, FreeEffect, LostEffect
<1>7. CASE NoBase \/ UNCHANGED reconnectVars
  BY <1>7 DEF NoBase, reconnectVars, CallsOK
<1>8. QED
  BY <1>1, <1>2, <1>3, <1>4, <1>5, <1>6, <1>7 DEF ReconnectNext, Worker

LEMMA CountersStep == Inv /\ [ReconnectNext]_reconnectVars => CountersOK'
<1> SUFFICES ASSUME Inv, [ReconnectNext]_reconnectVars PROVE CountersOK'
  OBVIOUS
<1>0. Sockets \in Nat
  BY SocketsCounted DEF Inv
<1> USE ReconnectAssumption, <1>0 DEF CountersOK
<1>1. CASE subscribe
  BY <1>1 DEF Inv, subscribe, NewBase, Files
<1>2. CASE ConnectFails
  BY <1>2 DEF Inv, ConnectFails, NewBase, Files
<1>3. CASE NoBase
  BY <1>3 DEF Inv, NoBase
<1>4. CASE Return
  BY <1>4 DEF Inv, Return
<1>5. CASE Connected
  BY <1>5 DEF Inv, Connected, Event
<1>6. CASE ConnEof
  BY <1>6 DEF Inv, ConnEof, Lost
<1>7. CASE ConnError
  BY <1>7 DEF Inv, ConnError, Lost
<1>8. CASE UNCHANGED reconnectVars
  BY <1>8 DEF Inv, reconnectVars
<1>9. QED
  BY <1>1, <1>2, <1>3, <1>4, <1>5, <1>6, <1>7, <1>8 DEF ReconnectNext, Worker

LEMMA PiledStep == CallsOK /\ Piled /\ [ReconnectNext]_reconnectVars => Piled'
<1> SUFFICES ASSUME CallsOK, Piled, [ReconnectNext]_reconnectVars PROVE Piled'
  OBVIOUS
<1>0. Len(bevs) \in Nat /\ Len(frames) \in Nat /\ (frames # <<>> => Len(frames) # 0)
  BY DEF CallsOK
<1>1. CASE subscribe
  <2>1. stage = "subscribe" /\ stage' = "loop"
    BY <1>1 DEF subscribe
  <2>2. frames' # <<>> /\ Innermost'.at = "loop" /\ Innermost'.bev = Len(bevs) + 1
    BY <1>0, <1>1, SubscribeEffect DEF Innermost
  <2>3. \A i \in 1..Len(frames') : i < Len(frames') => frames'[i].at # "loop"
    BY <1>0, <1>1, <2>1, SubscribeEffect DEF Piled
  <2>4. \A b \in 1..Len(bevs') : bevs'[b] \in {"connecting", "up"} => b = Len(bevs) + 1
    BY <1>0, <1>1, <2>1, SubscribeEffect DEF Piled
  <2>5. bevs'[Len(bevs) + 1] = "connecting"
    BY <1>1, SubscribeEffect
  <2>6. QED
    BY <2>1, <2>2, <2>3, <2>4, <2>5 DEF Piled
<1>2. CASE ConnectFails
  <2>1. stage = "subscribe" /\ stage' = "return"
    BY <1>2 DEF ConnectFails
  <2>2. \A b \in 1..Len(bevs') : bevs'[b] \notin {"connecting", "up"}
    BY <1>0, <1>2, <2>1, ConnectFailsEffect DEF Piled
  <2>3. QED
    BY <1>2, <2>1, <2>2, ConnectFailsEffect DEF Piled
<1>3. CASE Return /\ frames # <<>>
  <2>1. stage = "return" /\ stage' = "loop"
    BY <1>3, ReturnEffect DEF Return
  <2>2. \A b \in 1..Len(bevs') : bevs'[b] \notin {"connecting", "up"}
    BY <1>3, <2>1, ReturnEffect, FreeEffect DEF Piled
  <2>3. frames' # <<>> /\ Innermost'.at = "deserted"
    BY <1>0, <1>3, ReturnEffect DEF Innermost
  <2>4. \A i \in 1..Len(frames') : frames'[i].at # "loop"
    BY <1>3, <2>1, ReturnEffect DEF Piled
  <2>5. QED
    BY <2>1, <2>2, <2>3, <2>4 DEF Piled
<1>4. CASE Return /\ frames = <<>>
  BY <1>4 DEF Return, Piled
<1>5. CASE Connected
  <2>1. stage = "loop" /\ stage' \in {"loop", "crashed"} /\ frames # <<>> /\ frames' = frames
    BY <1>5 DEF Connected, Event, Piled
  <2>2. Innermost' = Innermost
    BY <2>1 DEF Innermost
  <2>3. bevs'[Innermost.bev] = "up" /\ Len(bevs') = Len(bevs)
        /\ \A b \in 1..Len(bevs) : b # Innermost.bev => bevs'[b] = bevs[b]
    BY <1>5, <2>1, ConnectedEffect
  <2>4. QED
    BY <2>1, <2>2, <2>3 DEF Piled
<1>6. CASE ConnEof \/ ConnError
  <2>1. stage = "loop" /\ frames # <<>> /\ (ConnError => bufferevent_free(Innermost.bev))
    BY <1>6 DEF ConnEof, ConnError, Lost, Event, Piled
  <2>2. stage' = "subscribe"
    BY <1>6, <2>1, LostEffect
  <2>3. \A i \in 1..Len(frames') : frames'[i].at # "loop"
    BY <1>6, <2>1, LostEffect DEF Piled
  <2>4. bevs'[Innermost.bev] \in {"lost", "freed", "freed twice"} /\ Len(bevs') = Len(bevs)
        /\ \A b \in 1..Len(bevs) : b # Innermost.bev => bevs'[b] = bevs[b]
    BY <1>6, <2>1, ConnEofEffect, FreeEffect
  <2>5. \A b \in 1..Len(bevs') : bevs'[b] \notin {"connecting", "up"}
    BY <2>4 DEF Piled
  <2>6. QED
    BY <2>2, <2>3, <2>5 DEF Piled
<1>7. CASE NoBase
  BY <1>7 DEF NoBase, Piled
<1>8. CASE UNCHANGED reconnectVars
  <2>1. UNCHANGED <<stage, frames, bevs>>
    BY <1>8 DEF reconnectVars
  <2>2. QED
    BY <2>1 DEF Piled, Innermost
<1>9. QED
  BY <1>1, <1>2, <1>3, <1>4, <1>5, <1>6, <1>7, <1>8 DEF ReconnectNext, Worker

(* Only an EOF leaves a socket behind. *)
LEMMA LeftBehindStep == Inv /\ [ReconnectNext]_reconnectVars => LeftBehindOK'
<1> SUFFICES ASSUME Inv, [ReconnectNext]_reconnectVars PROVE LeftBehindOK'
  OBVIOUS
<1>0. /\ CallsOK /\ Piled /\ Len(bevs) \in Nat /\ Cardinality(LeftBehind) <= eofs /\ eofs \in Nat
      /\ IsFiniteSet(LeftBehind) /\ Cardinality(LeftBehind) \in Nat
  BY SocketsCounted DEF Inv, LeftBehindOK, CountersOK, CallsOK
<1>1. ASSUME LeftBehind' \subseteq LeftBehind, eofs' = eofs
      PROVE  LeftBehindOK'
  <2>1. Cardinality(LeftBehind') <= Cardinality(LeftBehind) /\ Cardinality(LeftBehind') \in Nat
    BY <1>0, <1>1, FS_Subset, FS_CardinalityType
  <2>2. QED
    BY <1>0, <1>1, <2>1 DEF LeftBehindOK
<1>2. CASE subscribe \/ ConnectFails
  <2>1. LeftBehind' \subseteq LeftBehind
    BY <1>0, <1>2, SubscribeEffect, ConnectFailsEffect DEF LeftBehind
  <2>2. QED
    BY <1>1, <1>2, <2>1 DEF subscribe, ConnectFails
<1>3. CASE Return /\ frames # <<>>
  <2>1. LeftBehind' \subseteq LeftBehind
    BY <1>0, <1>3, ReturnEffect, FreeEffect DEF LeftBehind
  <2>2. QED
    BY <1>1, <1>3, <2>1 DEF Return
<1>4. CASE Connected
  <2>1. frames # <<>>
    BY <1>0, <1>4 DEF Connected, Event, Piled
  <2>2. LeftBehind' \subseteq LeftBehind
    BY <1>0, <1>4, <2>1, ConnectedEffect DEF LeftBehind
  <2>3. QED
    BY <1>1, <1>4, <2>2 DEF Connected
<1>5. CASE ConnError
  <2>1. frames # <<>> /\ bufferevent_free(Innermost.bev) /\ eofs' = eofs
    BY <1>0, <1>5 DEF ConnError, Lost, Event, Piled
  <2>2. LeftBehind' \subseteq LeftBehind
    BY <1>0, <2>1, FreeEffect DEF LeftBehind
  <2>3. QED
    BY <1>1, <2>1, <2>2
<1>6. CASE ConnEof
  <2>1. frames # <<>> /\ eofs' = eofs + 1
    BY <1>0, <1>6 DEF ConnEof, Lost, Event, Piled
  <2>2. LeftBehind' \subseteq LeftBehind \cup {Innermost.bev}
    BY <1>0, <1>6, <2>1, ConnEofEffect DEF LeftBehind
  <2>3. /\ IsFiniteSet(LeftBehind \cup {Innermost.bev})
        /\ Cardinality(LeftBehind \cup {Innermost.bev}) =
            IF Innermost.bev \in LeftBehind THEN Cardinality(LeftBehind) ELSE Cardinality(LeftBehind) + 1
    BY <1>0, FS_AddElement, Zenon
  <2>4. Cardinality(LeftBehind') <= Cardinality(LeftBehind \cup {Innermost.bev})
        /\ Cardinality(LeftBehind') \in Nat
    BY <2>2, <2>3, FS_Subset, FS_CardinalityType
  <2>5. QED
    BY <1>0, <2>1, <2>3, <2>4 DEF LeftBehindOK
<1>7. CASE NoBase \/ (Return /\ frames = <<>>) \/ UNCHANGED reconnectVars
  <2>1. bevs' = bevs /\ eofs' = eofs
    BY <1>7 DEF NoBase, Return, reconnectVars
  <2>2. QED
    BY <1>1, <2>1 DEF LeftBehind
<1>8. QED
  BY <1>2, <1>3, <1>4, <1>5, <1>6, <1>7 DEF ReconnectNext, Worker

LEMMA HazardsStay == [ReconnectNext]_reconnectVars => hazards' = hazards
<1> SUFFICES ASSUME [ReconnectNext]_reconnectVars PROVE hazards' = hazards
  OBVIOUS
<1>1. CASE Worker
  BY <1>1 DEF Worker, subscribe, ConnectFails, NoBase, Return, Connected
<1>2. CASE ConnEof \/ ConnError \/ UNCHANGED reconnectVars
  BY <1>2 DEF ConnEof, ConnError, Lost, reconnectVars
<1>3. QED
  BY <1>1, <1>2 DEF ReconnectNext

LEMMA PointerStep == Inv /\ [ReconnectNext]_reconnectVars => PointerOK'
<1> SUFFICES ASSUME Inv, [ReconnectNext]_reconnectVars, "no_base" \notin hazards, hazards' = hazards PROVE PointerOK'
  BY HazardsStay DEF PointerOK
<1>0. CallsOK /\ Piled /\ Len(bevs) \in Nat /\ Len(frames) \in Nat /\ (frames # <<>> => Len(frames) # 0)
  BY DEF Inv, CallsOK
<1>1. CASE subscribe
  <2>1. Innermost'.bev = Len(bevs) + 1
    BY <1>0, <1>1, SubscribeEffect DEF Innermost
  <2>2. stage' = "loop" /\ bev_res' = Len(bevs) + 1 /\ bevs'[Len(bevs) + 1] = "connecting"
    BY <1>0, <1>1, SubscribeEffect DEF subscribe
  <2>3. QED
    BY <1>0, <2>1, <2>2 DEF PointerOK
<1>2. CASE ConnectFails
  <2>1. stage' = "return" /\ bev_res' = Len(bevs) + 1 /\ bevs'[Len(bevs) + 1] = "unconnected" /\ frames' = frames
    BY <1>0, <1>2, ConnectFailsEffect DEF ConnectFails
  <2>2. \A i \in 1..Len(frames') : frames'[i].bev # bev_res'
    BY <1>0, <2>1 DEF CallsOK
  <2>3. QED
    BY <1>0, <2>1, <2>2 DEF PointerOK
<1>3. CASE Return /\ frames # <<>>
  <2>1. bev_res # 0 /\ bevs[bev_res] = "unconnected" /\ bev_res # Innermost.bev /\ bev_res \in 1..Len(bevs)
    BY <1>0, <1>3 DEF Return, Inv, PointerOK, CallsOK, Innermost
  <2>2. bevs'[bev_res] = "unconnected"
    BY <1>0, <1>3, <2>1, ReturnEffect, FreeEffect
  <2>3. stage' = "loop" /\ bev_res' = bev_res /\ Innermost'.at = "deserted"
    BY <1>0, <1>3, ReturnEffect DEF Return, Innermost
  <2>4. QED
    BY <2>1, <2>2, <2>3 DEF PointerOK
<1>4. CASE Return /\ frames = <<>>
  BY <1>4 DEF Return, PointerOK
<1>5. CASE Connected
  <2>1. frames # <<>> /\ frames' = frames /\ bev_res' = bev_res /\ stage' \in {"loop", "crashed"}
    BY <1>0, <1>5 DEF Connected, Event, Piled
  <2>2. Innermost' = Innermost /\ bev_res # 0 /\ bev_res = Innermost.bev
    BY <1>5, <2>1 DEF Connected, Event, Innermost, Inv, PointerOK
  <2>3. bevs'[Innermost.bev] = "up"
    BY <1>0, <1>5, <2>1, ConnectedEffect
  <2>4. QED
    BY <2>1, <2>2, <2>3 DEF PointerOK
<1>6. CASE ConnEof \/ ConnError
  <2>1. stage' = "subscribe"
    BY <1>6 DEF ConnEof, ConnError
  <2>2. QED
    BY <2>1 DEF PointerOK
<1>7. CASE NoBase
  BY <1>7 DEF NoBase
<1>8. CASE UNCHANGED reconnectVars
  <2>1. UNCHANGED <<stage, frames, bevs, bev_res>>
    BY <1>8 DEF reconnectVars
  <2>2. QED
    BY <2>1 DEF Inv, PointerOK, Innermost
<1>9. QED
  BY <1>1, <1>2, <1>3, <1>4, <1>5, <1>6, <1>7, <1>8 DEF ReconnectNext, Worker

(* A call that has just been made finds descriptors left.                  *)
LEMMA FilesLeft == Inv /\ Untroubled => ~ConnectFails
<1> SUFFICES ASSUME Inv, Untroubled, stage = "subscribe", NewBase PROVE ~(bases' + Sockets >= MaxFiles)
  BY DEF ConnectFails, Untroubled
<1>1. Sockets = Cardinality(LeftBehind) /\ Sockets \in Nat
  BY SocketsCounted DEF Inv, Piled
<1>2. Sockets <= losses
  BY <1>1 DEF Inv, LeftBehindOK, CountersOK
<1>3. bases <= losses
  <2>1. Len(bevs) = losses /\ bases <= Len(bevs)
    BY DEF Inv, Opened
  <2>2. QED
    BY <2>1, ReconnectAssumption DEF Inv, CountersOK
<1>4. bases' <= losses + 1 /\ bases' \in Nat
  BY <1>3 DEF NewBase, Inv, CountersOK
<1>5. QED
  BY <1>1, <1>2, <1>4, ReconnectAssumption DEF Untroubled, Ample, Inv, CountersOK

LEMMA OpenedStep == Inv /\ [ReconnectNext]_reconnectVars => Opened'
<1> SUFFICES ASSUME Inv, [ReconnectNext]_reconnectVars, Untroubled PROVE Opened'
  BY HazardsStay DEF Opened, Untroubled, Ample
<1>0. /\ CallsOK /\ Piled /\ Len(bevs) \in Nat /\ losses \in Nat /\ bases \in Nat
  BY ReconnectAssumption DEF Inv, CallsOK, CountersOK
<1>b. /\ stage \in {"subscribe", "loop", "crashed"}
      /\ stage = "subscribe" => Len(bevs) = losses
      /\ stage # "subscribe" => Len(bevs) = losses + 1
      /\ bases <= Len(bevs)
      /\ \A b \in 1..Len(bevs) : bevs[b] # "unconnected" /\ bevs[b] # "freed twice"
  BY Zenon DEF Inv, Opened
<1>1. CASE subscribe
  <2>1. stage = "subscribe" /\ stage' = "loop" /\ losses' = losses
    BY <1>1 DEF subscribe
  <2>2. Len(bevs') = Len(bevs) + 1 /\ bevs'[Len(bevs) + 1] = "connecting"
        /\ \A b \in 1..Len(bevs) : bevs'[b] = bevs[b]
    BY <1>0, <1>1, SubscribeEffect
  <2>3. bases' <= Len(bevs')
    <3>1. bases' = bases \/ bases' = bases + 1
      BY <1>1 DEF subscribe, NewBase
    <3>2. bases <= Len(bevs) /\ bases \in Nat /\ Len(bevs) \in Nat /\ Len(bevs') = Len(bevs) + 1
      BY <1>0, <1>b, <2>2
    <3>3. QED
      BY <3>1, <3>2
  <2>4. \A b \in 1..Len(bevs') : bevs'[b] # "unconnected" /\ bevs'[b] # "freed twice"
    <3>1. TAKE b \in 1..Len(bevs')
    <3>2. b \in 1..Len(bevs) \/ b = Len(bevs) + 1
      BY <1>0, <2>2
    <3>3. QED
      BY <1>b, <2>2, <3>2
  <2>5. QED
    BY <1>0, <1>b, <2>1, <2>2, <2>3, <2>4 DEF Opened
<1>2. CASE Connected
  <2>1. stage = "loop" /\ stage' \in {"loop", "crashed"} /\ frames # <<>> /\ UNCHANGED <<losses, bases>>
    BY <1>0, <1>b, <1>2 DEF Connected, Event, Piled
  <2>2. bevs'[Innermost.bev] = "up" /\ Len(bevs') = Len(bevs)
        /\ \A b \in 1..Len(bevs) : b # Innermost.bev => bevs'[b] = bevs[b]
    BY <1>0, <1>b, <1>2, <2>1, ConnectedEffect
  <2>3. QED
    BY <1>0, <1>b, <2>1, <2>2 DEF Opened
<1>3. CASE ConnEof \/ ConnError
  <2>1. /\ stage = "loop" /\ stage' = "subscribe" /\ frames # <<>> /\ losses' = losses + 1 /\ bases' = bases
        /\ bevs[Innermost.bev] \in {"connecting", "up"}
        /\ ConnError => bufferevent_free(Innermost.bev)
    BY <1>0, <1>b, <1>3 DEF ConnEof, ConnError, Lost, Event, Piled
  <2>2. bevs'[Innermost.bev] \in {"lost", "freed"} /\ Len(bevs') = Len(bevs)
        /\ \A b \in 1..Len(bevs) : b # Innermost.bev => bevs'[b] = bevs[b]
    BY <1>0, <1>b, <1>3, <2>1, ConnEofEffect, FreeEffect DEF Holding
  <2>3. QED
    BY <1>0, <1>b, <2>1, <2>2 DEF Opened
<1>4. CASE ConnectFails \/ NoBase \/ Return
  BY <1>0, <1>b, <1>4, FilesLeft DEF NoBase, Return, Untroubled
<1>5. CASE UNCHANGED reconnectVars
  BY <1>0, <1>b, <1>5 DEF reconnectVars, Opened
<1>6. QED
  BY <1>1, <1>2, <1>3, <1>4, <1>5 DEF ReconnectNext, Worker

LEMMA Invariant == ReconnectSpec => []Inv
<1>1. Inv /\ [ReconnectNext]_reconnectVars => Inv'
  BY CallsStep, CountersStep, PiledStep, LeftBehindStep, PointerStep, OpenedStep DEF Inv
<1>2. QED
  BY <1>1, InvInit, PTL DEF ReconnectSpec

-----------------------------------------------------------------------------
(* The frames, the bufferevents and the counters keep to their types. *)
THEOREM ReconnectTypeCorrect == ReconnectSpec => []ReconnectTypeOK
<1>1. Inv => ReconnectTypeOK
  <2> SUFFICES ASSUME CallsOK, CountersOK PROVE ReconnectTypeOK
    BY DEF Inv
  <2>1. DOMAIN bevs = 1..Len(bevs) /\ DOMAIN frames = 1..Len(frames)
    BY DEF CallsOK
  <2>2. \A i \in 1..Len(frames) : frames[i] \in [bev : 1..Len(bevs), at : {"loop", "eof", "error", "deserted"}]
    <3>1. TAKE i \in 1..Len(frames)
    <3>2. frames[i] \in Frame /\ frames[i].bev \in 1..Len(bevs)
      BY DEF CallsOK
    <3>3. QED
      BY <3>2 DEF Frame, Branch
  <2>3. \A b \in 1..Len(bevs) : bevs[b] \in Holding \cup {"unconnected", "freed", "freed twice"}
    <3>1. \A b \in 1..Len(bevs) : bevs[b] \in BevState
      BY DEF CallsOK
    <3>2. QED
      BY <3>1 DEF BevState
  <2>4. QED
    BY <2>1, <2>2, <2>3 DEF ReconnectTypeOK, CallsOK, CountersOK
<1>2. QED
  BY <1>1, Invariant, PTL

(* However many calls are piled up, only the innermost has a connection    *)
(* (sub.c:225-245).                                                        *)
THEOREM OnlyInnermostConnected == ReconnectSpec => []OneConnection
<1>1. Inv => OneConnection
  <2> SUFFICES ASSUME CallsOK, Piled PROVE OneConnection
    BY DEF Inv
  <2>1. DOMAIN bevs = 1..Len(bevs) /\ Len(frames) \in Nat
    BY DEF CallsOK
  <2>2. QED
    BY <2>1 DEF OneConnection, Piled
<1>2. QED
  BY <1>1, Invariant, PTL

(* One socket at most is left behind by each EOF, none by an error         *)
(* (sub.c:253-262).                                                        *)
THEOREM LeakBounded == ReconnectSpec => []SocketsBounded
<1>1. Inv => SocketsBounded
  <2> SUFFICES ASSUME Inv PROVE SocketsBounded
    OBVIOUS
  <2>1. Sockets <= Cardinality(LeftBehind) + 1 /\ Sockets \in Nat /\ Cardinality(LeftBehind) \in Nat
    BY SocketsCounted DEF Inv
  <2>2. QED
    BY <2>1 DEF Inv, LeftBehindOK, CountersOK, SocketsBounded
<1>2. QED
  BY <1>1, Invariant, PTL

(* What the timer and the callback write to has not been freed, and with   *)
(* two descriptors for each call nothing is freed twice (sub.c:186, 236,   *)
(* 260-278).                                                               *)
THEOREM FreedSafely == ReconnectSpec => []NoUseAfterFree
<1>1. Inv => NoUseAfterFree
  <2> SUFFICES ASSUME Inv PROVE NoUseAfterFree
    OBVIOUS
  <2>1. DOMAIN bevs = 1..Len(bevs)
    BY DEF Inv, CallsOK
  <2>2. hazards = {} /\ Ample => \A b \in DOMAIN bevs : bevs[b] # "freed twice"
    BY <2>1 DEF Inv, Opened, Untroubled
  <2>3. ASSUME stage = "loop", hazards = {}, Ample PROVE bev_res = Innermost.bev
    <3>1. bev_res \in 1..Len(bevs)
      BY <2>3 DEF Inv, PointerOK, CallsOK
    <3>2. bevs[bev_res] # "unconnected"
      BY <2>3, <3>1 DEF Inv, Opened, Untroubled
    <3>3. QED
      BY <2>3, <3>2 DEF Inv, PointerOK
  <2>4. stage = "loop" /\ "no_base" \notin hazards => bevs[bev_res] \in Holding \cup {"unconnected"}
    BY DEF Inv, PointerOK, Holding
  <2>5. QED
    BY <2>2, <2>3, <2>4 DEF NoUseAfterFree
<1>2. QED
  BY <1>1, Invariant, PTL
===============================================================================
