--------------------------- MODULE ConsumerProofs ---------------------------
(***************************************************************************)
(* Consumer's theorems, for every set of messages and of workers and every *)
(* value of the bounds: its types, that it implements Delivery, that no    *)
(* delivery is forgotten, that nsqd has nothing to object to until the     *)
(* first fault, and that a backlog is bounded.                             *)
(***************************************************************************)
EXTENDS Consumer, TLAPS, FiniteSetTheorems, SequenceTheorems

(* Next, its actions side by side: those that open a connection, the other *)
(* steps of a worker, and those of nsqd.                                   *)
Opening(w) == StartWorker(w) \/ ConnEof(w) \/ ConnError(w)
Working(w) ==
    \/ Connected(w) \/ send_identify(w) \/ Flush(w) \/ readcb(w) \/ process_message_queue(w)
    \/ touch(w) \/ finish(w) \/ requeue(w) \/ CallbackSucceeds(w) \/ CallbackThrows(w)
    \/ Crash(w)
Serving(c) ==
    \/ \E m \in Messages : NsqdDelivers(c, m)
    \/ NsqdCloses(c) \/ NsqdNotices(c) \/ NsqdGreets(c) \/ NsqdSubscribes(c)
    \/ NsqdReady(c) \/ NsqdAnswers(c) \/ NsqdRejects(c)
Passing(m) == NsqdTimesOut(m) \/ NsqdReclaims(m) \/ DelayEnds(m)

LEMMA NextCases ==
    Next => \/ \E w \in Workers : Opening(w) \/ Working(w)
            \/ \E c \in Connections : Serving(c)
            \/ \E m \in Messages : Passing(m)
  BY DEF Next, WorkerStep, conn_eventcb, Callback, NsqdStep, NsqdReceives,
         Opening, Working, Serving, Passing

-----------------------------------------------------------------------------
(* What the commands and frames in the buffers are. *)

LEMMA CommandType ==
    /\ \A n \in {"V2", "SUB", "RDY"} : Bare(n) \in Commands
    /\ \A n \in {"FIN", "REQ", "TOUCH"}, m \in Messages : Command(n, m) \in Commands
  BY DEF Command, Bare, Commands

LEMMA FrameType ==
    /\ \A m \in Messages : Frame("message", m) \in Frames
    /\ \A k \in {"response", "error"} : Frame(k, NoMessage) \in Frames
    /\ \A frame \in Frames : frame.kind = "message" => frame.id \in Messages
  BY DEF Frame, Frames

LEMMA WrittenType ==
    ASSUME SocketsTypeOK, NEW c \in Connections, NEW command \in Commands
    PROVE  Written(c, command) \in [Connections -> Seq(Commands)]
  BY DEF SocketsTypeOK, Written

-----------------------------------------------------------------------------
(* Type correctness, one group of variables at a time. *)

LEMMA TypeInit == Init => TypeOK
  BY ConsumerAssumption
  DEF Init, TypeOK, NsqdTypeOK, SocketsTypeOK, LoopTypeOK, WorkTypeOK, BoundsTypeOK, Connections

LEMMA NsqdTypeStep == TypeOK /\ Next => NsqdTypeOK'
<1> SUFFICES ASSUME TypeOK, Next PROVE NsqdTypeOK'
  OBVIOUS
<1> USE ConsumerAssumption DEF TypeOK, Connections
<1>1. ASSUME NEW w \in Workers, Opening(w) PROVE NsqdTypeOK'
  <2>1. subscribe(w)
    BY <1>1 DEF Opening, StartWorker, ConnEof, ConnError
  <2>2. QED
    BY <2>1 DEF subscribe, NsqdTypeOK, LoopTypeOK
<1>2. ASSUME NEW w \in Workers, Working(w) PROVE NsqdTypeOK'
  <2>1. UNCHANGED nsqd
    BY <1>2 DEF Working, Connected, send_identify, Flush, readcb, process_message_queue, touch,
                finish, requeue, CallbackSucceeds, CallbackThrows, Return, Crash
  <2>2. QED
    BY <2>1 DEF nsqd, NsqdTypeOK
<1>3. ASSUME NEW c \in Connections, Serving(c) PROVE NsqdTypeOK'
  <2>1. CASE Closed(c)
    BY <2>1 DEF Closed, NsqdTypeOK
  <2>2. CASE NsqdAnswers(c)
    <3>1. UNCHANGED <<phase, ready>>
      BY <2>2 DEF NsqdAnswers
    <3>2. CASE UNCHANGED <<status, holder>>
      BY <3>1, <3>2 DEF NsqdTypeOK
    <3>3. ASSUME NEW m \in Messages, status[m] = "inflight",
                 NEW after \in {"finished", "deferred"},
                 status' = [status EXCEPT ![m] = after], holder' = [holder EXCEPT ![m] = 0]
          PROVE  NsqdTypeOK'
      BY <3>1, <3>3 DEF NsqdTypeOK
    <3>4. PICK command \in Commands : NsqdAnswers(c)!(command)
      BY <2>2 DEF NsqdAnswers
    <3>5. CASE command.id \notin InFlight(c)
      BY <3>2, <3>4, <3>5
    <3>6. CASE command.id \in InFlight(c)
      <4>1. command.id \in Messages /\ status[command.id] = "inflight"
        BY <3>6 DEF InFlight, NsqdTypeOK
      <4>2. CASE command.name = "FIN"
        BY <3>3, <3>4, <3>6, <4>1, <4>2
      <4>3. CASE command.name = "REQ"
        BY <3>3, <3>4, <3>6, <4>1, <4>3
      <4>4. CASE command.name = "TOUCH"
        <5>1. status' = status /\ holder' = holder
          BY <3>4, <3>6, <4>1, <4>4 DEF NsqdTypeOK
        <5>2. QED
          BY <3>2, <5>1
      <4>5. QED
        BY <3>4, <4>2, <4>3, <4>4
    <3>7. QED
      BY <3>5, <3>6
  <2>3. CASE \E m \in Messages : NsqdDelivers(c, m)
    BY <2>3 DEF NsqdDelivers, NsqdTypeOK
  <2>4. CASE NsqdGreets(c) \/ NsqdSubscribes(c) \/ NsqdReady(c)
    BY <2>4 DEF NsqdGreets, NsqdSubscribes, NsqdReady, NsqdTypeOK
  <2>5. QED
    BY <1>3, <2>1, <2>2, <2>3, <2>4 DEF Serving, NsqdCloses, NsqdNotices, NsqdRejects
<1>4. ASSUME NEW m \in Messages, Passing(m) PROVE NsqdTypeOK'
  <2>1. CASE Expires(m)
    BY <2>1 DEF Expires, NsqdTypeOK
  <2>2. CASE DelayEnds(m)
    BY <2>2 DEF DelayEnds, NsqdTypeOK
  <2>3. QED
    BY <1>4, <2>1, <2>2 DEF Passing, NsqdTimesOut, NsqdReclaims
<1>5. QED
  BY <1>1, <1>2, <1>3, <1>4, NextCases

LEMMA SocketsTypeStep == TypeOK /\ Next => SocketsTypeOK'
<1> SUFFICES ASSUME TypeOK, Next PROVE SocketsTypeOK'
  OBVIOUS
<1> USE DEF TypeOK
<1>1. ASSUME NEW w \in Workers, Opening(w) PROVE SocketsTypeOK'
  <2>1. UNCHANGED toNsqd
    BY <1>1 DEF Opening, StartWorker, ConnEof, ConnError, subscribe
  <2>2. CASE UNCHANGED toClient
    BY <2>1, <2>2 DEF SocketsTypeOK
  <2>3. CASE ConnError(w)
    <3>1. toClient' = [toClient EXCEPT ![conn[w]] = <<>>]
      BY <2>3 DEF ConnError
    <3>2. <<>> \in Seq(Frames)
      OBVIOUS
    <3>3. QED
      BY <2>1, <3>1, <3>2 DEF SocketsTypeOK
  <2>4. QED
    BY <1>1, <2>2, <2>3 DEF Opening, StartWorker, ConnEof
<1>2. ASSUME NEW w \in Workers, Working(w) PROVE SocketsTypeOK'
  <2>0. conn[w] \in Connections \/ pc[w] = "dead"
    BY ConsumerAssumption DEF LoopTypeOK, Connections
  <2>1. CASE Connected(w)
    BY <2>0, <2>1, WrittenType, CommandType DEF Connected, SocketsTypeOK
  <2>2. CASE send_identify(w) \/ readcb(w)
    <3>1. /\ toClient[conn[w]] # <<>> /\ pc[w] # "dead" /\ UNCHANGED toNsqd
          /\ toClient' = [toClient EXCEPT ![conn[w]] = Tail(@)]
      BY <2>2 DEF send_identify, readcb
    <3>2. Tail(toClient[conn[w]]) \in Seq(Frames)
      BY <2>0, <3>1 DEF SocketsTypeOK
    <3>3. QED
      BY <2>0, <3>1, <3>2 DEF SocketsTypeOK
  <2>3. CASE Flush(w)
    <3>1. Head(outbuf[w]) \in Commands
      BY <2>3 DEF Flush, WorkTypeOK
    <3>2. QED
      BY <2>0, <2>3, <3>1, WrittenType DEF Flush, SocketsTypeOK
  <2>4. CASE touch(w)
    <3>1. Command("TOUCH", current[w]) \in Commands
      BY <2>4, CommandType DEF touch, WorkTypeOK
    <3>2. QED
      BY <2>0, <2>4, <3>1, WrittenType DEF touch, SocketsTypeOK
  <2>5. CASE UNCHANGED sockets
    BY <2>5 DEF sockets, SocketsTypeOK
  <2>6. QED
    BY <1>2, <2>1, <2>2, <2>3, <2>4, <2>5
    DEF Working, process_message_queue, finish, requeue, CallbackSucceeds, CallbackThrows,
        Return, Crash
<1>3. ASSUME NEW c \in Connections, Serving(c) PROVE SocketsTypeOK'
  <2>1. CASE Closed(c)
    BY <2>1 DEF Closed, SocketsTypeOK
  <2>2. ASSUME NEW m \in Messages, NsqdDelivers(c, m) PROVE SocketsTypeOK'
    BY <2>2, FrameType DEF NsqdDelivers, SocketsTypeOK
  <2>3. ASSUME NEW k \in {"response", "error"}, Reply(c, k) \/ UNCHANGED toClient,
               Taken(c), toNsqd[c] # <<>>
        PROVE  SocketsTypeOK'
    <3>1. Tail(toNsqd[c]) \in Seq(Commands) /\ toClient[c] \in Seq(Frames)
      BY <2>3 DEF SocketsTypeOK
    <3>2. toNsqd' \in [Connections -> Seq(Commands)]
      BY <2>3, <3>1 DEF Taken, SocketsTypeOK
    <3>3. Append(toClient[c], Frame(k, NoMessage)) \in Seq(Frames)
      BY <3>1, FrameType
    <3>4. toClient' \in [Connections -> Seq(Frames)]
      BY <2>3, <3>3 DEF Reply, SocketsTypeOK
    <3>5. QED
      BY <3>2, <3>4 DEF SocketsTypeOK
  <2>4. CASE NsqdGreets(c) \/ NsqdSubscribes(c) \/ NsqdReady(c) \/ NsqdAnswers(c)
    <3>1. Taken(c) /\ toNsqd[c] # <<>>
      BY <2>4 DEF NsqdGreets, NsqdSubscribes, NsqdReady, NsqdAnswers, Receives
    <3>2. Reply(c, "response") \/ Reply(c, "error") \/ UNCHANGED toClient
      BY <2>4 DEF NsqdGreets, NsqdSubscribes, NsqdReady, NsqdAnswers
    <3>3. QED
      BY <2>3, <3>1, <3>2
  <2>5. QED
    BY <1>3, <2>1, <2>2, <2>4 DEF Serving, NsqdCloses, NsqdNotices, NsqdRejects
<1>4. ASSUME NEW m \in Messages, Passing(m) PROVE SocketsTypeOK'
  BY <1>4 DEF Passing, NsqdTimesOut, NsqdReclaims, Expires, DelayEnds, sockets, SocketsTypeOK
<1>5. QED
  BY <1>1, <1>2, <1>3, <1>4, NextCases

LEMMA LoopTypeStep == TypeOK /\ Next => LoopTypeOK'
<1> SUFFICES ASSUME TypeOK, Next PROVE LoopTypeOK'
  OBVIOUS
<1> USE ConsumerAssumption DEF TypeOK
<1>1. ASSUME NEW w \in Workers, Opening(w) PROVE LoopTypeOK'
  <2>1. subscribe(w)
    BY <1>1 DEF Opening, StartWorker, ConnEof, ConnError
  <2>2. QED
    BY <2>1 DEF subscribe, LoopTypeOK
<1>2. ASSUME NEW w \in Workers, Working(w) PROVE LoopTypeOK'
  <2>1. CASE UNCHANGED <<opened, loop>>
    BY <2>1 DEF loop, LoopTypeOK
  <2>2. CASE Connected(w) \/ send_identify(w)
    BY <2>2 DEF Connected, send_identify, Greet, LoopTypeOK
  <2>3. CASE process_message_queue(w)
    BY <2>3 DEF process_message_queue, LoopTypeOK
  <2>4. CASE CallbackSucceeds(w) \/ CallbackThrows(w)
    BY <2>4 DEF CallbackSucceeds, CallbackThrows, Return, LoopTypeOK
  <2>5. CASE Crash(w)
    BY <2>5 DEF Crash, LoopTypeOK
  <2>6. QED
    BY <1>2, <2>1, <2>2, <2>3, <2>4, <2>5
    DEF Working, Flush, readcb, touch, finish, requeue
<1>3. ASSUME NEW c \in Connections, Serving(c) PROVE LoopTypeOK'
  <2>1. UNCHANGED <<opened, loop>>
    BY <1>3 DEF Serving, NsqdDelivers, NsqdCloses, NsqdNotices, Closed, NsqdGreets,
                NsqdSubscribes, NsqdReady, NsqdAnswers, NsqdRejects
  <2>2. QED
    BY <2>1 DEF loop, LoopTypeOK
<1>4. ASSUME NEW m \in Messages, Passing(m) PROVE LoopTypeOK'
  BY <1>4 DEF Passing, NsqdTimesOut, NsqdReclaims, Expires, DelayEnds, loop, LoopTypeOK
<1>5. QED
  BY <1>1, <1>2, <1>3, <1>4, NextCases

LEMMA WorkTypeStep == TypeOK /\ Next => WorkTypeOK'
<1> SUFFICES ASSUME TypeOK, Next PROVE WorkTypeOK'
  OBVIOUS
<1> USE DEF TypeOK
<1>0. ASSUME NEW w \in Workers, NEW s \in Seq(Commands), outbuf' = [outbuf EXCEPT ![w] = s]
      PROVE  outbuf' \in [Workers -> Seq(Commands)]
  BY <1>0 DEF WorkTypeOK
<1>1. ASSUME NEW w \in Workers, Opening(w) PROVE WorkTypeOK'
  <2>1. subscribe(w) /\ pc[w] \in {"dead", "dispatch"} /\ UNCHANGED <<work, handled>>
    BY <1>1 DEF Opening, StartWorker, ConnEof, ConnError
  <2>2. outbuf' \in [Workers -> Seq(Commands)]
    <3>1. <<>> \in Seq(Commands)
      OBVIOUS
    <3>2. QED
      BY <1>0, <2>1, <3>1 DEF subscribe
  <2>3. \A v \in Workers : (pc'[v] = "callback") <=> (current[v] # NoMessage)
    BY <2>1 DEF subscribe, LoopTypeOK, WorkTypeOK
  <2>4. QED
    BY <2>1, <2>2, <2>3 DEF work, WorkTypeOK
<1>2. ASSUME NEW w \in Workers, Working(w) PROVE WorkTypeOK'
  <2>0. outbuf[w] \in Seq(Commands) /\ queue[w] \in Seq(Messages)
    BY DEF WorkTypeOK
  <2>1. CASE Connected(w) \/ send_identify(w)
    <3>1. outbuf' \in [Workers -> Seq(Commands)]
      <4>1. outbuf[w] \o <<Bare("SUB"), Bare("RDY")>> \in Seq(Commands)
        BY <2>0, CommandType
      <4>2. CASE Greet(w)
        BY <1>0, <4>1, <4>2 DEF Greet
      <4>3. QED
        BY <2>1, <4>2 DEF Connected, send_identify, WorkTypeOK
    <3>2. /\ UNCHANGED <<work, handled>> /\ pc[w] \in {"dispatch", "identify"}
          /\ \E at \in {"dispatch", "identify"} : pc' = [pc EXCEPT ![w] = at]
      BY <2>1 DEF Connected, send_identify, Greet
    <3>3. \A v \in Workers : (pc'[v] = "callback") <=> (current[v] # NoMessage)
      BY <3>2 DEF LoopTypeOK, WorkTypeOK
    <3>4. QED
      BY <3>1, <3>2, <3>3 DEF work, WorkTypeOK
  <2>2. CASE Flush(w)
    <3>1. Tail(outbuf[w]) \in Seq(Commands)
      BY <2>0, <2>2 DEF Flush
    <3>2. QED
      BY <1>0, <2>2, <3>1 DEF Flush, loop, work, WorkTypeOK
  <2>3. CASE readcb(w)
    <3>1. CASE UNCHANGED queue
      BY <2>3, <3>1 DEF readcb, loop, WorkTypeOK
    <3>2. CASE queue' # queue
      <4>1. toClient[conn[w]] \in Seq(Frames) /\ toClient[conn[w]] # <<>>
        BY <2>3, ConsumerAssumption DEF readcb, LoopTypeOK, SocketsTypeOK, Connections
      <4>2. PICK frame \in Frames : frame = Head(toClient[conn[w]])
        BY <4>1
      <4>3. Len(toClient[conn[w]]) > 0
        BY <4>1
      <4>4. frame.kind = "message" /\ queue' = [queue EXCEPT ![w] = Append(queue[w], frame.id)]
        BY <2>3, <3>2, <4>2 DEF readcb
      <4>5. frame.id \in Messages
        BY <4>4, FrameType
      <4>6. QED
        BY <2>3, <4>4, <4>5 DEF readcb, loop, WorkTypeOK
    <3>3. QED
      BY <3>1, <3>2
  <2>4. CASE process_message_queue(w)
    <3>1. Head(queue[w]) \in Messages /\ Tail(queue[w]) \in Seq(Messages)
      BY <2>0, <2>4 DEF process_message_queue
    <3>2. QED
      BY <2>4, <3>1, ConsumerAssumption DEF process_message_queue, LoopTypeOK, WorkTypeOK
  <2>5. CASE touch(w)
    BY <2>5 DEF touch, loop, work, WorkTypeOK
  <2>6. CASE finish(w) \/ requeue(w)
    <3>1. pc[w] = "callback" /\ current[w] \in Messages
      BY <2>6 DEF finish, requeue, MayAnswer, WorkTypeOK
    <3>2. \A n \in {"FIN", "REQ"} : Append(outbuf[w], Command(n, current[w])) \in Seq(Commands)
      BY <2>0, <3>1, CommandType
    <3>3. outbuf' \in [Workers -> Seq(Commands)]
      BY <1>0, <2>6, <3>2 DEF finish, requeue
    <3>4. QED
      BY <2>6, <3>1, <3>3 DEF finish, requeue, loop, WorkTypeOK
  <2>7. CASE CallbackSucceeds(w) \/ CallbackThrows(w)
    <3>1. pc[w] = "callback" /\ current[w] \in Messages
      BY <2>7 DEF CallbackSucceeds, CallbackThrows, WorkTypeOK
    <3>2. PICK s \in Seq(Commands) : Return(w, s)
      <4>1. /\ <<>> \in Seq(Commands) /\ <<Command("FIN", current[w])>> \in Seq(Commands)
            /\ <<Command("REQ", current[w])>> \in Seq(Commands)
        BY <3>1, CommandType
      <4>2. CASE CallbackSucceeds(w)
        BY <4>1, <4>2 DEF CallbackSucceeds
      <4>3. CASE CallbackThrows(w)
        BY <4>1, <4>3 DEF CallbackThrows
      <4>4. QED
        BY <2>7, <4>2, <4>3
    <3>3. outbuf[w] \o s \o <<Bare("RDY")>> \in Seq(Commands)
      BY <2>0, CommandType
    <3>4. outbuf' \in [Workers -> Seq(Commands)]
      BY <1>0, <3>2, <3>3 DEF Return
    <3>5. handled' \subseteq Messages
      BY <2>7, <3>1 DEF CallbackSucceeds, CallbackThrows, WorkTypeOK
    <3>6. QED
      BY <3>2, <3>4, <3>5 DEF Return, LoopTypeOK, WorkTypeOK
  <2>8. CASE Crash(w)
    <3>0. <<>> \in Seq(Commands)
      OBVIOUS
    <3>1. outbuf' \in [Workers -> Seq(Commands)]
      BY <1>0, <2>8, <3>0 DEF Crash
    <3>2. queue' \in [Workers -> Seq(Messages)]
      BY <2>8 DEF Crash, WorkTypeOK
    <3>3. QED
      BY <2>8, <3>1, <3>2 DEF Crash, LoopTypeOK, WorkTypeOK
  <2>9. QED
    BY <1>2, <2>1, <2>2, <2>3, <2>4, <2>5, <2>6, <2>7, <2>8 DEF Working
<1>3. ASSUME NEW c \in Connections, Serving(c) PROVE WorkTypeOK'
  <2>1. UNCHANGED <<loop, work, outbuf, handled>>
    BY <1>3 DEF Serving, NsqdDelivers, NsqdCloses, NsqdNotices, Closed, NsqdGreets,
                NsqdSubscribes, NsqdReady, NsqdAnswers, NsqdRejects
  <2>2. QED
    BY <2>1 DEF loop, work, WorkTypeOK
<1>4. ASSUME NEW m \in Messages, Passing(m) PROVE WorkTypeOK'
  BY <1>4 DEF Passing, NsqdTimesOut, NsqdReclaims, Expires, DelayEnds, loop, work, WorkTypeOK
<1>5. QED
  BY <1>1, <1>2, <1>3, <1>4, NextCases

LEMMA BoundsTypeStep == TypeOK /\ Next => BoundsTypeOK'
<1> SUFFICES ASSUME TypeOK, Next PROVE BoundsTypeOK'
  OBVIOUS
<1>1. \/ UNCHANGED bounds
      \/ \E kind \in Faults : Fault(kind)
      \/ Failure
      \/ touches > 0 /\ touches' = touches - 1 /\ UNCHANGED <<faults, failures>>
      \/ \E w \in Workers : finish(w) \/ requeue(w)
  <2>1. ASSUME NEW w \in Workers, Opening(w) \/ Working(w)
        PROVE <1>1!1 \/ <1>1!2 \/ <1>1!3 \/ <1>1!4 \/ <1>1!5
    BY <2>1 DEF Opening, Working, StartWorker, ConnEof, ConnError, Connected, send_identify,
                Flush, readcb, process_message_queue, touch, CallbackSucceeds,
                CallbackThrows, Crash, Fault
  <2>2. ASSUME NEW c \in Connections, Serving(c) PROVE UNCHANGED bounds \/ \E kind \in Faults : Fault(kind)
    BY <2>2 DEF Serving, NsqdDelivers, NsqdCloses, NsqdNotices, NsqdGreets, NsqdSubscribes,
                NsqdReady, NsqdAnswers, NsqdRejects, Fault
  <2>3. ASSUME NEW m \in Messages, Passing(m) PROVE UNCHANGED bounds \/ \E kind \in Faults : Fault(kind)
    BY <2>3 DEF Passing, NsqdTimesOut, NsqdReclaims, DelayEnds, Fault
  <2>4. QED
    BY <2>1, <2>2, <2>3, NextCases
<1>2. ASSUME NEW w \in Workers, finish(w) \/ requeue(w) PROVE BoundsTypeOK'
  BY <1>2 DEF finish, requeue, MayAnswer, TypeOK, BoundsTypeOK
<1>3. QED
  BY <1>1, <1>2 DEF bounds, Fault, Failure, TypeOK, BoundsTypeOK

LEMMA TypeStep == TypeOK /\ [Next]_vars => TypeOK'
<1>1. ASSUME TypeOK, UNCHANGED vars PROVE TypeOK'
  BY <1>1 DEF vars, nsqd, sockets, loop, work, bounds, TypeOK, NsqdTypeOK, SocketsTypeOK,
              LoopTypeOK, WorkTypeOK, BoundsTypeOK
<1>2. QED
  BY <1>1, NsqdTypeStep, SocketsTypeStep, LoopTypeStep, WorkTypeStep, BoundsTypeStep DEF TypeOK

(* The variables keep to their types: in particular nsqd knows a holder of *)
(* a message exactly while it is in flight, and the worker has a current   *)
(* message exactly while process_business_message is in the callback.      *)
THEOREM TypeCorrect == Spec => []TypeOK
<1>1. Safety => []TypeOK
  BY TypeInit, TypeStep, PTL DEF Safety
<1>2. QED
  BY <1>1, PTL DEF Spec

-----------------------------------------------------------------------------
(* FinAfterHandling is inductive. *)

LEMMA HonestOps ==
    ASSUME NEW s \in Seq(Commands), NEW t \in Seq(Commands), NEW done, NEW more,
           done \subseteq more, Honest(s, done)
    PROVE  /\ Honest(s, more)
           /\ Honest(t, more) => Honest(s \o t, more)
           /\ s # <<>> => Honest(Tail(s), more)
  BY DEF Honest

LEMMA HonestCommands ==
    ASSUME NEW command \in Commands, NEW done, command.name = "FIN" => command.id \in done
    PROVE  Honest(<<command>>, done)
  BY DEF Honest

LEMMA HonestWritten ==
    ASSUME TypeOK, FinAfterHandling, NEW c \in Connections, NEW command \in Commands,
           command.name = "FIN" => command.id \in handled
    PROVE  \A d \in Connections : Honest(Written(c, command)[d], handled)
<1>1. Honest(Append(toNsqd[c], command), handled)
  BY DEF Honest, FinAfterHandling, TypeOK, SocketsTypeOK
<1>2. QED
  BY <1>1 DEF Written, FinAfterHandling, TypeOK, SocketsTypeOK

LEMMA HandledGrows == TypeOK /\ Next => handled \subseteq handled'
<1> SUFFICES ASSUME TypeOK, Next PROVE handled \subseteq handled'
  OBVIOUS
<1>1. ASSUME NEW w \in Workers, Opening(w) \/ Working(w) PROVE handled \subseteq handled'
  BY <1>1 DEF Opening, Working, StartWorker, ConnEof, ConnError, Connected, send_identify, Flush,
              readcb, process_message_queue, touch, finish, requeue, CallbackSucceeds,
              CallbackThrows, Crash
<1>2. ASSUME NEW c \in Connections, Serving(c) PROVE handled \subseteq handled'
  BY <1>2 DEF Serving, NsqdDelivers, NsqdCloses, NsqdNotices, Closed, NsqdGreets, NsqdSubscribes,
              NsqdReady, NsqdAnswers, NsqdRejects
<1>3. ASSUME NEW m \in Messages, Passing(m) PROVE handled \subseteq handled'
  BY <1>3 DEF Passing, NsqdTimesOut, NsqdReclaims, Expires, DelayEnds
<1>4. QED
  BY <1>1, <1>2, <1>3, NextCases

LEMMA OutbufStep ==
    TypeOK /\ FinAfterHandling /\ Next => \A v \in Workers : Honest(outbuf'[v], handled')
<1> SUFFICES ASSUME TypeOK, FinAfterHandling, Next
             PROVE  \A v \in Workers : Honest(outbuf'[v], handled')
  OBVIOUS
<1>1. \A v \in Workers : outbuf[v] \in Seq(Commands) /\ Honest(outbuf[v], handled')
  BY HandledGrows, HonestOps DEF FinAfterHandling, TypeOK, WorkTypeOK
<1>2. ASSUME UNCHANGED outbuf PROVE \A v \in Workers : Honest(outbuf'[v], handled')
  BY <1>1, <1>2
<1>3. ASSUME NEW w \in Workers, NEW s, Honest(s, handled'), outbuf' = [outbuf EXCEPT ![w] = s]
      PROVE  \A v \in Workers : Honest(outbuf'[v], handled')
  BY <1>1, <1>3 DEF TypeOK, WorkTypeOK
<1>4. ASSUME NEW w \in Workers, NEW s \in Seq(Commands), Honest(s, handled'),
             outbuf' = [outbuf EXCEPT ![w] = outbuf[w] \o s]
      PROVE  \A v \in Workers : Honest(outbuf'[v], handled')
  BY <1>1, <1>3, <1>4, HonestOps
<1>5. Honest(<<>>, handled')
  BY DEF Honest
<1>6. ASSUME NEW w \in Workers, Opening(w) \/ Crash(w)
      PROVE  \A v \in Workers : Honest(outbuf'[v], handled')
  BY <1>3, <1>5, <1>6 DEF Opening, StartWorker, ConnEof, ConnError, subscribe, Crash
<1>7. ASSUME NEW w \in Workers, Connected(w) \/ send_identify(w)
      PROVE  \A v \in Workers : Honest(outbuf'[v], handled')
  <2>1. /\ <<Bare("SUB"), Bare("RDY")>> \in Seq(Commands)
        /\ Honest(<<Bare("SUB"), Bare("RDY")>>, handled')
    BY CommandType DEF Honest, Bare, Command
  <2>2. QED
    BY <1>2, <1>4, <1>7, <2>1 DEF Connected, send_identify, Greet
<1>8. ASSUME NEW w \in Workers, Flush(w)
      PROVE  \A v \in Workers : Honest(outbuf'[v], handled')
  <2>1. Honest(Tail(outbuf[w]), handled')
    BY <1>1, <1>8, HonestOps DEF Flush
  <2>2. QED
    BY <1>3, <1>8, <2>1 DEF Flush
<1>9. ASSUME NEW w \in Workers, finish(w) \/ requeue(w)
      PROVE  \A v \in Workers : Honest(outbuf'[v], handled')
  <2>1. PICK n \in {"FIN", "REQ"} :
          /\ outbuf' = [outbuf EXCEPT ![w] = Append(outbuf[w], Command(n, current[w]))]
          /\ n = "FIN" => current[w] \in handled'
          /\ pc[w] = "callback"
    BY <1>9 DEF finish, requeue, MayAnswer
  <2>2. current[w] \in Messages
    BY <2>1 DEF TypeOK, WorkTypeOK
  <2>3. /\ <<Command(n, current[w])>> \in Seq(Commands)
        /\ Honest(<<Command(n, current[w])>>, handled')
    BY <2>1, <2>2, CommandType DEF Honest, Command
  <2>4. Append(outbuf[w], Command(n, current[w])) = outbuf[w] \o <<Command(n, current[w])>>
    BY <1>1, <2>3
  <2>5. QED
    BY <1>4, <2>1, <2>3, <2>4
<1>10. ASSUME NEW w \in Workers, CallbackSucceeds(w) \/ CallbackThrows(w)
       PROVE  \A v \in Workers : Honest(outbuf'[v], handled')
  <2>1. current[w] \in Messages
    BY <1>10 DEF CallbackSucceeds, CallbackThrows, TypeOK, WorkTypeOK
  <2>2. ASSUME NEW s \in Seq(Commands), Return(w, s), Honest(s, handled')
        PROVE  \A v \in Workers : Honest(outbuf'[v], handled')
    <3>1. <<Bare("RDY")>> \in Seq(Commands) /\ Honest(<<Bare("RDY")>>, handled')
      BY CommandType DEF Honest, Bare, Command
    <3>2. Honest(outbuf[w] \o s, handled') /\ outbuf[w] \o s \in Seq(Commands)
      BY <1>1, <2>2, HonestOps
    <3>3. Honest(outbuf[w] \o s \o <<Bare("RDY")>>, handled')
      BY <3>1, <3>2, HonestOps
    <3>4. QED
      BY <1>3, <2>2, <3>3 DEF Return
  <2>3. <<>> \in Seq(Commands)
    OBVIOUS
  <2>4. \A n \in {"FIN", "REQ"} :
          /\ <<Command(n, current[w])>> \in Seq(Commands)
          /\ current[w] \in handled' \/ n = "REQ" => Honest(<<Command(n, current[w])>>, handled')
    BY <2>1, CommandType DEF Honest, Command
  <2>5. CASE CallbackSucceeds(w)
    BY <1>5, <2>2, <2>3, <2>4, <2>5 DEF CallbackSucceeds
  <2>6. CASE CallbackThrows(w)
    BY <1>5, <2>2, <2>3, <2>4, <2>6 DEF CallbackThrows
  <2>7. QED
    BY <1>10, <2>5, <2>6
<1>11. ASSUME NEW w \in Workers, readcb(w) \/ process_message_queue(w) \/ touch(w)
       PROVE  UNCHANGED outbuf
  BY <1>11 DEF readcb, process_message_queue, touch
<1>12. ASSUME NEW c \in Connections, Serving(c) PROVE UNCHANGED outbuf
  BY <1>12 DEF Serving, NsqdDelivers, NsqdCloses, NsqdNotices, Closed, NsqdGreets, NsqdSubscribes,
               NsqdReady, NsqdAnswers, NsqdRejects
<1>13. ASSUME NEW m \in Messages, Passing(m) PROVE UNCHANGED outbuf
  BY <1>13 DEF Passing, NsqdTimesOut, NsqdReclaims, Expires, DelayEnds
<1>14. QED
  BY <1>2, <1>6, <1>7, <1>8, <1>9, <1>10, <1>11, <1>12, <1>13, NextCases DEF Working

LEMMA ToNsqdStep ==
    TypeOK /\ FinAfterHandling /\ Next => \A d \in Connections : Honest(toNsqd'[d], handled')
<1> SUFFICES ASSUME TypeOK, FinAfterHandling, Next, NEW d \in Connections
             PROVE  Honest(toNsqd'[d], handled')
  OBVIOUS
<1>1. toNsqd[d] \in Seq(Commands) /\ Honest(toNsqd[d], handled')
  BY HandledGrows, HonestOps DEF FinAfterHandling, TypeOK, SocketsTypeOK
<1>2. ASSUME NEW w \in Workers, NEW command \in Commands, toNsqd' = Written(conn[w], command),
             pc[w] # "dead", command.name = "FIN" => command.id \in handled
      PROVE  Honest(toNsqd'[d], handled')
  <2>1. conn[w] \in Connections
    BY <1>2, ConsumerAssumption DEF TypeOK, LoopTypeOK, Connections
  <2>2. Honest(toNsqd'[d], handled) /\ toNsqd'[d] \in Seq(Commands)
    BY <1>2, <2>1, HonestWritten, WrittenType DEF TypeOK
  <2>3. QED
    BY <2>2, HandledGrows, HonestOps
<1>3. ASSUME NEW w \in Workers, Opening(w) \/ Working(w) PROVE Honest(toNsqd'[d], handled')
  <2>1. CASE UNCHANGED toNsqd
    BY <1>1, <2>1
  <2>2. CASE Connected(w)
    BY <1>2, <2>2, CommandType DEF Connected, Bare, Command
  <2>3. CASE Flush(w)
    <3>1. /\ Head(outbuf[w]) \in Commands
          /\ Head(outbuf[w]).name = "FIN" => Head(outbuf[w]).id \in handled
      BY <2>3 DEF Flush, FinAfterHandling, Honest, TypeOK, WorkTypeOK
    <3>2. QED
      BY <1>2, <2>3, <3>1 DEF Flush
  <2>4. CASE touch(w)
    <3>1. Command("TOUCH", current[w]) \in Commands
      BY <2>4, CommandType DEF touch, TypeOK, WorkTypeOK
    <3>2. QED
      BY <1>2, <2>1, <2>4, <3>1 DEF touch, Command
  <2>5. QED
    BY <1>3, <2>1, <2>2, <2>3, <2>4
    DEF Opening, Working, StartWorker, ConnEof, ConnError, subscribe, send_identify, readcb,
        process_message_queue, finish, requeue, CallbackSucceeds, CallbackThrows, Return, Crash,
        sockets
<1>4. ASSUME NEW c \in Connections, Serving(c) PROVE Honest(toNsqd'[d], handled')
  <2>1. CASE UNCHANGED toNsqd
    BY <1>1, <2>1
  <2>2. CASE Closed(c)
    BY <1>1, <2>2 DEF Closed, Honest, TypeOK, SocketsTypeOK
  <2>3. CASE Taken(c) /\ toNsqd[c] # <<>>
    <3>1. toNsqd'[d] = IF c = d THEN Tail(toNsqd[d]) ELSE toNsqd[d]
      BY <2>3 DEF Taken, TypeOK, SocketsTypeOK
    <3>2. QED
      BY <1>1, <2>3, <3>1, HonestOps
  <2>4. QED
    BY <1>4, <2>1, <2>2, <2>3
    DEF Serving, NsqdDelivers, NsqdCloses, NsqdNotices, NsqdGreets, NsqdSubscribes, NsqdReady,
        NsqdAnswers, NsqdRejects, Receives
<1>5. ASSUME NEW m \in Messages, Passing(m) PROVE Honest(toNsqd'[d], handled')
  BY <1>1, <1>5 DEF Passing, NsqdTimesOut, NsqdReclaims, Expires, DelayEnds, sockets
<1>6. QED
  BY <1>3, <1>4, <1>5, NextCases

(* What a step may do to the messages finished: nothing, or strike off one *)
(* that has been handled.                                                  *)
LEMMA FinishedStep ==
    TypeOK /\ FinAfterHandling /\ Next =>
        \/ Finished' = Finished
        \/ /\ UNCHANGED handled
           /\ \E m \in handled \ Finished : Finished' = Finished \cup {m}
<1> SUFFICES ASSUME TypeOK, FinAfterHandling, Next
             PROVE  \/ Finished' = Finished
                    \/ /\ UNCHANGED handled
                       /\ \E m \in handled \ Finished : Finished' = Finished \cup {m}
  OBVIOUS
<1>1. ASSUME NEW w \in Workers, Opening(w) \/ Working(w) PROVE UNCHANGED status
  BY <1>1 DEF Opening, Working, StartWorker, ConnEof, ConnError, subscribe, Connected,
              send_identify, Flush, readcb, process_message_queue, touch, finish, requeue,
              CallbackSucceeds, CallbackThrows, Return, Crash, nsqd
<1>2. ASSUME NEW m \in Messages, Passing(m) \/ \E c \in Connections : NsqdDelivers(c, m)
      PROVE  Finished' = Finished
  BY <1>2 DEF Passing, NsqdTimesOut, NsqdReclaims, Expires, DelayEnds, NsqdDelivers, Finished,
              TypeOK, NsqdTypeOK
<1>3. ASSUME NEW c \in Connections, Closed(c) PROVE Finished' = Finished
  <2>1. ASSUME NEW m \in Messages PROVE (status'[m] = "finished") <=> (status[m] = "finished")
    <3>1. holder[m] = c => status[m] = "inflight"
      BY ConsumerAssumption DEF TypeOK, NsqdTypeOK, Connections
    <3>2. QED
      BY <1>3, <3>1 DEF Closed
  <2>2. QED
    BY <2>1 DEF Finished
<1>4. ASSUME NEW c \in Connections, NsqdAnswers(c)
      PROVE  \/ Finished' = Finished
             \/ /\ UNCHANGED handled
                /\ \E m \in handled \ Finished : Finished' = Finished \cup {m}
  <2>1. PICK command \in Commands : NsqdAnswers(c)!(command)
    BY <1>4 DEF NsqdAnswers
  <2>2. CASE command.id \notin InFlight(c)
    BY <2>1, <2>2 DEF Finished
  <2>3. CASE command.id \in InFlight(c)
    <3>1. command.id \in Messages /\ status[command.id] = "inflight"
      BY <2>3, ConsumerAssumption DEF InFlight, TypeOK, NsqdTypeOK, Connections
    <3>2. CASE command.name = "FIN"
      <4>1. command.id \in handled
        BY <2>1, <3>2 DEF Receives, FinAfterHandling, Honest, TypeOK, SocketsTypeOK
      <4>2. status' = [status EXCEPT ![command.id] = "finished"] /\ UNCHANGED handled
        BY <2>1, <2>3, <3>2
      <4>3. QED
        BY <3>1, <4>1, <4>2 DEF Finished, TypeOK, NsqdTypeOK
    <3>3. CASE command.name # "FIN"
      <4>1. \E after \in {"inflight", "deferred"} : status' = [status EXCEPT ![command.id] = after]
        BY <2>1, <2>3, <3>1, <3>3
      <4>2. QED
        BY <3>1, <4>1 DEF Finished, TypeOK, NsqdTypeOK
    <3>4. QED
      BY <3>2, <3>3
  <2>4. QED
    BY <2>2, <2>3
<1>5. ASSUME NEW c \in Connections, NsqdGreets(c) \/ NsqdSubscribes(c) \/ NsqdReady(c)
      PROVE  UNCHANGED status
  BY <1>5 DEF NsqdGreets, NsqdSubscribes, NsqdReady
<1>6. UNCHANGED status => Finished' = Finished
  BY DEF Finished
<1>7. QED
  BY <1>1, <1>2, <1>3, <1>4, <1>5, <1>6, NextCases
  DEF Serving, NsqdCloses, NsqdNotices, NsqdRejects

LEMMA FinStep == TypeOK /\ FinAfterHandling /\ [Next]_vars => FinAfterHandling'
<1> SUFFICES ASSUME TypeOK, FinAfterHandling, [Next]_vars PROVE FinAfterHandling'
  OBVIOUS
<1>1. CASE UNCHANGED vars
  BY <1>1 DEF vars, nsqd, sockets, FinAfterHandling, Honest
<1>2. CASE Next
  <2>1. \A m \in Messages : status'[m] = "finished" => m \in handled'
    BY <1>2, FinishedStep, HandledGrows DEF FinAfterHandling, Finished
  <2>2. QED
    BY <1>2, <2>1, OutbufStep, ToNsqdStep DEF FinAfterHandling
<1>3. QED
  BY <1>1, <1>2

(* A FIN between the worker and nsqd, and a message nsqd has struck off,   *)
(* are for a message that a callback has handled with success.             *)
THEOREM FinsAreHonest == Spec => []FinAfterHandling
<1>1. Init => FinAfterHandling
  BY DEF Init, FinAfterHandling, Honest
<1>2. Safety => []FinAfterHandling
  BY <1>1, TypeInit, TypeStep, FinStep, PTL DEF Safety
<1>3. QED
  BY <1>2, PTL DEF Spec

-----------------------------------------------------------------------------
(* Every step of the consumer is a step of Delivery or leaves it alone. *)

LEMMA HandledStep ==
    TypeOK /\ Next =>
        \/ UNCHANGED handled
        \/ UNCHANGED status /\ \E m \in Messages \ handled : handled' = handled \cup {m}
<1> SUFFICES ASSUME TypeOK, Next
             PROVE  \/ UNCHANGED handled
                    \/ UNCHANGED status /\ \E m \in Messages \ handled : handled' = handled \cup {m}
  OBVIOUS
<1>1. ASSUME NEW w \in Workers, finish(w) \/ CallbackSucceeds(w)
      PROVE  \/ UNCHANGED handled
             \/ UNCHANGED status /\ \E m \in Messages \ handled : handled' = handled \cup {m}
  <2>1. pc[w] = "callback" /\ UNCHANGED status
    BY <1>1 DEF finish, MayAnswer, CallbackSucceeds, Return, nsqd
  <2>2. current[w] \in Messages
    BY <2>1 DEF TypeOK, WorkTypeOK
  <2>3. UNCHANGED handled \/ handled' = handled \cup {current[w]}
    BY <1>1 DEF finish, CallbackSucceeds
  <2>4. QED
    BY <2>1, <2>2, <2>3
<1>2. ASSUME NEW w \in Workers, Opening(w) \/ Working(w), ~finish(w), ~CallbackSucceeds(w)
      PROVE  UNCHANGED handled
  BY <1>2 DEF Opening, Working, StartWorker, ConnEof, ConnError, Connected, send_identify, Flush,
              readcb, process_message_queue, touch, requeue, CallbackThrows, Crash
<1>3. ASSUME NEW c \in Connections, Serving(c) PROVE UNCHANGED handled
  BY <1>3 DEF Serving, NsqdDelivers, NsqdCloses, NsqdNotices, Closed, NsqdGreets, NsqdSubscribes,
              NsqdReady, NsqdAnswers, NsqdRejects
<1>4. ASSUME NEW m \in Messages, Passing(m) PROVE UNCHANGED handled
  BY <1>4 DEF Passing, NsqdTimesOut, NsqdReclaims, Expires, DelayEnds
<1>5. QED
  BY <1>1, <1>2, <1>3, <1>4, NextCases

LEMMA DeliveryStep == TypeOK /\ FinAfterHandling /\ [Next]_vars => [D!Next]_(D!vars)
<1> SUFFICES ASSUME TypeOK, FinAfterHandling, [Next]_vars PROVE [D!Next]_(D!vars)
  OBVIOUS
<1>1. CASE UNCHANGED vars
  BY <1>1 DEF vars, nsqd, D!vars, Finished
<1>2. ASSUME NEW m \in handled \ Finished, UNCHANGED handled, Finished' = Finished \cup {m}
      PROVE  D!Next
  <2>1. m \in Messages
    BY DEF TypeOK, WorkTypeOK
  <2>2. QED
    BY <1>2, <2>1 DEF D!Next, D!Finish
<1>3. ASSUME NEW m \in Messages \ handled, UNCHANGED status, handled' = handled \cup {m}
      PROVE  D!Next
  BY <1>3 DEF D!Next, D!Handle, Finished
<1>4. CASE Next
  BY <1>2, <1>3, <1>4, HandledStep, FinishedStep DEF D!vars, Finished
<1>5. QED
  BY <1>1, <1>4

(* The consumer, with every fault of the model, implements Delivery: nsqd  *)
(* finishes only messages that a callback has handled, and for good.       *)
THEOREM Refinement == Spec => ImplementsDelivery
<1>1. Init => D!Init
  BY DEF Init, D!Init, Finished
<1>2. Safety => D!Spec
  <2>1. Init => FinAfterHandling
    BY DEF Init, FinAfterHandling, Honest
  <2>2. QED
    BY <1>1, <2>1, TypeInit, TypeStep, FinStep, DeliveryStep, PTL DEF Safety, D!Spec
<1>3. QED
  BY <1>2, PTL DEF Spec, ImplementsDelivery
-----------------------------------------------------------------------------
(* Who uses a connection, and how far it has come: two workers never share *)
(* one; what is not opened yet carries nothing; messages are in flight on  *)
(* subscribed connections only, and a worker that has not been connected   *)
(* yet has not subscribed; an answer a callback has asked for is still in  *)
(* the output buffer when it returns; a dead worker has no queue, and only *)
(* TOUCH goes past the output buffer.                                      *)
BoundsKept == faults <= MaxFaults /\ failures <= MaxFailures
OneUser == \A v, w \in Workers : conn[v] = conn[w] /\ conn[w] # 0 => v = w
OpenedInOrder == \A c \in Connections :
    /\ c <= opened => phase[c] # "none"
    /\ c > opened => phase[c] = "none" /\ toNsqd[c] = <<>> /\ toClient[c] = <<>>
HeldBySubscribers == \A m \in Messages : holder[m] # 0 => phase[holder[m]] = "subscribed"
NotSubscribed(c) ==
    /\ phase[c] # "subscribed"
    /\ \A i \in DOMAIN toNsqd[c] : toNsqd[c][i].name # "SUB"
GreetsFirst == \A w \in Workers :
    /\ conn[w] # 0 /\ ~up[w] => NotSubscribed(conn[w])
    /\ pc[w] \in {"identify", "dead"} => ~up[w]
AnswerBuffered == \A w \in Workers : called[w] # "none" =>
    pc[w] = "callback" /\ Command(called[w], current[w]) \in ToSet(outbuf[w])
DeadIsEmpty == \A w \in Workers : pc[w] = "dead" => queue[w] = <<>>
TouchUnbuffered == \A w \in Workers : \A i \in DOMAIN outbuf[w] : outbuf[w][i].name # "TOUCH"

LEMMA BoundsKeptStep == TypeOK /\ BoundsKept /\ Next => BoundsKept'
<1> SUFFICES ASSUME TypeOK, BoundsKept, Next PROVE BoundsKept'
  OBVIOUS
<1>0. \/ UNCHANGED <<faults, failures>>
      \/ UNCHANGED faults /\ failures' = failures - 1
      \/ UNCHANGED failures /\ faults' = faults - 1
      \/ faults' = faults - 1 /\ failures' = failures - 1
  <2>1. ASSUME NEW w \in Workers, Opening(w) \/ Working(w)
        PROVE <1>0!1 \/ <1>0!2 \/ <1>0!3 \/ <1>0!4
    BY <2>1 DEF Opening, Working, StartWorker, ConnEof, ConnError, Connected, send_identify,
                Flush, readcb, process_message_queue, touch, finish, requeue, MayAnswer,
                CallbackSucceeds, CallbackThrows, Crash, Fault, Failure, bounds
  <2>2. ASSUME NEW c \in Connections, Serving(c) PROVE <1>0!1 \/ <1>0!3
    BY <2>2 DEF Serving, NsqdDelivers, NsqdCloses, NsqdNotices, NsqdGreets, NsqdSubscribes,
                NsqdReady, NsqdAnswers, NsqdRejects, Fault, bounds
  <2>3. ASSUME NEW m \in Messages, Passing(m) PROVE <1>0!1 \/ <1>0!3
    BY <2>3 DEF Passing, NsqdTimesOut, NsqdReclaims, DelayEnds, Fault, bounds
  <2>4. QED
    BY <2>1, <2>2, <2>3, NextCases
<1>1. QED
  BY <1>0, ConsumerAssumption DEF BoundsKept, TypeOK, BoundsTypeOK

(* What the steps of each kind leave alone. *)
LEMMA StepKinds ==
    /\ \A w \in Workers : Opening(w) =>
        subscribe(w) /\ UNCHANGED <<queue, current, called, handled>>
    /\ \A w \in Workers : Working(w) => UNCHANGED <<status, holder, phase, ready, opened>>
    /\ \A w \in Workers : Working(w) /\ ~Crash(w) => UNCHANGED conn
    /\ \A c \in Connections : Serving(c) =>
        UNCHANGED <<opened, conn, up, pc, queue, current, called, outbuf, handled>>
    /\ \A m \in Messages : Passing(m) =>
        UNCHANGED <<phase, ready, opened, toNsqd, toClient, conn, up, pc, queue, current, called,
                    outbuf, handled>>
<1>1. ASSUME NEW w \in Workers, Opening(w)
      PROVE  subscribe(w) /\ UNCHANGED <<queue, current, called, handled>>
  BY <1>1 DEF Opening, StartWorker, ConnEof, ConnError, work
<1>2. ASSUME NEW w \in Workers, Working(w)
      PROVE  UNCHANGED <<status, holder, phase, ready, opened>> /\ (~Crash(w) => UNCHANGED conn)
  BY <1>2 DEF Working, Connected, send_identify, Flush, readcb, process_message_queue, touch,
              finish, requeue, CallbackSucceeds, CallbackThrows, Return, Crash, nsqd, loop
<1>3. ASSUME NEW c \in Connections, Serving(c)
      PROVE  UNCHANGED <<opened, conn, up, pc, queue, current, called, outbuf, handled>>
  BY <1>3 DEF Serving, NsqdDelivers, NsqdCloses, NsqdNotices, Closed, NsqdGreets, NsqdSubscribes,
              NsqdReady, NsqdAnswers, NsqdRejects, loop, work
<1>4. ASSUME NEW m \in Messages, Passing(m)
      PROVE  UNCHANGED <<phase, ready, opened, toNsqd, toClient, conn, up, pc, queue, current,
                         called, outbuf, handled>>
  BY <1>4 DEF Passing, NsqdTimesOut, NsqdReclaims, Expires, DelayEnds, loop, work, sockets
<1>5. QED
  BY <1>1, <1>2, <1>3, <1>4

(* What a write to the socket of c does to the sockets. *)
LEMMA WrittenIs ==
    ASSUME TypeOK, NEW c \in Connections, NEW command
    PROVE  /\ \A d \in Connections \ {c} : Written(c, command)[d] = toNsqd[d]
           /\ Written(c, command)[c] = IF Open(c) THEN Append(toNsqd[c], command) ELSE toNsqd[c]
  BY DEF Written, TypeOK, SocketsTypeOK

(* What the operations on the buffers do to what is in them. *)
LEMMA ToSetOps ==
    ASSUME NEW S, NEW s \in Seq(S)
    PROVE  /\ \A e \in S : ToSet(Append(s, e)) = ToSet(s) \cup {e}
           /\ \A t \in Seq(S) : ToSet(s \o t) = ToSet(s) \cup ToSet(t)
           /\ s # <<>> => ToSet(s) = {Head(s)} \cup ToSet(Tail(s))
           /\ \A e \in S : ToSet(<<e>>) = {e}
           /\ ToSet(<<>>) = {}
<1>1. ASSUME NEW e \in S PROVE ToSet(Append(s, e)) = ToSet(s) \cup {e}
  <2>1. /\ Len(Append(s, e)) = Len(s) + 1 /\ DOMAIN Append(s, e) = 1..(Len(s) + 1) /\ DOMAIN s = 1..Len(s)
        /\ \A i \in 1..Len(s) : Append(s, e)[i] = s[i]
        /\ Append(s, e)[Len(s) + 1] = e
    OBVIOUS
  <2>2. QED
    BY <2>1 DEF ToSet
<1>2. ASSUME NEW t \in Seq(S) PROVE ToSet(s \o t) = ToSet(s) \cup ToSet(t)
  <2>1. /\ DOMAIN (s \o t) = 1..(Len(s) + Len(t)) /\ DOMAIN s = 1..Len(s) /\ DOMAIN t = 1..Len(t)
        /\ \A i \in 1..Len(s) : (s \o t)[i] = s[i]
        /\ \A i \in 1..Len(t) : (s \o t)[Len(s) + i] = t[i]
        /\ Len(s) \in Nat /\ Len(t) \in Nat
    OBVIOUS
  <2>2. \A i \in (Len(s) + 1)..(Len(s) + Len(t)) : i - Len(s) \in 1..Len(t) /\ (s \o t)[i] = t[i - Len(s)]
    BY <2>1
  <2>3. ToSet(s \o t) \subseteq ToSet(s) \cup ToSet(t)
    BY <2>1, <2>2 DEF ToSet
  <2>4. ToSet(s) \subseteq ToSet(s \o t)
    BY <2>1 DEF ToSet
  <2>5. ToSet(t) \subseteq ToSet(s \o t)
    <3>1. \A i \in 1..Len(t) : Len(s) + i \in DOMAIN (s \o t)
      BY <2>1
    <3>2. QED
      BY <2>1, <3>1 DEF ToSet
  <2>6. QED
    BY <2>3, <2>4, <2>5
<1>3. ASSUME s # <<>> PROVE ToSet(s) = {Head(s)} \cup ToSet(Tail(s))
  <2>1. /\ DOMAIN Tail(s) = 1..(Len(s) - 1) /\ DOMAIN s = 1..Len(s) /\ Len(s) \in Nat /\ Len(s) > 0
        /\ \A i \in 1..(Len(s) - 1) : Tail(s)[i] = s[i + 1]
        /\ Head(s) = s[1]
    BY <1>3
  <2>2. \A i \in 1..Len(s) : i = 1 \/ (i - 1 \in 1..(Len(s) - 1) /\ s[i] = Tail(s)[i - 1])
    BY <2>1
  <2>3. ToSet(s) \subseteq {Head(s)} \cup ToSet(Tail(s))
    <3>1. ASSUME NEW i \in 1..Len(s) PROVE s[i] \in {Head(s)} \cup ToSet(Tail(s))
      BY <2>1, <2>2 DEF ToSet
    <3>2. QED
      BY <2>1, <3>1 DEF ToSet
  <2>4. \A i \in 1..(Len(s) - 1) : i + 1 \in 1..Len(s)
    BY <2>1
  <2>5. {Head(s)} \cup ToSet(Tail(s)) \subseteq ToSet(s)
    BY <2>1, <2>4 DEF ToSet
  <2>6. QED
    BY <2>3, <2>5
<1>4. \A e \in S : DOMAIN <<e>> = {1} /\ <<e>>[1] = e
  OBVIOUS
<1>5. ToSet(<<>>) = {}
  BY DEF ToSet
<1>6. \A e \in S : ToSet(<<e>>) = {e}
  BY <1>4 DEF ToSet
<1>7. QED
  BY <1>1, <1>2, <1>3, <1>5, <1>6

LEMMA OneUserStep == TypeOK /\ OneUser /\ Next => OneUser'
<1> SUFFICES ASSUME TypeOK, OneUser, Next PROVE OneUser'
  OBVIOUS
<1>1. CASE UNCHANGED conn
  BY <1>1 DEF OneUser
<1>2. ASSUME NEW w \in Workers, Opening(w) \/ Crash(w) PROVE OneUser'
  <2>1. conn' = [conn EXCEPT ![w] = opened + 1] \/ conn' = [conn EXCEPT ![w] = 0]
    BY <1>2, StepKinds DEF Crash, subscribe
  <2>2. QED
    BY <2>1 DEF OneUser, TypeOK, LoopTypeOK
<1>3. QED
  BY <1>1, <1>2, StepKinds, NextCases DEF Working

LEMMA OpenedInOrderStep == TypeOK /\ OpenedInOrder /\ Next => OpenedInOrder'
<1> SUFFICES ASSUME TypeOK, OpenedInOrder, Next PROVE OpenedInOrder'
  OBVIOUS
<1> USE ConsumerAssumption DEF Connections
<1>0. \A c \in Connections : phase[c] = "none" <=> c > opened
  BY DEF OpenedInOrder, TypeOK, LoopTypeOK
<1>1. ASSUME NEW w \in Workers, Opening(w) PROVE OpenedInOrder'
  <2>1. \A c \in Connections : c > opened => toClient'[c] = <<>>
    BY <1>1 DEF Opening, StartWorker, ConnEof, ConnError, OpenedInOrder, TypeOK, SocketsTypeOK
  <2>2. /\ opened' = opened + 1 /\ opened \in Nat /\ UNCHANGED toNsqd
        /\ phase' = [phase EXCEPT ![opened + 1] = "new"]
    BY <1>1, StepKinds DEF subscribe, TypeOK, LoopTypeOK
  <2>3. \A c \in Connections : phase'[c] = IF c = opened + 1 THEN "new" ELSE phase[c]
    BY <2>2 DEF TypeOK, NsqdTypeOK
  <2>4. QED
    BY <2>1, <2>2, <2>3 DEF OpenedInOrder
<1>2. ASSUME NEW w \in Workers, Working(w) PROVE OpenedInOrder'
  <2>1. UNCHANGED <<phase, opened>>
    BY <1>2, StepKinds
  <2>2. \A c \in Connections : c > opened => toNsqd'[c] = toNsqd[c]
    <3>1. ASSUME NEW c, NEW command, toNsqd' = Written(c, command)
          PROVE  \A d \in Connections : d > opened => toNsqd'[d] = toNsqd[d]
      BY <1>0, <3>1 DEF Written, Open, TypeOK, SocketsTypeOK
    <3>2. QED
      BY <1>2, <3>1 DEF Working, Connected, send_identify, Flush, readcb, process_message_queue,
            touch, finish, requeue, CallbackSucceeds, CallbackThrows, Return, Crash, sockets
  <2>3. \A c \in Connections : c > opened => toClient'[c] = toClient[c]
    <3>1. CASE readcb(w) \/ send_identify(w)
      <4>1. conn[w] <= opened /\ toClient' = [toClient EXCEPT ![conn[w]] = Tail(@)]
        BY <3>1 DEF readcb, send_identify, TypeOK, LoopTypeOK
      <4>2. QED
        BY <4>1 DEF TypeOK, LoopTypeOK, SocketsTypeOK
    <3>2. QED
      BY <1>2, <3>1 DEF Working, Connected, Flush, process_message_queue,
            touch, finish, requeue, CallbackSucceeds, CallbackThrows, Return, Crash, sockets
  <2>4. QED
    BY <2>1, <2>2, <2>3 DEF OpenedInOrder
<1>3. ASSUME NEW c \in Connections, Serving(c) PROVE OpenedInOrder'
  <2>1. UNCHANGED opened /\ phase[c] # "none"
    BY <1>0, <1>3, StepKinds DEF Serving, NsqdDelivers, NsqdCloses, NsqdNotices, NsqdGreets,
        NsqdSubscribes, NsqdReady, NsqdAnswers, NsqdRejects, Receives, Open
  <2>2. \A d \in Connections \ {c} :
          phase'[d] = phase[d] /\ toNsqd'[d] = toNsqd[d] /\ toClient'[d] = toClient[d]
    BY <1>3 DEF Serving, NsqdDelivers, NsqdCloses, NsqdNotices, Closed, NsqdGreets, NsqdSubscribes,
        NsqdReady, NsqdAnswers, NsqdRejects, Taken, Reply, TypeOK, NsqdTypeOK, SocketsTypeOK
  <2>3. phase'[c] # "none"
    BY <1>3, <2>1 DEF Serving, NsqdDelivers, NsqdCloses, NsqdNotices, Closed, NsqdGreets,
        NsqdSubscribes, NsqdReady, NsqdAnswers, NsqdRejects, TypeOK, NsqdTypeOK
  <2>4. QED
    BY <1>0, <2>1, <2>2, <2>3 DEF OpenedInOrder, TypeOK, LoopTypeOK
<1>4. ASSUME NEW m \in Messages, Passing(m) PROVE OpenedInOrder'
  BY <1>4, StepKinds DEF OpenedInOrder
<1>5. QED
  BY <1>1, <1>2, <1>3, <1>4, NextCases

LEMMA HeldStep == TypeOK /\ OpenedInOrder /\ HeldBySubscribers /\ Next => HeldBySubscribers'
<1> SUFFICES ASSUME TypeOK, OpenedInOrder, HeldBySubscribers, Next PROVE HeldBySubscribers'
  OBVIOUS
<1> USE ConsumerAssumption DEF Connections, TypeOK, NsqdTypeOK
<1>1. ASSUME NEW w \in Workers, Opening(w) PROVE HeldBySubscribers'
  <2>1. phase[opened + 1] = "none"
    BY <1>1, StepKinds DEF subscribe, OpenedInOrder, LoopTypeOK
  <2>2. QED
    BY <1>1, <2>1, StepKinds DEF subscribe, HeldBySubscribers
<1>2. ASSUME NEW w \in Workers, Working(w) PROVE HeldBySubscribers'
  BY <1>2, StepKinds DEF HeldBySubscribers
<1>3. ASSUME NEW c \in Connections, Serving(c) PROVE HeldBySubscribers'
  <2>1. CASE Closed(c)
    BY <2>1 DEF Closed, HeldBySubscribers
  <2>2. CASE \E m \in Messages : NsqdDelivers(c, m)
    BY <2>2 DEF NsqdDelivers, HeldBySubscribers
  <2>3. CASE NsqdGreets(c) \/ NsqdSubscribes(c) \/ NsqdReady(c)
    BY <2>3 DEF NsqdGreets, NsqdSubscribes, NsqdReady, HeldBySubscribers
  <2>4. CASE NsqdAnswers(c)
    <3>1. UNCHANGED phase /\ \A m \in Messages : holder'[m] \in {0, holder[m]}
      BY <2>4 DEF NsqdAnswers
    <3>2. QED
      BY <3>1 DEF HeldBySubscribers
  <2>5. QED
    BY <1>3, <2>1, <2>2, <2>3, <2>4 DEF Serving, NsqdCloses, NsqdNotices, NsqdRejects
<1>4. ASSUME NEW m \in Messages, Passing(m) PROVE HeldBySubscribers'
  BY <1>4 DEF Passing, NsqdTimesOut, NsqdReclaims, Expires, DelayEnds, HeldBySubscribers
<1>5. QED
  BY <1>1, <1>2, <1>3, <1>4, NextCases

LEMMA GreetsStep ==
    TypeOK /\ OneUser /\ OpenedInOrder /\ GreetsFirst /\ Next => GreetsFirst'
<1> SUFFICES ASSUME TypeOK, OneUser, OpenedInOrder, GreetsFirst, Next PROVE GreetsFirst'
  OBVIOUS
<1> USE DEF TypeOK
<1>0. \A v \in Workers : conn[v] # 0 => conn[v] \in Connections
  BY ConsumerAssumption DEF LoopTypeOK, Connections
<1>1. ASSUME NEW w \in Workers, Opening(w) PROVE GreetsFirst'
  <2>0. PICK c \in Connections : c = opened + 1 /\ conn' = [conn EXCEPT ![w] = c]
    BY <1>1, StepKinds, ConsumerAssumption DEF subscribe, LoopTypeOK, Connections
  <2>1. NotSubscribed(c)'
    <3>1. phase'[c] = "new" /\ toNsqd'[c] = <<>>
      BY <1>1, <2>0, StepKinds, ConsumerAssumption DEF subscribe, OpenedInOrder, LoopTypeOK, NsqdTypeOK
    <3>2. QED
      BY <3>1 DEF NotSubscribed
  <2>2. \A v \in Workers \ {w} : conn[v] # 0 /\ ~up[v] => NotSubscribed(conn[v])'
    <3>1. ASSUME NEW v \in Workers \ {w}, conn[v] # 0, ~up[v] PROVE NotSubscribed(conn[v])'
      <4>1. conn'[v] = conn[v] /\ conn[v] \in Connections /\ conn[v] # c
        BY <1>0, <2>0, <3>1, ConsumerAssumption DEF LoopTypeOK, Connections
      <4>2. phase'[conn[v]] = phase[conn[v]] /\ UNCHANGED toNsqd
        BY <1>1, <2>0, <4>1, StepKinds DEF subscribe, NsqdTypeOK
      <4>3. QED
        BY <3>1, <4>1, <4>2 DEF NotSubscribed, GreetsFirst
    <3>2. QED
      BY <3>1
  <2>3. QED
    BY <1>1, <2>0, <2>1, <2>2, StepKinds DEF subscribe, GreetsFirst, NotSubscribed, LoopTypeOK
<1>2. ASSUME NEW w \in Workers, Working(w) PROVE GreetsFirst'
  <2>1. UNCHANGED phase
    BY <1>2, StepKinds
  <2>2. CASE UNCHANGED <<toNsqd, conn, up>> /\ pc'[w] \notin {"identify", "dead"} /\ \A v \in Workers \ {w} : pc'[v] = pc[v]
    BY <2>1, <2>2 DEF GreetsFirst, NotSubscribed
  <2>3. CASE Connected(w) \/ Flush(w) \/ touch(w)
    <3>1. PICK command \in Commands :
            /\ toNsqd' = Written(conn[w], command) \/ toNsqd' = toNsqd
            /\ ~up[w] => command.name # "SUB"
      <4>1. CASE Connected(w)
        BY <4>1, CommandType DEF Connected, Bare, Command
      <4>2. CASE Flush(w)
        BY <4>2 DEF Flush, WorkTypeOK
      <4>3. CASE touch(w)
        BY <4>3, CommandType DEF touch, Command, WorkTypeOK
      <4>4. QED
        BY <2>3, <4>1, <4>2, <4>3
    <3>2. conn[w] \in Connections /\ UNCHANGED conn
      BY <1>0, <2>3 DEF Connected, Flush, touch, loop, LoopTypeOK
    <3>3. \A v \in Workers : conn[v] # 0 /\ ~up[v] => NotSubscribed(conn[v])'
      <4>1. ASSUME NEW v \in Workers, conn[v] # 0, ~up[v] PROVE NotSubscribed(conn[v])'
        <5>1. NotSubscribed(conn[v])
          BY <4>1 DEF GreetsFirst
        <5>2. CASE v = w
          <6>1. toNsqd'[conn[v]] = toNsqd[conn[v]] \/ toNsqd'[conn[v]] = Append(toNsqd[conn[v]], command)
            <7>1. \/ Written(conn[w], command)[conn[w]] = toNsqd[conn[w]]
                  \/ Written(conn[w], command)[conn[w]] = Append(toNsqd[conn[w]], command)
              BY <3>2, WrittenIs
            <7>2. QED
              BY <3>1, <5>2, <7>1
          <6>2. toNsqd[conn[v]] \in Seq(Commands) /\ command.name # "SUB"
            BY <3>1, <3>2, <4>1, <5>2 DEF SocketsTypeOK
          <6>3. QED
            BY <2>1, <3>2, <5>1, <6>1, <6>2 DEF NotSubscribed
        <5>3. CASE v # w
          <6>1. conn[v] # conn[w]
            BY <4>1, <5>3 DEF OneUser
          <6>2. toNsqd'[conn[v]] = toNsqd[conn[v]]
            BY <1>0, <3>1, <3>2, <4>1, <6>1, WrittenIs
          <6>3. QED
            BY <2>1, <3>2, <5>1, <6>2 DEF NotSubscribed
        <5>4. QED
          BY <5>2, <5>3
      <4>2. QED
        BY <4>1
    <3>4. /\ \A v \in Workers : ~up'[v] => ~up[v]
          /\ \A v \in Workers : pc'[v] \in {"identify", "dead"} => ~up'[v]
      BY <2>3 DEF Connected, Flush, touch, loop, Greet, GreetsFirst, LoopTypeOK
    <3>5. QED
      BY <3>2, <3>3, <3>4 DEF GreetsFirst
  <2>4. CASE send_identify(w)
    BY <2>1, <2>4 DEF send_identify, Greet, GreetsFirst, NotSubscribed, LoopTypeOK
  <2>5. CASE Crash(w)
    <3>1. \A v \in Workers \ {w} : conn'[v] = conn[v] /\ up'[v] = up[v] /\ pc'[v] = pc[v]
      BY <2>5 DEF Crash, LoopTypeOK
    <3>2. conn'[w] = 0 /\ up'[w] = FALSE /\ UNCHANGED toNsqd
      BY <2>5 DEF Crash, sockets, LoopTypeOK
    <3>3. QED
      BY <2>1, <3>1, <3>2 DEF GreetsFirst, NotSubscribed
  <2>6. QED
    BY <1>2, <2>2, <2>3, <2>4, <2>5 DEF Working, readcb, process_message_queue, finish, requeue,
       MayAnswer, CallbackSucceeds, CallbackThrows, Return, loop, sockets, LoopTypeOK
<1>3. ASSUME NEW c \in Connections, Serving(c) PROVE GreetsFirst'
  <2>1. ASSUME NEW d \in Connections, NotSubscribed(d) PROVE NotSubscribed(d)'
    <3>1. CASE c # d
      BY <1>3, <2>1, <3>1 DEF Serving, NsqdDelivers, NsqdCloses, NsqdNotices, Closed, NsqdGreets,
         NsqdSubscribes, NsqdReady, NsqdAnswers, NsqdRejects, Taken, NotSubscribed, NsqdTypeOK,
         SocketsTypeOK
    <3>2. CASE c = d
      <4>1. toNsqd[d] \in Seq(Commands)
        BY DEF SocketsTypeOK
      <4>2. CASE Closed(c)
        BY <3>2, <4>2 DEF Closed, NotSubscribed, NsqdTypeOK, SocketsTypeOK
      <4>3. CASE toNsqd'[d] = toNsqd[d] /\ phase'[d] = phase[d]
        BY <2>1, <4>3 DEF NotSubscribed
      <4>4. CASE toNsqd[d] # <<>> /\ toNsqd'[d] = Tail(toNsqd[d]) /\ phase'[d] # "subscribed"
        BY <2>1, <4>1, <4>4 DEF NotSubscribed
      <4>5. CASE NsqdSubscribes(c)
        BY <2>1, <3>2, <4>1, <4>5 DEF NsqdSubscribes, Receives, NotSubscribed
      <4>6. QED
        BY <1>3, <2>1, <3>2, <4>2, <4>3, <4>4, <4>5
        DEF Serving, NsqdDelivers, NsqdCloses, NsqdNotices, NsqdGreets, NsqdReady, NsqdAnswers,
            NsqdRejects, Receives, Taken, NotSubscribed, NsqdTypeOK, SocketsTypeOK
    <3>3. QED
      BY <3>1, <3>2
  <2>2. QED
    BY <1>0, <1>3, <2>1, StepKinds DEF GreetsFirst, NotSubscribed
<1>4. ASSUME NEW m \in Messages, Passing(m) PROVE GreetsFirst'
  BY <1>4, StepKinds DEF GreetsFirst, NotSubscribed
<1>5. QED
  BY <1>1, <1>2, <1>3, <1>4, NextCases

LEMMA BufferedStep == TypeOK /\ AnswerBuffered /\ Next => AnswerBuffered'
<1> SUFFICES ASSUME TypeOK, AnswerBuffered, Next PROVE AnswerBuffered'
  OBVIOUS
<1> USE DEF TypeOK, LoopTypeOK, WorkTypeOK
<1>1. ASSUME NEW w \in Workers, Opening(w) PROVE AnswerBuffered'
  <2>1. pc[w] # "callback"
    BY <1>1 DEF Opening, StartWorker, ConnEof, ConnError
  <2>2. /\ UNCHANGED <<called, current>>
        /\ \A v \in Workers \ {w} : pc'[v] = pc[v] /\ outbuf'[v] = outbuf[v]
    <3>1. subscribe(w) /\ UNCHANGED <<current, called>>
      BY <1>1, StepKinds
    <3>2. QED
      BY <3>1 DEF subscribe
  <2>3. QED
    BY <2>1, <2>2 DEF AnswerBuffered
<1>2. ASSUME NEW w \in Workers, Working(w) PROVE AnswerBuffered'
  <2>1. \A v \in Workers \ {w} : /\ called'[v] = called[v] /\ current'[v] = current[v]
                                 /\ pc'[v] = pc[v] /\ outbuf'[v] = outbuf[v]
    BY <1>2 DEF Working, Connected, send_identify, Greet, Flush, readcb, process_message_queue,
       touch, finish, requeue, CallbackSucceeds, CallbackThrows, Return, Crash, loop, work
  <2>2. CASE finish(w) \/ requeue(w)
    <3>1. PICK n \in {"FIN", "REQ"} :
            /\ outbuf' = [outbuf EXCEPT ![w] = Append(outbuf[w], Command(n, current[w]))]
            /\ called' = [called EXCEPT ![w] = n] /\ UNCHANGED <<pc, current>> /\ pc[w] = "callback"
      BY <2>2 DEF finish, requeue, MayAnswer, loop
    <3>2. Command(n, current[w]) \in ToSet(Append(outbuf[w], Command(n, current[w])))
      BY <3>1, ToSetOps, CommandType
    <3>3. QED
      BY <2>1, <3>1, <3>2 DEF AnswerBuffered
  <2>3. CASE called'[w] = "none"
    BY <2>1, <2>3 DEF AnswerBuffered
  <2>4. CASE pc[w] # "callback" /\ UNCHANGED called
    BY <2>1, <2>4 DEF AnswerBuffered
  <2>5. QED
    BY <1>2, <2>1, <2>2, <2>3, <2>4 DEF Working, Connected, send_identify, Greet, Flush, readcb,
       process_message_queue, touch, CallbackSucceeds, CallbackThrows, Return, Crash, loop, work
<1>3. ASSUME UNCHANGED <<called, current, pc, outbuf>> PROVE AnswerBuffered'
  BY <1>3 DEF AnswerBuffered
<1>4. QED
  BY <1>1, <1>2, <1>3, StepKinds, NextCases

LEMMA DeadIsEmptyStep == TypeOK /\ DeadIsEmpty /\ Next => DeadIsEmpty'
<1> SUFFICES ASSUME TypeOK, DeadIsEmpty, Next PROVE DeadIsEmpty'
  OBVIOUS
<1>1. ASSUME NEW w \in Workers, Opening(w) PROVE DeadIsEmpty'
  BY <1>1, StepKinds DEF subscribe, DeadIsEmpty, TypeOK, LoopTypeOK
<1>2. ASSUME NEW w \in Workers, Working(w) PROVE DeadIsEmpty'
  <2>1. \A v \in Workers \ {w} : pc'[v] = pc[v] /\ queue'[v] = queue[v]
    BY <1>2 DEF Working, Connected, send_identify, Greet, Flush, readcb, process_message_queue,
       touch, finish, requeue, CallbackSucceeds, CallbackThrows, Return, Crash, loop, work,
       TypeOK, LoopTypeOK, WorkTypeOK
  <2>2. pc'[w] = "dead" => queue'[w] = <<>>
    BY <1>2 DEF Working, Connected, send_identify, Greet, Flush, readcb, process_message_queue,
       touch, finish, requeue, MayAnswer, CallbackSucceeds, CallbackThrows, Return, Crash, loop, work,
       TypeOK, LoopTypeOK, WorkTypeOK
  <2>3. QED
    BY <2>1, <2>2 DEF DeadIsEmpty
<1>3. ASSUME UNCHANGED <<pc, queue>> PROVE DeadIsEmpty'
  BY <1>3 DEF DeadIsEmpty
<1>4. QED
  BY <1>1, <1>2, <1>3, StepKinds, NextCases

LEMMA UnbufferedStep == TypeOK /\ TouchUnbuffered /\ Next => TouchUnbuffered'
<1> SUFFICES ASSUME TypeOK, TouchUnbuffered, Next PROVE TouchUnbuffered'
  OBVIOUS
<1> DEFINE Pure(s) == \A i \in DOMAIN s : s[i].name # "TOUCH"
<1>0. \A v \in Workers : outbuf[v] \in Seq(Commands) /\ Pure(outbuf[v])
  BY DEF TouchUnbuffered, TypeOK, WorkTypeOK
<1>1. ASSUME NEW w \in Workers, NEW s, Pure(s), outbuf' = [outbuf EXCEPT ![w] = s] PROVE TouchUnbuffered'
  BY <1>0, <1>1 DEF TouchUnbuffered, TypeOK, WorkTypeOK
<1>2. \A s, t \in Seq(Commands) : Pure(s) /\ Pure(t) => Pure(s \o t) /\ s \o t \in Seq(Commands)
  OBVIOUS
<1>3. /\ \A n \in {"SUB", "RDY"} : <<Bare(n)>> \in Seq(Commands) /\ Pure(<<Bare(n)>>)
      /\ <<Bare("SUB"), Bare("RDY")>> \in Seq(Commands) /\ Pure(<<Bare("SUB"), Bare("RDY")>>)
      /\ \A n \in {"FIN", "REQ"}, m \in Messages :
            <<Command(n, m)>> \in Seq(Commands) /\ Pure(<<Command(n, m)>>)
      /\ <<>> \in Seq(Commands) /\ Pure(<<>>)
  BY CommandType DEF Bare, Command
<1>4. \A s \in Seq(Commands) : s # <<>> /\ Pure(s) => Pure(Tail(s))
  OBVIOUS
<1> HIDE DEF Pure
<1>5. CASE UNCHANGED outbuf
  BY <1>5 DEF TouchUnbuffered
<1>6. ASSUME NEW w \in Workers, NEW s \in Seq(Commands), Pure(s), outbuf' = [outbuf EXCEPT ![w] = outbuf[w] \o s]
      PROVE  TouchUnbuffered'
  BY <1>0, <1>1, <1>2, <1>6
<1>7. ASSUME NEW w \in Workers, Opening(w) \/ Crash(w) PROVE TouchUnbuffered'
  BY <1>1, <1>3, <1>7, StepKinds DEF subscribe, Crash
<1>8. ASSUME NEW w \in Workers, Connected(w) \/ send_identify(w) PROVE TouchUnbuffered'
  BY <1>3, <1>5, <1>6, <1>8 DEF Connected, send_identify, Greet
<1>9. ASSUME NEW w \in Workers, Flush(w) PROVE TouchUnbuffered'
  BY <1>0, <1>1, <1>4, <1>9 DEF Flush
<1>10. ASSUME NEW w \in Workers, finish(w) \/ requeue(w) PROVE TouchUnbuffered'
  <2>1. PICK n \in {"FIN", "REQ"} :
          outbuf' = [outbuf EXCEPT ![w] = Append(outbuf[w], Command(n, current[w]))]
    BY <1>10 DEF finish, requeue
  <2>2. current[w] \in Messages
    BY <1>10 DEF finish, requeue, MayAnswer, TypeOK, WorkTypeOK
  <2>3. Append(outbuf[w], Command(n, current[w])) = outbuf[w] \o <<Command(n, current[w])>>
    <3>1. Command(n, current[w]) \in Commands /\ <<Command(n, current[w])>> \in Seq(Commands)
      BY <1>3, <2>2, CommandType
    <3>2. QED
      BY <1>0, <3>1
  <2>4. QED
    BY <1>3, <1>6, <2>1, <2>2, <2>3
<1>11. ASSUME NEW w \in Workers, CallbackSucceeds(w) \/ CallbackThrows(w) PROVE TouchUnbuffered'
  <2>1. current[w] \in Messages
    BY <1>11 DEF CallbackSucceeds, CallbackThrows, TypeOK, WorkTypeOK
  <2>2. PICK s \in Seq(Commands) : Pure(s) /\ Return(w, s)
    BY <1>3, <1>11, <2>1 DEF CallbackSucceeds, CallbackThrows
  <2>3. outbuf[w] \o s \in Seq(Commands) /\ Pure(outbuf[w] \o s)
    BY <1>0, <1>2, <2>2
  <2>4. Pure((outbuf[w] \o s) \o <<Bare("RDY")>>)
    BY <1>2, <1>3, <2>3
  <2>5. outbuf' = [outbuf EXCEPT ![w] = (outbuf[w] \o s) \o <<Bare("RDY")>>]
    BY <2>2 DEF Return
  <2>6. QED
    BY <1>1, <2>4, <2>5
<1>12. ASSUME NEW w \in Workers, readcb(w) \/ process_message_queue(w) \/ touch(w) PROVE UNCHANGED outbuf
  BY <1>12 DEF readcb, process_message_queue, touch
<1>13. QED
  BY <1>5, <1>7, <1>8, <1>9, <1>10, <1>11, <1>12, StepKinds, NextCases DEF Working
-----------------------------------------------------------------------------
(* What a step leaves alone of the other workers and of the sockets they   *)
(* use.                                                                    *)
Mine(v) == <<conn[v], up[v], pc[v], queue[v], current[v], called[v], outbuf[v]>>
Untouched(v) == UNCHANGED Mine(v) /\ toNsqd'[conn[v]] = toNsqd[conn[v]] /\ toClient'[conn[v]] = toClient[conn[v]]

LEMMA ConnRange == TypeOK => \A v \in Workers : conn[v] # 0 => conn[v] \in Connections
  BY ConsumerAssumption DEF TypeOK, LoopTypeOK, Connections

LEMMA Elsewhere ==
    ASSUME TypeOK, OneUser, NEW w \in Workers, Opening(w) \/ Working(w),
           NEW v \in Workers, v # w, conn[v] # 0
    PROVE  Untouched(v)
<1>0. conn[v] \in Connections /\ conn[v] # conn[w]
  BY ConnRange DEF OneUser
<1>1. UNCHANGED Mine(v)
  <2>1. ASSUME Opening(w) PROVE UNCHANGED Mine(v)
    BY <2>1, StepKinds DEF subscribe, Mine, TypeOK, LoopTypeOK, WorkTypeOK
  <2>2. ASSUME Working(w) PROVE UNCHANGED Mine(v)
    BY <2>2 DEF Working, Connected, send_identify, Greet, Flush, readcb, process_message_queue,
       touch, finish, requeue, CallbackSucceeds, CallbackThrows, Return, Crash, loop, work,
       Mine, TypeOK, LoopTypeOK, WorkTypeOK
  <2>3. QED
    BY <2>1, <2>2
<1>2. toNsqd'[conn[v]] = toNsqd[conn[v]]
  <2>1. ASSUME NEW command, toNsqd' = Written(conn[w], command), conn[w] # 0
        PROVE  toNsqd'[conn[v]] = toNsqd[conn[v]]
    BY <1>0, <2>1, ConnRange, WrittenIs
  <2>2. CASE UNCHANGED toNsqd
    BY <2>2
  <2>3. CASE pc[w] = "dead"
    BY <2>2, <2>3 DEF Opening, Working, StartWorker, ConnEof, ConnError, subscribe, Connected,
       send_identify, Flush, readcb, process_message_queue, touch, finish, requeue, MayAnswer,
       CallbackSucceeds, CallbackThrows, Crash
  <2>4. CASE conn[w] # 0
    BY <2>1, <2>2, <2>4 DEF Opening, Working, StartWorker, ConnEof, ConnError, subscribe,
       Connected, send_identify, Flush, readcb, process_message_queue, touch, finish, requeue,
       CallbackSucceeds, CallbackThrows, Return, Crash, sockets
  <2>5. QED
    BY <2>3, <2>4 DEF TypeOK, LoopTypeOK
<1>3. toClient'[conn[v]] = toClient[conn[v]]
  <2>1. \/ UNCHANGED toClient
        \/ \E s : toClient' = [toClient EXCEPT ![conn[w]] = s]
    BY DEF Opening, Working, StartWorker, ConnEof, ConnError, Connected, send_identify, Flush,
       readcb, process_message_queue, touch, finish, requeue, CallbackSucceeds, CallbackThrows,
       Return, Crash, sockets
  <2>2. QED
    BY <1>0, <2>1 DEF TypeOK, SocketsTypeOK
<1>4. QED
  BY <1>1, <1>2, <1>3 DEF Untouched

LEMMA ElsewhereServed ==
    ASSUME TypeOK, NEW c \in Connections, Serving(c), NEW v \in Workers, conn[v] # 0, conn[v] # c
    PROVE  Untouched(v) /\ phase'[conn[v]] = phase[conn[v]]
<1>1. UNCHANGED Mine(v)
  BY StepKinds DEF Mine
<1>2. /\ toNsqd'[conn[v]] = toNsqd[conn[v]] /\ toClient'[conn[v]] = toClient[conn[v]]
      /\ phase'[conn[v]] = phase[conn[v]]
  BY ConnRange DEF Serving, NsqdDelivers, NsqdCloses, NsqdNotices, Closed, NsqdGreets,
     NsqdSubscribes, NsqdReady, NsqdAnswers, NsqdRejects, Taken, Reply, TypeOK, NsqdTypeOK,
     SocketsTypeOK
<1>3. QED
  BY <1>1, <1>2 DEF Untouched

(* Where a message in flight on the connection of v may be: InHand, for    *)
(* the one worker that uses it.                                            *)
Has(v, m) ==
    \/ Frame("message", m) \in ToSet(toClient[conn[v]])
    \/ \E command \in Answers(m) : command \in ToSet(toNsqd[conn[v]])
    \/ m \in ToSet(queue[v]) \/ current[v] = m
    \/ \E command \in Answers(m) : command \in ToSet(outbuf[v])

LEMMA HasIsInHand ==
    /\ OneUser => \A v \in Workers, m \in Messages : conn[v] # 0 => (InHand(m, conn[v]) <=> Has(v, m))
    /\ OneUser' => \A v \in Workers, m \in Messages :
                    conn'[v] # 0 => (InHand(m, conn[v])' <=> Has(v, m)')
<1>1. ASSUME OneUser, NEW v \in Workers, NEW m \in Messages, conn[v] # 0
      PROVE  InHand(m, conn[v]) <=> Has(v, m)
  BY <1>1 DEF OneUser, InHand, Has
<1>2. ASSUME OneUser', NEW v \in Workers, NEW m \in Messages, conn'[v] # 0
      PROVE  InHand(m, conn[v])' <=> Has(v, m)'
  BY <1>2 DEF OneUser, InHand, Has, Answers, Frame, Command, ToSet
<1>3. QED
  BY <1>1, <1>2

LEMMA UntouchedHas ==
    ASSUME NEW v \in Workers, Untouched(v), NEW m \in Messages, Has(v, m)
    PROVE  Has(v, m)'
  BY DEF Untouched, Mine, Has, Answers, Frame, Command, ToSet

LEMMA ForgottenStep == TypeOK /\ BoundsKept /\ Next => (NoneForgotten' => NoneForgotten)
<1> SUFFICES ASSUME TypeOK, BoundsKept, Next PROVE NoneForgotten' => NoneForgotten
  OBVIOUS
<1>1. failures' <= failures
  <2>1. ASSUME NEW w \in Workers, Opening(w) \/ Working(w) PROVE failures' <= failures
    BY <2>1 DEF Opening, Working, StartWorker, ConnEof, ConnError, Connected, send_identify,
                Flush, readcb, process_message_queue, touch, finish, requeue, MayAnswer,
                CallbackSucceeds, CallbackThrows, Crash, Fault, Failure, bounds, TypeOK, BoundsTypeOK
  <2>2. ASSUME NEW c \in Connections, Serving(c) PROVE failures' <= failures
    BY <2>2 DEF Serving, NsqdDelivers, NsqdCloses, NsqdNotices, NsqdGreets, NsqdSubscribes,
                NsqdReady, NsqdAnswers, NsqdRejects, Fault, bounds, TypeOK, BoundsTypeOK
  <2>3. ASSUME NEW m \in Messages, Passing(m) PROVE failures' <= failures
    BY <2>3 DEF Passing, NsqdTimesOut, NsqdReclaims, DelayEnds, Fault, bounds, TypeOK, BoundsTypeOK
  <2>4. QED
    BY <2>1, <2>2, <2>3, NextCases
<1>2. failures \in Nat /\ failures' \in Nat
  BY TypeStep DEF TypeOK, BoundsTypeOK
<1>3. QED
  BY <1>1, <1>2, ConsumerAssumption DEF BoundsKept, NoneForgotten
-----------------------------------------------------------------------------
Linked == BoundsKept /\ OneUser /\ OpenedInOrder /\ HeldBySubscribers /\ GreetsFirst /\ AnswerBuffered
          /\ DeadIsEmpty /\ TouchUnbuffered

LEMMA LinkedStep == TypeOK /\ Linked /\ [Next]_vars => Linked'
<1>1. ASSUME Linked, UNCHANGED vars PROVE Linked'
  BY <1>1 DEF vars, nsqd, sockets, loop, work, bounds, Linked, BoundsKept, OneUser, OpenedInOrder,
     HeldBySubscribers, GreetsFirst, NotSubscribed, AnswerBuffered,
     DeadIsEmpty, TouchUnbuffered
<1>2. ASSUME TypeOK, Linked, Next PROVE Linked'
  BY <1>2, BoundsKeptStep, OneUserStep, OpenedInOrderStep, HeldStep, GreetsStep, BufferedStep,
     DeadIsEmptyStep, UnbufferedStep DEF Linked
<1>3. QED
  BY <1>1, <1>2

LEMMA LinkedInit == Init => Linked
  BY ConsumerAssumption DEF Init, Linked, BoundsKept, OneUser, OpenedInOrder,
     HeldBySubscribers, GreetsFirst, NotSubscribed, AnswerBuffered, DeadIsEmpty, TouchUnbuffered, Connections

LEMMA CommandSets ==
    /\ \A s, t \in Seq(Commands) : s \o t \in Seq(Commands) /\ ToSet(s \o t) = ToSet(s) \cup ToSet(t)
    /\ \A e \in Commands : <<e>> \in Seq(Commands) /\ e \in ToSet(<<e>>)
<1>1. ASSUME NEW s \in Seq(Commands), NEW t \in Seq(Commands)
      PROVE  s \o t \in Seq(Commands) /\ ToSet(s \o t) = ToSet(s) \cup ToSet(t)
  BY ToSetOps
<1>2. ASSUME NEW e \in Commands PROVE <<e>> \in Seq(Commands) /\ e \in ToSet(<<e>>)
  <2>1. ToSet(<<e>>) = {e}
    <3>1. <<>> \in Seq(Commands)
      OBVIOUS
    <3>2. \A f \in Commands : ToSet(<<f>>) = {f}
      BY <3>1, ToSetOps
    <3>3. QED
      BY <3>2
  <2>2. QED
    BY <2>1
<1>3. QED
  BY <1>1, <1>2

(* What the steps of a worker do with a message they have. *)
Forgets(w) == ~AutoFinish /\ called[w] = "none" /\ (CallbackSucceeds(w) \/ CallbackThrows(w))

LEMMA KeepsMessage ==
    ASSUME TypeOK, Linked, NEW w \in Workers, Working(w), NEW m \in Messages,
           conn'[w] # 0, holder[m] = conn[w], Has(w, m), Forgets(w) => m # current[w]
    PROVE  Has(w, m)'
<1> USE DEF TypeOK
<1>0. /\ conn[w] \in Connections /\ UNCHANGED conn /\ Open(conn[w]) /\ phase[conn[w]] = "subscribed"
      /\ outbuf[w] \in Seq(Commands) /\ queue[w] \in Seq(Messages)
      /\ toNsqd[conn[w]] \in Seq(Commands) /\ toClient[conn[w]] \in Seq(Frames)
      /\ pc[w] # "identify"
  <2>1. conn'[w] = conn[w] /\ UNCHANGED conn
    BY StepKinds DEF Crash, LoopTypeOK
  <2>2. conn[w] \in Connections
    BY <2>1, ConnRange
  <2>3. phase[conn[w]] = "subscribed"
    BY <2>1 DEF Linked, HeldBySubscribers
  <2>4. QED
    BY <2>1, <2>2, <2>3 DEF Linked, GreetsFirst, NotSubscribed, Open, WorkTypeOK, SocketsTypeOK
<1> DEFINE c == conn[w]
<1>1. ASSUME NEW command \in Commands, toNsqd' = Written(c, command)
      PROVE  toNsqd'[c] = Append(toNsqd[c], command) /\ ToSet(toNsqd'[c]) = ToSet(toNsqd[c]) \cup {command}
  <2>1. toNsqd'[c] = Append(toNsqd[c], command)
    BY <1>0, <1>1, WrittenIs
  <2>2. QED
    BY <1>0, <2>1, ToSetOps
<1>2. ASSUME /\ toNsqd'[c] = toNsqd[c] \/ ToSet(toNsqd[c]) \subseteq ToSet(toNsqd'[c])
             /\ toClient'[c] = toClient[c]
             /\ UNCHANGED <<queue, current>>
             /\ outbuf'[w] = outbuf[w] \/ ToSet(outbuf[w]) \subseteq ToSet(outbuf'[w])
      PROVE  Has(w, m)'
  BY <1>0, <1>2 DEF Has, Answers, Frame, Command
<1>3. CASE Connected(w)
  <2>1. ToSet(toNsqd[c]) \subseteq ToSet(toNsqd'[c])
    BY <1>1, <1>3, CommandType DEF Connected
  <2>2. outbuf'[w] = outbuf[w] \/ outbuf'[w] = outbuf[w] \o <<Bare("SUB"), Bare("RDY")>>
    BY <1>3 DEF Connected, Greet, WorkTypeOK
  <2>3. <<Bare("SUB"), Bare("RDY")>> \in Seq(Commands)
    BY CommandType
  <2>4. outbuf'[w] = outbuf[w] \/ ToSet(outbuf[w]) \subseteq ToSet(outbuf'[w])
    BY <1>0, <2>2, <2>3, CommandSets
  <2>5. QED
    BY <1>2, <1>3, <2>1, <2>4 DEF Connected, work
<1>4. CASE Flush(w)
  <2>1. outbuf[w] # <<>> /\ Head(outbuf[w]) \in Commands
    BY <1>0, <1>4 DEF Flush
  <2>2. ToSet(toNsqd'[c]) = ToSet(toNsqd[c]) \cup {Head(outbuf[w])}
    BY <1>1, <1>4, <2>1 DEF Flush
  <2>3. outbuf'[w] = Tail(outbuf[w])
    BY <1>4 DEF Flush, WorkTypeOK
  <2>4. ToSet(outbuf[w]) = {Head(outbuf[w])} \cup ToSet(outbuf'[w])
    BY <1>0, <2>1, <2>3, ToSetOps
  <2>5. UNCHANGED <<toClient, queue, current>>
    BY <1>4 DEF Flush, work
  <2>6. QED
    BY <1>0, <2>2, <2>4, <2>5 DEF Has, Answers, Frame, Command
<1>5. CASE readcb(w)
  <2>1. toClient[c] # <<>> /\ toClient'[c] = Tail(toClient[c]) /\ UNCHANGED <<toNsqd, outbuf, current>>
    BY <1>0, <1>5 DEF readcb, SocketsTypeOK
  <2>2. ToSet(toClient[c]) = {Head(toClient[c])} \cup ToSet(toClient'[c])
    BY <1>0, <2>1, ToSetOps
  <2>3. /\ ToSet(queue[w]) \subseteq ToSet(queue'[w])
        /\ Head(toClient[c]) = Frame("message", m) => m \in ToSet(queue'[w])
    <3>1. CASE Head(toClient[c]).kind # "message"
      BY <1>5, <3>1 DEF readcb, Frame
    <3>2. CASE Head(toClient[c]).kind = "message"
      <4>1. Head(toClient[c]).id \in Messages
        BY <1>0, <2>1, <3>2, FrameType
      <4>2. queue'[w] = Append(queue[w], Head(toClient[c]).id)
        BY <1>5, <3>2 DEF readcb, WorkTypeOK
      <4>3. ToSet(queue'[w]) = ToSet(queue[w]) \cup {Head(toClient[c]).id}
        BY <1>0, <4>1, <4>2, ToSetOps
      <4>4. QED
        BY <4>3 DEF Frame
    <3>3. QED
      BY <3>1, <3>2
  <2>4. QED
    BY <1>0, <2>1, <2>2, <2>3 DEF Has, Answers, Frame, Command
<1>6. CASE process_message_queue(w)
  <2>1. /\ queue[w] # <<>> /\ queue'[w] = Tail(queue[w]) /\ current'[w] = Head(queue[w])
        /\ current[w] = NoMessage /\ UNCHANGED <<toNsqd, toClient, outbuf>>
    BY <1>6 DEF process_message_queue, WorkTypeOK, sockets
  <2>2. ToSet(queue[w]) = {current'[w]} \cup ToSet(queue'[w])
    BY <1>0, <2>1, ToSetOps
  <2>3. QED
    BY <1>0, <2>1, <2>2, ConsumerAssumption DEF Has, Answers, Frame, Command
<1>7. CASE touch(w)
  <2>1. Command("TOUCH", current[w]) \in Commands
    BY <1>7, CommandType DEF touch, WorkTypeOK
  <2>2. QED
    BY <1>1, <1>2, <1>7, <2>1 DEF touch, work
<1>8. CASE finish(w) \/ requeue(w)
  <2>1. PICK n \in {"FIN", "REQ"} :
          outbuf'[w] = Append(outbuf[w], Command(n, current[w])) /\ current[w] \in Messages
    BY <1>8 DEF finish, requeue, MayAnswer, WorkTypeOK
  <2>2. ToSet(outbuf[w]) \subseteq ToSet(outbuf'[w])
    BY <1>0, <2>1, CommandType, ToSetOps
  <2>3. QED
    BY <1>2, <1>8, <2>2 DEF finish, requeue, sockets
<1>9. CASE CallbackSucceeds(w) \/ CallbackThrows(w)
  <2>0. current[w] \in Messages /\ pc[w] = "callback"
    BY <1>9 DEF CallbackSucceeds, CallbackThrows, WorkTypeOK
  <2>1. ASSUME NEW s \in Seq(Commands), Return(w, s),
               \/ \E command \in Answers(current[w]) : command \in ToSet(s)
               \/ \E command \in Answers(current[w]) : command \in ToSet(outbuf[w])
               \/ m # current[w]
        PROVE  Has(w, m)'
    <3>1. outbuf'[w] = (outbuf[w] \o s) \o <<Bare("RDY")>>
      BY <2>1 DEF Return, WorkTypeOK
    <3>2. outbuf[w] \o s \in Seq(Commands) /\ <<Bare("RDY")>> \in Seq(Commands)
      BY <1>0, <2>1, CommandType
    <3>3. ToSet(outbuf'[w]) = ToSet(outbuf[w] \o s) \cup ToSet(<<Bare("RDY")>>)
      BY <3>1, <3>2, CommandSets
    <3>4. ToSet(outbuf[w] \o s) = ToSet(outbuf[w]) \cup ToSet(s)
      BY <1>0, <2>1, ToSetOps
    <3>5. UNCHANGED <<toNsqd, toClient, queue>>
      BY <2>1 DEF Return, sockets
    <3>6. QED
      BY <1>0, <2>1, <3>3, <3>4, <3>5 DEF Has, Answers, Frame, Command
  <2>3. CASE AutoFinish
    <3>1. PICK command \in Answers(current[w]) : Return(w, <<command>>)
      BY <1>9, <2>3 DEF CallbackSucceeds, CallbackThrows, Answers
    <3>2. command \in Commands
      BY <2>0, <3>1, CommandType DEF Answers
    <3>3. <<command>> \in Seq(Commands) /\ command \in ToSet(<<command>>)
      BY <3>2, CommandSets
    <3>4. QED
      BY <2>1, <3>1, <3>3
  <2>4. CASE ~AutoFinish
    <3>1. Return(w, <<>>) /\ (called[w] # "none" \/ m # current[w])
      BY <1>9, <2>4 DEF CallbackSucceeds, CallbackThrows, Forgets
    <3>2. called[w] # "none" => Command(called[w], current[w]) \in ToSet(outbuf[w]) /\ called[w] \in {"FIN", "REQ"}
      BY DEF Linked, AnswerBuffered, WorkTypeOK
    <3>3. <<>> \in Seq(Commands)
      OBVIOUS
    <3>4. QED
      BY <2>1, <3>1, <3>2, <3>3 DEF Answers
  <2>5. QED
    BY <2>3, <2>4
<1>10. CASE Crash(w)
  BY <1>10 DEF Crash, LoopTypeOK
<1>11. CASE send_identify(w)
  BY <1>0, <1>11 DEF send_identify
<1>12. QED
  BY <1>3, <1>4, <1>5, <1>6, <1>7, <1>8, <1>9, <1>10, <1>11 DEF Working

LEMMA NotForgotten ==
    ASSUME TypeOK, BoundsKept, NEW w \in Workers, NoneForgotten' PROVE ~Forgets(w)
  BY ConsumerAssumption DEF Forgets, CallbackSucceeds, CallbackThrows, Failure, NoneForgotten, BoundsKept,
     TypeOK, BoundsTypeOK

LEMMA AccountedStep == TypeOK /\ Linked /\ InFlightAccounted /\ Next => InFlightAccounted'
<1> SUFFICES ASSUME TypeOK, Linked, InFlightAccounted, Next PROVE InFlightAccounted'
  OBVIOUS
<1> USE DEF TypeOK
<1>0. /\ OneUser /\ OneUser' /\ TypeOK'
      /\ \A m \in Messages : holder[m] # 0 <=> status[m] = "inflight"
      /\ \A m \in Messages : holder'[m] # 0 <=> status'[m] = "inflight"
  BY LinkedStep, TypeStep DEF Linked, NsqdTypeOK
<1>1. SUFFICES ASSUME NEW v \in Workers, NEW m \in Messages, NoneForgotten',
                      conn'[v] # 0, holder'[m] = conn'[v]
               PROVE  Has(v, m)'
  BY <1>0, <1>1, HasIsInHand DEF InFlightAccounted
<1>2. NoneForgotten
  BY <1>1, ForgottenStep DEF Linked
<1>3. conn[v] # 0 /\ holder[m] = conn[v] => Has(v, m)
  BY <1>0, <1>2, HasIsInHand DEF InFlightAccounted
<1>4. ASSUME NEW w \in Workers, Opening(w) PROVE Has(v, m)'
  <2>1. UNCHANGED holder /\ phase[opened + 1] = "none" /\ opened + 1 \in Connections
    BY <1>4, StepKinds, ConsumerAssumption DEF subscribe, Linked, OpenedInOrder, Connections, LoopTypeOK
  <2>2. v # w
    BY <1>1, <1>4, <2>1, StepKinds, ConsumerAssumption
    DEF subscribe, Linked, HeldBySubscribers, LoopTypeOK, Connections
  <2>3. conn'[v] = conn[v]
    BY <1>4, <2>2, StepKinds DEF subscribe, LoopTypeOK
  <2>4. QED
    BY <1>0, <1>1, <1>3, <1>4, <2>1, <2>2, <2>3, Elsewhere, UntouchedHas
<1>5. ASSUME NEW w \in Workers, Working(w) PROVE Has(v, m)'
  <2>1. UNCHANGED holder
    BY <1>5, StepKinds
  <2>2. conn[v] # 0 /\ conn'[v] = conn[v]
    BY <1>1, <1>5, StepKinds DEF Crash, LoopTypeOK
  <2>3. CASE v = w
    <3>1. ~Forgets(w)
      BY <1>1, NotForgotten DEF Linked
    <3>2. QED
      BY <1>1, <1>3, <1>5, <2>1, <2>2, <2>3, <3>1, KeepsMessage
  <2>4. CASE v # w
    BY <1>0, <1>1, <1>3, <1>5, <2>1, <2>2, <2>4, Elsewhere, UntouchedHas
  <2>5. QED
    BY <2>3, <2>4
<1>6. ASSUME NEW c \in Connections, Serving(c) PROVE Has(v, m)'
  <2>0. UNCHANGED <<conn, queue, current, outbuf>> /\ conn[v] \in Connections
    BY <1>1, <1>6, StepKinds, ConnRange
  <2>1. CASE conn[v] # c
    <3>1. holder'[m] = holder[m]
      <4>1. holder'[m] \in {0, holder[m], c}
        BY <1>6 DEF Serving, NsqdDelivers, NsqdCloses, NsqdNotices, Closed, NsqdGreets,
           NsqdSubscribes, NsqdReady, NsqdAnswers, NsqdRejects, NsqdTypeOK
      <4>2. QED
        BY <1>1, <2>0, <2>1, <4>1
    <3>2. QED
      BY <1>1, <1>3, <1>6, <2>0, <2>1, <3>1, ElsewhereServed, UntouchedHas
  <2>2. CASE conn[v] = c
    <3>0. toClient[c] \in Seq(Frames) /\ toNsqd[c] \in Seq(Commands)
      BY DEF SocketsTypeOK
    <3>1. ASSUME Has(v, m), ToSet(toClient[c]) \subseteq ToSet(toClient'[c]),
                 ToSet(toNsqd[c]) \cap Answers(m) \subseteq ToSet(toNsqd'[c])
          PROVE  Has(v, m)'
      BY <2>0, <2>2, <3>1 DEF Has, Answers, Frame, Command
    <3>2. CASE Closed(c)
      BY <1>1, <2>0, <2>2, <3>2 DEF Closed
    <3>3. ASSUME NEW n \in Messages, NsqdDelivers(c, n) PROVE Has(v, m)'
      <4>0. toClient'[c] = Append(toClient[c], Frame("message", n)) /\ UNCHANGED toNsqd
        BY <3>3 DEF NsqdDelivers, SocketsTypeOK
      <4>1. ToSet(toClient'[c]) = ToSet(toClient[c]) \cup {Frame("message", n)}
        BY <3>0, <4>0, FrameType, ToSetOps
      <4>2. CASE m = n
        BY <2>0, <2>2, <4>1, <4>2 DEF Has, Frame
      <4>3. CASE m # n
        <5>1. holder'[m] = holder[m]
          BY <3>3, <4>3 DEF NsqdDelivers, NsqdTypeOK
        <5>2. QED
          BY <1>1, <1>3, <2>0, <3>1, <4>0, <4>1, <5>1
      <4>4. QED
        BY <4>2, <4>3
    <3>4. ASSUME NEW command \in Commands, Receives(c, command), Taken(c), holder'[m] = holder[m],
                 command \notin Answers(m),
                 \E k \in {"response", "error"} : Reply(c, k) \/ UNCHANGED toClient
          PROVE  Has(v, m)'
      <4>1. ToSet(toNsqd[c]) = {command} \cup ToSet(toNsqd'[c])
        <5>1. toNsqd[c] # <<>> /\ command = Head(toNsqd[c]) /\ toNsqd'[c] = Tail(toNsqd[c])
          BY <3>4 DEF Receives, Taken, SocketsTypeOK
        <5>2. QED
          BY <3>0, <5>1, ToSetOps
      <4>2. ToSet(toClient[c]) \subseteq ToSet(toClient'[c])
        <5>1. PICK k \in {"response", "error"} : Reply(c, k) \/ UNCHANGED toClient
          BY <3>4
        <5>2. CASE Reply(c, k)
          <6>1. toClient'[c] = Append(toClient[c], Frame(k, NoMessage)) /\ Frame(k, NoMessage) \in Frames
            BY <5>2, FrameType DEF Reply, SocketsTypeOK
          <6>2. QED
            BY <3>0, <6>1, ToSetOps
        <5>3. QED
          BY <5>1, <5>2
      <4>3. QED
        BY <1>1, <1>3, <2>0, <3>1, <3>4, <4>1, <4>2
    <3>5. CASE NsqdGreets(c) \/ NsqdSubscribes(c) \/ NsqdReady(c)
      <4>1. PICK command \in Commands :
              /\ Receives(c, command) /\ Taken(c) /\ UNCHANGED holder
              /\ command.name \in {"V2", "SUB", "RDY"}
              /\ Reply(c, "response") \/ UNCHANGED toClient
        BY <3>5 DEF NsqdGreets, NsqdSubscribes, NsqdReady
      <4>2. command \notin Answers(m)
        BY <4>1 DEF Answers, Command
      <4>3. QED
        BY <3>4, <4>1, <4>2
    <3>6. CASE NsqdAnswers(c)
      <4>1. PICK command \in Commands : NsqdAnswers(c)!(command)
        BY <3>6 DEF NsqdAnswers
      <4>2. CASE command.id \notin InFlight(c)
        <5>1. holder'[m] = holder[m] /\ Reply(c, "error")
          BY <4>1, <4>2
        <5>2. command \notin Answers(m)
          BY <1>1, <2>0, <2>2, <4>2, <5>1 DEF Answers, Command, InFlight
        <5>3. QED
          BY <3>4, <4>1, <5>1, <5>2
      <4>3. CASE command.id \in InFlight(c)
        <5>1. command \notin Answers(m)
          BY <1>1, <2>0, <2>2, <4>1, <4>3 DEF Answers, Command, NsqdTypeOK
        <5>2. holder'[m] = holder[m] /\ UNCHANGED toClient
          BY <1>1, <2>0, <2>2, <4>1, <4>3, ConnRange DEF NsqdTypeOK
        <5>3. QED
          BY <3>4, <4>1, <5>1, <5>2
      <4>4. QED
        BY <4>2, <4>3
    <3>7. QED
      BY <1>6, <3>2, <3>3, <3>5, <3>6 DEF Serving, NsqdCloses, NsqdNotices, NsqdRejects
  <2>3. QED
    BY <2>1, <2>2
<1>7. ASSUME NEW n \in Messages, Passing(n) PROVE Has(v, m)'
  <2>1. UNCHANGED <<conn, queue, current, outbuf, toClient, toNsqd>>
    BY <1>7, StepKinds
  <2>2. holder'[m] \in {0, holder[m]}
    BY <1>7 DEF Passing, NsqdTimesOut, NsqdReclaims, Expires, DelayEnds, NsqdTypeOK
  <2>3. Has(v, m)
    BY <1>1, <1>3, <2>1, <2>2
  <2>4. QED
    BY <2>1, <2>3 DEF Has
<1>8. QED
  BY <1>4, <1>5, <1>6, <1>7, NextCases

LEMMA AccountedInit == Init => InFlightAccounted
  BY DEF Init, InFlightAccounted

LEMMA AccountedStutter == InFlightAccounted /\ UNCHANGED vars => InFlightAccounted'
  BY DEF vars, nsqd, sockets, loop, work, bounds, InFlightAccounted, NoneForgotten, InHand,
         Answers, Frame, Command

(* Unless a callback forgets it no delivery is lost inside the worker:     *)
(* readcb's copy of the frame into the queue (sub.c),                      *)
(* process_message_queue's hand-over to the callback and the answer after  *)
(* it keep every message in flight on a connection in use, reconnects and  *)
(* faults included.                                                        *)
THEOREM NoDeliveryForgotten == Spec => []InFlightAccounted
<1>1. Safety => []InFlightAccounted
  BY TypeInit, TypeStep, LinkedInit, LinkedStep, AccountedInit, AccountedStep, AccountedStutter, PTL
  DEF Safety
<1>2. QED
  BY <1>1, PTL DEF Spec
-----------------------------------------------------------------------------
(* How many elements of a sequence belong to a set. *)
Count(s, K) == Cardinality({i \in DOMAIN s : s[i] \in K})

LEMMA CountFacts ==
    ASSUME NEW S, NEW s \in Seq(S), NEW K
    PROVE  /\ IsFiniteSet({i \in DOMAIN s : s[i] \in K})
           /\ Count(s, K) \in Nat
           /\ Count(s, K) = 0 <=> \A i \in DOMAIN s : s[i] \notin K
<1>1. IsFiniteSet(DOMAIN s)
  <2>1. DOMAIN s = 1..Len(s) /\ Len(s) \in Int
    OBVIOUS
  <2>2. QED
    BY <2>1, FS_Interval
<1>2. IsFiniteSet({i \in DOMAIN s : s[i] \in K})
  BY <1>1, FS_Subset
<1>3. QED
  BY <1>2, FS_CardinalityType, FS_EmptySet DEF Count

LEMMA CountEmpty == \A K : Count(<<>>, K) = 0
<1>1. ASSUME NEW K PROVE {i \in DOMAIN <<>> : <<>>[i] \in K} = {}
  OBVIOUS
<1>2. QED
  BY <1>1, FS_EmptySet DEF Count

LEMMA CountAppend ==
    ASSUME NEW S, NEW s \in Seq(S), NEW e \in S, NEW K
    PROVE  Count(Append(s, e), K) = Count(s, K) + (IF e \in K THEN 1 ELSE 0)
<1> DEFINE P == {i \in DOMAIN s : s[i] \in K}
           Q == {i \in DOMAIN Append(s, e) : Append(s, e)[i] \in K}
<1>1. /\ Len(s) \in Nat /\ DOMAIN s = 1..Len(s) /\ DOMAIN Append(s, e) = 1..(Len(s) + 1)
      /\ \A i \in 1..Len(s) : Append(s, e)[i] = s[i]
      /\ Append(s, e)[Len(s) + 1] = e
  OBVIOUS
<1>2. Len(s) + 1 \notin P /\ 1..(Len(s) + 1) = 1..Len(s) \cup {Len(s) + 1}
  BY <1>1
<1>3. Q = IF e \in K THEN P \cup {Len(s) + 1} ELSE P
  BY <1>1, <1>2
<1>4. IsFiniteSet(P)
  BY CountFacts
<1> HIDE DEF P, Q
<1>5. Cardinality(Q) = Cardinality(P) + (IF e \in K THEN 1 ELSE 0)
  <2>1. Cardinality(P) \in Nat
    BY <1>4, FS_CardinalityType
  <2>2. \A x : x \notin P => Cardinality(P \cup {x}) = Cardinality(P) + 1
    BY <1>4, FS_AddElement
  <2>3. QED
    BY <1>2, <1>3, <2>1, <2>2
<1>6. QED
  BY <1>5 DEF Count, P, Q

LEMMA CountTail ==
    ASSUME NEW S, NEW s \in Seq(S), s # <<>>, NEW K
    PROVE  Count(s, K) = Count(Tail(s), K) + (IF Head(s) \in K THEN 1 ELSE 0)
<1> DEFINE P == {i \in DOMAIN s : s[i] \in K}
           Q == {i \in DOMAIN Tail(s) : Tail(s)[i] \in K}
           f == [i \in Q |-> i + 1]
<1>1. /\ Len(s) \in Nat \ {0} /\ DOMAIN s = 1..Len(s) /\ DOMAIN Tail(s) = 1..(Len(s) - 1)
      /\ \A i \in 1..(Len(s) - 1) : Tail(s)[i] = s[i + 1]
      /\ Head(s) = s[1] /\ Tail(s) \in Seq(S)
  OBVIOUS
<1>2. IsFiniteSet(P) /\ IsFiniteSet(Q)
  BY <1>1, CountFacts
<1>3. f \in Bijection(Q, P \ {1})
  <2>1. \A i \in Q : i \in 1..(Len(s) - 1) /\ i + 1 \in 1..Len(s) /\ i + 1 # 1
    BY <1>1
  <2>2. f \in [Q -> P \ {1}]
    BY <1>1, <2>1
  <2>3. \A i, j \in Q : f[i] = f[j] => i = j
    BY <2>1
  <2>4. \A j \in P \ {1} : j - 1 \in Q /\ f[j - 1] = j
    <3>1. ASSUME NEW j \in P \ {1} PROVE j - 1 \in 1..(Len(s) - 1) /\ Tail(s)[j - 1] = s[j] /\ s[j] \in K
      BY <1>1
    <3>2. \A j \in P \ {1} : j - 1 \in Q /\ (j - 1) + 1 = j
      BY <1>1, <3>1
    <3>3. QED
      BY <3>2
  <2>5. QED
    BY <2>2, <2>3, <2>4 DEF Bijection, Injection, Surjection, IsInjective
<1>4. Cardinality(P \ {1}) = Cardinality(Q)
  BY <1>2, <1>3, FS_Bijection DEF ExistsBijection
<1>5. 1 \in P <=> Head(s) \in K
  BY <1>1
<1> HIDE DEF P, Q
<1>6. Cardinality(P) = Cardinality(Q) + (IF Head(s) \in K THEN 1 ELSE 0)
  <2>1. Cardinality(P) \in Nat /\ Cardinality(Q) \in Nat
    BY <1>2, FS_CardinalityType
  <2>2. Cardinality(P \ {1}) = IF 1 \in P THEN Cardinality(P) - 1 ELSE Cardinality(P)
    BY <1>2, FS_RemoveElement
  <2>3. QED
    BY <1>4, <1>5, <2>1, <2>2
<1>7. QED
  BY <1>6 DEF Count, P, Q

LEMMA CountPrefix ==
    ASSUME NEW S, NEW s \in Seq(S), NEW n \in 0..Len(s), NEW K
    PROVE  Count(SubSeq(s, 1, n), K) <= Count(s, K)
<1>1. /\ DOMAIN SubSeq(s, 1, n) \subseteq DOMAIN s
      /\ \A i \in DOMAIN SubSeq(s, 1, n) : SubSeq(s, 1, n)[i] = s[i]
  OBVIOUS
<1>2. {i \in DOMAIN SubSeq(s, 1, n) : SubSeq(s, 1, n)[i] \in K} \subseteq {i \in DOMAIN s : s[i] \in K}
  BY <1>1
<1>3. QED
  BY <1>2, CountFacts, FS_Subset DEF Count
-----------------------------------------------------------------------------
(* The copies of the messages of K that w has: frames not read yet, places *)
(* in the queue, the message the callback runs on while nothing has been   *)
(* written for it, and answers on their way to nsqd.                       *)
FramesOf(K) == {Frame("message", m) : m \in K}
AnswersTo(K) == UNION {Answers(m) : m \in K}
Arriving(w, K) == Count(toClient[conn[w]], FramesOf(K))
Waiting(w, K) == Count(queue[w], K)
Running(w, K) == IF current[w] \in K /\ (AutoFinish \/ called[w] = "none") THEN 1 ELSE 0
Answered(w, K) == Count(outbuf[w], AnswersTo(K))
Leaving(w, K) == Count(toNsqd[conn[w]], AnswersTo(K))
Copies(w, K) == Arriving(w, K) + Waiting(w, K) + Running(w, K) + Answered(w, K) + Leaving(w, K)

LEMMA Members ==
    /\ \A K \in SUBSET Messages, frame \in Frames :
        frame \in FramesOf(K) <=> frame.kind = "message" /\ frame.id \in K
    /\ \A K \in SUBSET Messages, command \in Commands :
        command \in AnswersTo(K) <=> command.name \in {"FIN", "REQ"} /\ command.id \in K
    /\ \A K \in SUBSET Messages, m \in Messages :
        /\ \A n \in {"FIN", "REQ"} : Command(n, m) \in AnswersTo(K) <=> m \in K
        /\ Command("TOUCH", m) \notin AnswersTo(K)
    /\ \A K \in SUBSET Messages : \A n \in {"V2", "SUB", "RDY"} : Bare(n) \notin AnswersTo(K)
<1>1. ASSUME NEW K \in SUBSET Messages, NEW frame \in Frames
      PROVE  frame \in FramesOf(K) <=> frame.kind = "message" /\ frame.id \in K
  BY DEF Frames, FramesOf, Frame
<1>2. ASSUME NEW K \in SUBSET Messages, NEW command \in Commands
      PROVE  command \in AnswersTo(K) <=> command.name \in {"FIN", "REQ"} /\ command.id \in K
  BY DEF Commands, AnswersTo, Answers, Command
<1>3. ASSUME NEW K \in SUBSET Messages, NEW m \in Messages
      PROVE  /\ \A n \in {"FIN", "REQ"} : Command(n, m) \in AnswersTo(K) <=> m \in K
             /\ Command("TOUCH", m) \notin AnswersTo(K)
  BY <1>2, CommandType DEF Command
<1>4. ASSUME NEW K \in SUBSET Messages PROVE \A n \in {"V2", "SUB", "RDY"} : Bare(n) \notin AnswersTo(K)
  BY <1>2, CommandType DEF Bare, Command
<1>5. QED
  BY <1>1, <1>2, <1>3, <1>4

LEMMA Buffers ==
    TypeOK => \A w \in Workers :
        /\ queue[w] \in Seq(Messages) /\ outbuf[w] \in Seq(Commands)
        /\ conn[w] # 0 => /\ conn[w] \in Connections
                          /\ toClient[conn[w]] \in Seq(Frames) /\ toNsqd[conn[w]] \in Seq(Commands)
  BY ConnRange DEF TypeOK, WorkTypeOK, SocketsTypeOK

LEMMA CopiesType ==
    ASSUME TypeOK, NEW w \in Workers, NEW K, conn[w] # 0
    PROVE  /\ Arriving(w, K) \in Nat /\ Waiting(w, K) \in Nat /\ Running(w, K) \in {0, 1}
           /\ Answered(w, K) \in Nat /\ Leaving(w, K) \in Nat
<1>1. /\ \A s \in Seq(Commands) : \A L : Count(s, L) \in Nat
      /\ \A s \in Seq(Frames) : \A L : Count(s, L) \in Nat
      /\ \A s \in Seq(Messages) : \A L : Count(s, L) \in Nat
  BY CountFacts
<1>2. QED
  BY <1>1, Buffers DEF Arriving, Waiting, Running, Answered, Leaving

LEMMA CopiesType2 ==
    ASSUME TypeOK', NEW w \in Workers, NEW K, conn'[w] # 0
    PROVE  /\ Arriving(w, K)' \in Nat /\ Waiting(w, K)' \in Nat /\ Running(w, K)' \in {0, 1}
           /\ Answered(w, K)' \in Nat /\ Leaving(w, K)' \in Nat
<1>1. /\ \A s \in Seq(Commands) : \A L : Count(s, L) \in Nat
      /\ \A s \in Seq(Frames) : \A L : Count(s, L) \in Nat
      /\ \A s \in Seq(Messages) : \A L : Count(s, L) \in Nat
  BY CountFacts
<1>2. /\ queue'[w] \in Seq(Messages) /\ outbuf'[w] \in Seq(Commands)
      /\ toClient'[conn'[w]] \in Seq(Frames) /\ toNsqd'[conn'[w]] \in Seq(Commands)
  BY ConsumerAssumption DEF TypeOK, LoopTypeOK, WorkTypeOK, SocketsTypeOK, Connections
<1>3. QED
  BY <1>1, <1>2 DEF Arriving, Waiting, Running, Answered, Leaving, Count

(* Appending and taking, counted. *)
LEMMA CommandCounts ==
    ASSUME NEW K \in SUBSET Messages, NEW s \in Seq(Commands)
    PROVE  /\ \A e \in Commands : Count(Append(s, e), AnswersTo(K)) =
                Count(s, AnswersTo(K)) + (IF e.name \in {"FIN", "REQ"} /\ e.id \in K THEN 1 ELSE 0)
           /\ s # <<>> => Count(s, AnswersTo(K)) = Count(Tail(s), AnswersTo(K)) +
                (IF Head(s).name \in {"FIN", "REQ"} /\ Head(s).id \in K THEN 1 ELSE 0)
<1>1. ASSUME NEW e \in Commands
      PROVE  Count(Append(s, e), AnswersTo(K)) =
                Count(s, AnswersTo(K)) + (IF e.name \in {"FIN", "REQ"} /\ e.id \in K THEN 1 ELSE 0)
  BY CountAppend, Members
<1>2. ASSUME s # <<>>
      PROVE  Count(s, AnswersTo(K)) = Count(Tail(s), AnswersTo(K)) +
                (IF Head(s).name \in {"FIN", "REQ"} /\ Head(s).id \in K THEN 1 ELSE 0)
  <2>1. Head(s) \in Commands
    BY <1>2
  <2>2. QED
    BY <1>2, <2>1, CountTail, Members
<1>3. QED
  BY <1>1, <1>2

LEMMA FrameCounts ==
    ASSUME NEW K \in SUBSET Messages, NEW s \in Seq(Frames)
    PROVE  /\ \A e \in Frames : Count(Append(s, e), FramesOf(K)) =
                Count(s, FramesOf(K)) + (IF e.kind = "message" /\ e.id \in K THEN 1 ELSE 0)
           /\ s # <<>> => Count(s, FramesOf(K)) = Count(Tail(s), FramesOf(K)) +
                (IF Head(s).kind = "message" /\ Head(s).id \in K THEN 1 ELSE 0)
<1>1. ASSUME NEW e \in Frames
      PROVE  Count(Append(s, e), FramesOf(K)) =
                Count(s, FramesOf(K)) + (IF e.kind = "message" /\ e.id \in K THEN 1 ELSE 0)
  BY CountAppend, Members
<1>2. ASSUME s # <<>>
      PROVE  Count(s, FramesOf(K)) = Count(Tail(s), FramesOf(K)) +
                (IF Head(s).kind = "message" /\ Head(s).id \in K THEN 1 ELSE 0)
  <2>1. Head(s) \in Frames
    BY <1>2
  <2>2. QED
    BY <1>2, <2>1, CountTail, Members
<1>3. QED
  BY <1>1, <1>2

LEMMA QueueCounts ==
    ASSUME NEW K \in SUBSET Messages, NEW s \in Seq(Messages)
    PROVE  /\ \A e \in Messages : Count(Append(s, e), K) = Count(s, K) + (IF e \in K THEN 1 ELSE 0)
           /\ s # <<>> => Count(s, K) = Count(Tail(s), K) + (IF Head(s) \in K THEN 1 ELSE 0)
  BY CountAppend, CountTail
-----------------------------------------------------------------------------
(* The steps of a worker pass its copies on and make none, but for an      *)
(* answer beside auto_finish's.                                            *)
LEMMA GreetCounts ==
    ASSUME NEW K \in SUBSET Messages, NEW s \in Seq(Commands), NEW d \in Commands
    PROVE  Count(Append(Append(s, d), Bare("RDY")), AnswersTo(K)) = Count(Append(s, d), AnswersTo(K))
<1>1. Append(s, d) \in Seq(Commands)
  OBVIOUS
<1>2. Count(Append(s, d), AnswersTo(K)) \in Nat
  BY <1>1, CountFacts
<1>3. Bare("RDY") \in Commands /\ Bare("RDY").name \notin {"FIN", "REQ"}
  BY CommandType DEF Bare, Command
<1>4. Count(Append(Append(s, d), Bare("RDY")), AnswersTo(K)) = Count(Append(s, d), AnswersTo(K)) + 0
  BY <1>1, <1>3, CommandCounts
<1>5. QED
  BY <1>2, <1>4

LEMMA CopiesFlow ==
    ASSUME TypeOK, NEW w \in Workers, Working(w), conn'[w] # 0, NEW K \in SUBSET Messages
    PROVE  Copies(w, K)' <= Copies(w, K) + (faults - faults')
<1> USE DEF TypeOK
<1> DEFINE c == conn[w]
<1>0. /\ TypeOK' /\ conn'[w] = c /\ c # 0 /\ c \in Connections /\ UNCHANGED conn
      /\ queue[w] \in Seq(Messages) /\ outbuf[w] \in Seq(Commands)
      /\ toClient[c] \in Seq(Frames) /\ toNsqd[c] \in Seq(Commands)
  <2>1. TypeOK'
    BY NextCases, TypeStep DEF Next, WorkerStep, Working, conn_eventcb, Callback
  <2>2. UNCHANGED conn
    BY StepKinds DEF Crash, LoopTypeOK
  <2>3. QED
    BY <2>1, <2>2, Buffers
<1>1. /\ Arriving(w, K) \in Nat /\ Waiting(w, K) \in Nat /\ Running(w, K) \in {0, 1}
      /\ Answered(w, K) \in Nat /\ Leaving(w, K) \in Nat
      /\ Arriving(w, K)' \in Nat /\ Waiting(w, K)' \in Nat /\ Running(w, K)' \in {0, 1}
      /\ Answered(w, K)' \in Nat /\ Leaving(w, K)' \in Nat
      /\ faults \in Nat /\ faults' \in Nat
  BY <1>0, CopiesType, CopiesType2 DEF BoundsTypeOK
<1>2. SUFFICES Arriving(w, K)' + Waiting(w, K)' + Running(w, K)' + Answered(w, K)' + Leaving(w, K)' <=
               Arriving(w, K) + Waiting(w, K) + Running(w, K) + Answered(w, K) + Leaving(w, K)
               + (faults - faults')
  BY DEF Copies
<1>3. /\ toClient'[c] = toClient[c] => Arriving(w, K)' = Arriving(w, K)
      /\ queue'[w] = queue[w] => Waiting(w, K)' = Waiting(w, K)
      /\ UNCHANGED <<current, called>> => Running(w, K)' = Running(w, K)
      /\ outbuf'[w] = outbuf[w] => Answered(w, K)' = Answered(w, K)
      /\ toNsqd'[c] = toNsqd[c] => Leaving(w, K)' = Leaving(w, K)
  BY <1>0 DEF Arriving, Waiting, Running, Answered, Leaving, Count
<1>h. toClient[c] # <<>> =>
         Count(toClient[c], FramesOf(K)) = Count(Tail(toClient[c]), FramesOf(K)) +
            (IF Head(toClient[c]).kind = "message" /\ Head(toClient[c]).id \in K THEN 1 ELSE 0)
  <2>1. toClient[c] \in Seq(Frames) /\ K \in SUBSET Messages
    BY <1>0
  <2>2. QED
    BY <2>1, FrameCounts, Zenon
<1>4. ASSUME NEW command \in Commands, toNsqd' = Written(c, command)
      PROVE  Leaving(w, K)' <= Leaving(w, K) +
                (IF command.name \in {"FIN", "REQ"} /\ command.id \in K THEN 1 ELSE 0)
  <2>1. toNsqd'[c] = toNsqd[c] \/ toNsqd'[c] = Append(toNsqd[c], command)
    BY <1>0, <1>4, WrittenIs
  <2>2. CASE toNsqd'[c] = toNsqd[c]
    BY <1>1, <1>3, <2>2
  <2>3. CASE toNsqd'[c] = Append(toNsqd[c], command)
    <3>1. toNsqd[c] \in Seq(Commands) /\ K \in SUBSET Messages
      BY <1>0
    <3>2. Count(Append(toNsqd[c], command), AnswersTo(K)) = Count(toNsqd[c], AnswersTo(K)) +
             (IF command.name \in {"FIN", "REQ"} /\ command.id \in K THEN 1 ELSE 0)
      BY <1>4, <3>1, CommandCounts, Zenon
    <3>3. Leaving(w, K)' = Leaving(w, K) +
             (IF command.name \in {"FIN", "REQ"} /\ command.id \in K THEN 1 ELSE 0)
      BY <1>0, <2>3, <3>2 DEF Leaving
    <3>4. QED
      BY <1>1, <3>3
  <2>4. QED
    BY <2>1, <2>2, <2>3
<1>5. ASSUME NEW command \in Commands, outbuf'[w] = Append(outbuf[w], command)
      PROVE  Answered(w, K)' = Answered(w, K) +
                (IF command.name \in {"FIN", "REQ"} /\ command.id \in K THEN 1 ELSE 0)
  BY <1>0, <1>5, CommandCounts DEF Answered
<1>6. CASE Connected(w)
  <2>1. Leaving(w, K)' <= Leaving(w, K)
    BY <1>1, <1>4, <1>6, CommandType DEF Connected, Bare, Command
  <2>2. Answered(w, K)' = Answered(w, K)
    <3>1. ASSUME Greet(w) PROVE Answered(w, K)' = Answered(w, K)
      <4>1. outbuf'[w] = Append(Append(outbuf[w], Bare("SUB")), Bare("RDY"))
        BY <1>0, <3>1, CommandType DEF Greet, WorkTypeOK
      <4>2. Count(outbuf'[w], AnswersTo(K)) = Count(Append(outbuf[w], Bare("SUB")), AnswersTo(K))
        BY <1>0, <4>1, GreetCounts, CommandType
      <4>3. Count(Append(outbuf[w], Bare("SUB")), AnswersTo(K)) = Count(outbuf[w], AnswersTo(K)) + 0
        BY <1>0, CommandCounts, CommandType DEF Bare, Command
      <4>4. QED
        BY <1>1, <4>2, <4>3 DEF Answered
    <3>2. QED
      BY <1>3, <1>6, <3>1 DEF Connected
  <2>3. UNCHANGED <<toClient, queue, current, called, faults>>
    BY <1>6 DEF Connected, work, bounds
  <2>4. QED
    BY <1>1, <1>3, <2>1, <2>2, <2>3
<1>7. CASE send_identify(w)
  <2>1. toClient[c] # <<>> /\ toClient'[c] = Tail(toClient[c])
    BY <1>0, <1>7 DEF send_identify, SocketsTypeOK
  <2>2. Arriving(w, K)' <= Arriving(w, K)
    <3>1. Arriving(w, K) = Arriving(w, K)' +
            (IF Head(toClient[c]).kind = "message" /\ Head(toClient[c]).id \in K THEN 1 ELSE 0)
      BY <1>0, <2>1, <1>h DEF Arriving
    <3>2. QED
      BY <1>1, <3>1
  <2>3. outbuf'[w] = Append(Append(outbuf[w], Bare("SUB")), Bare("RDY"))
    BY <1>0, <1>7, CommandType DEF send_identify, Greet, WorkTypeOK
  <2>4. Count(outbuf'[w], AnswersTo(K)) = Count(Append(outbuf[w], Bare("SUB")), AnswersTo(K))
    BY <1>0, <2>3, GreetCounts, CommandType
  <2>5. Answered(w, K)' = Answered(w, K)
    <3>1. Count(Append(outbuf[w], Bare("SUB")), AnswersTo(K)) = Count(outbuf[w], AnswersTo(K)) + 0
      BY <1>0, CommandCounts, CommandType DEF Bare, Command
    <3>2. QED
      BY <1>1, <2>4, <3>1 DEF Answered
  <2>6. UNCHANGED <<toNsqd, queue, current, called, faults>>
    BY <1>7 DEF send_identify, work, bounds
  <2>7. QED
    BY <1>1, <1>3, <2>2, <2>5, <2>6
<1>8. CASE Flush(w)
  <2>1. outbuf[w] # <<>> /\ Head(outbuf[w]) \in Commands /\ outbuf'[w] = Tail(outbuf[w])
    BY <1>0, <1>8 DEF Flush, WorkTypeOK
  <2>2. Leaving(w, K)' <= Leaving(w, K) +
            (IF Head(outbuf[w]).name \in {"FIN", "REQ"} /\ Head(outbuf[w]).id \in K THEN 1 ELSE 0)
    BY <1>4, <1>8, <2>1 DEF Flush
  <2>3. Answered(w, K) = Answered(w, K)' +
            (IF Head(outbuf[w]).name \in {"FIN", "REQ"} /\ Head(outbuf[w]).id \in K THEN 1 ELSE 0)
    BY <1>0, <2>1, CommandCounts DEF Answered
  <2>4. UNCHANGED <<toClient, queue, current, called, faults>>
    BY <1>8 DEF Flush, work, bounds
  <2>5. QED
    BY <1>1, <1>3, <2>2, <2>3, <2>4
<1>9. CASE readcb(w)
  <2>1. toClient[c] # <<>> /\ toClient'[c] = Tail(toClient[c]) /\ Head(toClient[c]) \in Frames
    BY <1>0, <1>9 DEF readcb, SocketsTypeOK
  <2>2. Arriving(w, K) = Arriving(w, K)' +
            (IF Head(toClient[c]).kind = "message" /\ Head(toClient[c]).id \in K THEN 1 ELSE 0)
    BY <1>0, <2>1, <1>h DEF Arriving
  <2>3. Waiting(w, K)' = Waiting(w, K) +
            (IF Head(toClient[c]).kind = "message" /\ Head(toClient[c]).id \in K THEN 1 ELSE 0)
    <3>1. CASE Head(toClient[c]).kind # "message"
      BY <1>1, <1>3, <1>9, <3>1 DEF readcb
    <3>2. CASE Head(toClient[c]).kind = "message"
      <4>1. queue'[w] = Append(queue[w], Head(toClient[c]).id) /\ Head(toClient[c]).id \in Messages
        BY <1>9, <2>1, <3>2, FrameType DEF readcb, WorkTypeOK
      <4>2. QED
        BY <1>0, <3>2, <4>1, QueueCounts DEF Waiting
    <3>3. QED
      BY <3>1, <3>2
  <2>4. UNCHANGED <<toNsqd, outbuf, current, called, faults>>
    BY <1>9 DEF readcb, bounds
  <2>5. QED
    BY <1>1, <1>3, <2>2, <2>3, <2>4
<1>10. CASE process_message_queue(w)
  <2>1. /\ queue[w] # <<>> /\ queue'[w] = Tail(queue[w])
        /\ current'[w] = Head(queue[w]) /\ current[w] = NoMessage
    BY <1>10 DEF process_message_queue, WorkTypeOK
  <2>2. Waiting(w, K) = Waiting(w, K)' + (IF Head(queue[w]) \in K THEN 1 ELSE 0)
    <3>1. Count(queue[w], K) = Count(Tail(queue[w]), K) + (IF Head(queue[w]) \in K THEN 1 ELSE 0)
      BY <1>0, <2>1, QueueCounts
    <3>2. QED
      BY <2>1, <3>1 DEF Waiting
  <2>3. Running(w, K)' <= IF Head(queue[w]) \in K THEN 1 ELSE 0
    BY <2>1 DEF Running
  <2>4. UNCHANGED <<toNsqd, toClient, outbuf, faults>>
    BY <1>10 DEF process_message_queue, sockets, bounds
  <2>5. QED
    BY <1>1, <1>3, <2>2, <2>3, <2>4
<1>11. CASE touch(w)
  <2>1. Command("TOUCH", current[w]) \in Commands
    BY <1>11, CommandType DEF touch, WorkTypeOK
  <2>2. Leaving(w, K)' <= Leaving(w, K)
    BY <1>1, <1>3, <1>4, <1>11, <2>1 DEF touch, Command
  <2>3. UNCHANGED <<toClient, queue, current, called, outbuf, faults>>
    BY <1>11 DEF touch, work
  <2>4. QED
    BY <1>1, <1>3, <2>2, <2>3
<1>12. CASE finish(w) \/ requeue(w)
  <2>1. PICK n \in {"FIN", "REQ"} :
          /\ outbuf'[w] = Append(outbuf[w], Command(n, current[w])) /\ called'[w] = n
    BY <1>12 DEF finish, requeue, WorkTypeOK
  <2>2. current[w] \in Messages /\ called[w] = "none" /\ faults' = IF AutoFinish THEN faults - 1 ELSE faults
    BY <1>12 DEF finish, requeue, MayAnswer, WorkTypeOK
  <2>3. Answered(w, K)' = Answered(w, K) + (IF current[w] \in K THEN 1 ELSE 0)
    BY <1>5, <2>1, <2>2, CommandType DEF Command
  <2>4. UNCHANGED <<toNsqd, toClient, queue, current>>
    BY <1>12 DEF finish, requeue, sockets
  <2>5. /\ AutoFinish => Running(w, K)' = Running(w, K)
        /\ ~AutoFinish => Running(w, K)' = 0 /\ Running(w, K) = IF current[w] \in K THEN 1 ELSE 0
    BY <2>1, <2>2, <2>4 DEF Running
  <2>6. QED
    BY <1>1, <1>3, <2>2, <2>3, <2>4, <2>5
<1>13. CASE CallbackSucceeds(w) \/ CallbackThrows(w)
  <2>0. current[w] \in Messages /\ UNCHANGED faults
    BY <1>13 DEF CallbackSucceeds, CallbackThrows, WorkTypeOK, Failure, bounds
  <2>1. /\ UNCHANGED <<toNsqd, toClient, queue>> /\ current'[w] = NoMessage
    BY <1>13 DEF CallbackSucceeds, CallbackThrows, Return, sockets, WorkTypeOK
  <2>2. Running(w, K)' = 0
    BY <2>1, ConsumerAssumption DEF Running
  <2>3. CASE AutoFinish
    <3>1. PICK n \in {"FIN", "REQ"} : Return(w, <<Command(n, current[w])>>)
      BY <1>13, <2>3 DEF CallbackSucceeds, CallbackThrows
    <3>2. outbuf'[w] = Append(Append(outbuf[w], Command(n, current[w])), Bare("RDY"))
      BY <1>0, <2>0, <3>1, CommandType DEF Return, WorkTypeOK
    <3>3. Count(outbuf'[w], AnswersTo(K)) = Count(Append(outbuf[w], Command(n, current[w])), AnswersTo(K))
      BY <1>0, <2>0, <3>2, GreetCounts, CommandType
    <3>4. Answered(w, K)' = Answered(w, K) + (IF current[w] \in K THEN 1 ELSE 0)
      <4>1. Count(Append(outbuf[w], Command(n, current[w])), AnswersTo(K)) =
                Count(outbuf[w], AnswersTo(K)) + (IF current[w] \in K THEN 1 ELSE 0)
        BY <1>0, <2>0, CommandCounts, CommandType DEF Command
      <4>2. QED
        BY <3>3, <4>1 DEF Answered
    <3>5. Running(w, K) = IF current[w] \in K THEN 1 ELSE 0
      BY <2>3 DEF Running
    <3>6. QED
      BY <1>1, <1>3, <2>0, <2>1, <2>2, <3>4, <3>5
  <2>4. CASE ~AutoFinish
    <3>1. Return(w, <<>>)
      BY <1>13, <2>4 DEF CallbackSucceeds, CallbackThrows
    <3>2. outbuf'[w] = Append(outbuf[w], Bare("RDY"))
      BY <1>0, <3>1, CommandType DEF Return, WorkTypeOK
    <3>3. Answered(w, K)' = Answered(w, K)
      BY <1>1, <1>5, <3>2, CommandType DEF Bare, Command
    <3>4. QED
      BY <1>1, <1>3, <2>0, <2>1, <2>2, <3>3
  <2>5. QED
    BY <2>3, <2>4
<1>14. CASE Crash(w)
  BY <1>14 DEF Crash, LoopTypeOK
<1>15. QED
  BY <1>6, <1>7, <1>8, <1>9, <1>10, <1>11, <1>12, <1>13, <1>14 DEF Working
-----------------------------------------------------------------------------
LEMMA CopiesUntouched ==
    ASSUME NEW v \in Workers, Untouched(v), NEW K PROVE Copies(v, K)' = Copies(v, K)
  BY DEF Untouched, Mine, Copies, Arriving, Waiting, Running, Answered, Leaving, Count

(* A new connection carries nothing: what is left is the queue. *)
LEMMA CopiesOpened ==
    ASSUME TypeOK, OpenedInOrder, NEW w \in Workers, Opening(w), NEW K \in SUBSET Messages
    PROVE  Copies(w, K)' = Waiting(w, K)
<1>0. /\ conn'[w] = opened + 1 /\ opened + 1 \in Connections /\ outbuf'[w] = <<>>
      /\ UNCHANGED <<queue, current, toNsqd>> /\ pc[w] # "callback"
  <2>1. subscribe(w) /\ UNCHANGED <<queue, current>>
    BY StepKinds
  <2>2. pc[w] # "callback"
    BY DEF Opening, StartWorker, ConnEof, ConnError
  <2>3. QED
    BY <2>1, <2>2, ConsumerAssumption DEF subscribe, TypeOK, LoopTypeOK, WorkTypeOK, Connections
<1>1. toNsqd'[conn'[w]] = <<>> /\ toClient'[conn'[w]] = <<>>
  <2>1. toNsqd[opened + 1] = <<>> /\ toClient[opened + 1] = <<>>
    BY <1>0 DEF OpenedInOrder, TypeOK, LoopTypeOK
  <2>2. toClient'[opened + 1] = <<>>
    BY <1>0, <2>1 DEF Opening, StartWorker, ConnEof, ConnError, TypeOK, SocketsTypeOK
  <2>3. QED
    BY <1>0, <2>1, <2>2
<1>2. Arriving(w, K)' = 0 /\ Answered(w, K)' = 0 /\ Leaving(w, K)' = 0
  BY <1>0, <1>1, CountEmpty DEF Arriving, Answered, Leaving
<1>3. Running(w, K)' = 0
  BY <1>0, ConsumerAssumption DEF Running, TypeOK, WorkTypeOK
<1>4. Waiting(w, K)' = Waiting(w, K) /\ Waiting(w, K) \in Nat
  <2>1. queue[w] \in Seq(Messages)
    BY DEF TypeOK, WorkTypeOK
  <2>2. Count(queue[w], K) \in Nat
    BY <2>1, CountFacts
  <2>3. QED
    BY <1>0, <2>2 DEF Waiting, Count
<1>5. QED
  BY <1>2, <1>3, <1>4 DEF Copies

LEMMA CopiesDelivered ==
    ASSUME TypeOK, NEW w \in Workers, conn[w] \in Connections, NEW m \in Messages,
           NsqdDelivers(conn[w], m), NEW K \in SUBSET Messages
    PROVE  Copies(w, K)' = Copies(w, K) + (IF m \in K THEN 1 ELSE 0)
<1> DEFINE c == conn[w]
<1>0. /\ toClient'[c] = Append(toClient[c], Frame("message", m)) /\ toClient[c] \in Seq(Frames)
      /\ UNCHANGED <<toNsqd, conn, queue, current, called, outbuf>> /\ c # 0
  BY ConsumerAssumption DEF NsqdDelivers, TypeOK, SocketsTypeOK, loop, work, Connections
<1>1. Arriving(w, K)' = Arriving(w, K) + (IF m \in K THEN 1 ELSE 0)
  <2>1. Count(Append(toClient[c], Frame("message", m)), FramesOf(K)) =
            Count(toClient[c], FramesOf(K)) + (IF m \in K THEN 1 ELSE 0)
    BY <1>0, FrameCounts, FrameType DEF Frame
  <2>2. QED
    BY <1>0, <2>1 DEF Arriving
<1>2. /\ Waiting(w, K)' = Waiting(w, K) /\ Running(w, K)' = Running(w, K)
      /\ Answered(w, K)' = Answered(w, K) /\ Leaving(w, K)' = Leaving(w, K)
  BY <1>0 DEF Waiting, Running, Answered, Leaving, Count
<1>3. QED
  BY <1>0, <1>1, <1>2, CopiesType DEF Copies

LEMMA CopiesClosed ==
    ASSUME TypeOK, TypeOK', NEW w \in Workers, conn[w] \in Connections, Closed(conn[w]),
           NEW K \in SUBSET Messages
    PROVE  Copies(w, K)' <= Copies(w, K)
<1> DEFINE c == conn[w]
<1>0. /\ toNsqd'[c] = <<>> /\ toClient[c] \in Seq(Frames) /\ c # 0
      /\ UNCHANGED <<conn, queue, current, called, outbuf>>
      /\ \E n \in 0..Len(toClient[c]) : toClient'[c] = SubSeq(toClient[c], 1, n)
  BY ConsumerAssumption DEF Closed, TypeOK, SocketsTypeOK, loop, work, Connections
<1>1. Arriving(w, K)' <= Arriving(w, K)
  BY <1>0, CountPrefix DEF Arriving
<1>2. Leaving(w, K)' = 0
  BY <1>0, CountEmpty DEF Leaving
<1>3. Waiting(w, K)' = Waiting(w, K) /\ Running(w, K)' = Running(w, K) /\ Answered(w, K)' = Answered(w, K)
  BY <1>0 DEF Waiting, Running, Answered, Count
<1>4. QED
  BY <1>0, <1>1, <1>2, <1>3, CopiesType, CopiesType2 DEF Copies

LEMMA CopiesTaken ==
    ASSUME TypeOK, NEW w \in Workers, conn[w] \in Connections, Serving(conn[w]),
           NEW command \in Commands, Receives(conn[w], command), Taken(conn[w]),
           \E k \in {"response", "error"} : Reply(conn[w], k) \/ UNCHANGED toClient,
           NEW K \in SUBSET Messages
    PROVE  Copies(w, K) = Copies(w, K)' +
                (IF command.name \in {"FIN", "REQ"} /\ command.id \in K THEN 1 ELSE 0)
<1> DEFINE c == conn[w]
<1>0. /\ toNsqd[c] \in Seq(Commands) /\ toClient[c] \in Seq(Frames) /\ c # 0 /\ TypeOK'
      /\ toNsqd[c] # <<>> /\ command = Head(toNsqd[c]) /\ toNsqd'[c] = Tail(toNsqd[c])
      /\ UNCHANGED <<conn, queue, current, called, outbuf>>
  <2>1. TypeOK'
    BY TypeStep DEF Next, NsqdStep, Serving, NsqdReceives
  <2>2. QED
    BY <2>1, StepKinds, ConsumerAssumption DEF Receives, Taken, TypeOK, SocketsTypeOK, Connections
<1>1. Leaving(w, K) = Leaving(w, K)' + (IF command.name \in {"FIN", "REQ"} /\ command.id \in K THEN 1 ELSE 0)
  BY <1>0, CommandCounts DEF Leaving
<1>2. Arriving(w, K)' = Arriving(w, K)
  <2>1. PICK k \in {"response", "error"} : Reply(c, k) \/ UNCHANGED toClient
    OBVIOUS
  <2>2. CASE UNCHANGED toClient
    BY <1>0, <2>2 DEF Arriving, Count
  <2>3. CASE Reply(c, k)
    <3>1. toClient'[c] = Append(toClient[c], Frame(k, NoMessage)) /\ Frame(k, NoMessage) \in Frames
      BY <2>3, FrameType DEF Reply, TypeOK, SocketsTypeOK
    <3>2. Count(Append(toClient[c], Frame(k, NoMessage)), FramesOf(K)) = Count(toClient[c], FramesOf(K)) + 0
      BY <1>0, <3>1, FrameCounts DEF Frame
    <3>3. QED
      BY <1>0, <3>1, <3>2, CopiesType DEF Arriving
  <2>4. QED
    BY <2>1, <2>2, <2>3
<1>3. Waiting(w, K)' = Waiting(w, K) /\ Running(w, K)' = Running(w, K) /\ Answered(w, K)' = Answered(w, K)
  BY <1>0 DEF Waiting, Running, Answered, Count
<1>4. QED
  <2>1. /\ Arriving(w, K) \in Nat /\ Waiting(w, K) \in Nat /\ Running(w, K) \in {0, 1}
        /\ Answered(w, K) \in Nat /\ Leaving(w, K) \in Nat /\ Leaving(w, K)' \in Nat
    BY <1>0, CopiesType, CopiesType2
  <2>2. QED
    BY <1>1, <1>2, <1>3, <2>1 DEF Copies
-----------------------------------------------------------------------------
(* Until the first fault: every connection opened is still in use, its     *)
(* commands come in the order of the handshake, a message has one copy     *)
(* while it is in flight there and none otherwise, and a TOUCH goes ahead  *)
(* of the answer for its message.                                          *)
Calm == faults = MaxFaults /\ NoneForgotten
Served == \A c \in Connections : c <= opened => \E w \in Workers : conn[w] = c
Pending(w) == toNsqd[conn[w]] \o outbuf[w]
Tame(s) == \A i \in DOMAIN s : s[i].name \notin {"V2", "SUB"}
At(w, stage, where) == phase[conn[w]] = stage /\ pc[w] = where
InTurn(w) ==
    \/ At(w, "new", "dispatch") /\ ~up[w] /\ Pending(w) = <<>>
    \/ At(w, "new", "identify") /\ Pending(w) = <<Bare("V2")>>
    \/ At(w, "new", "dispatch") /\ up[w] /\ Pending(w) = <<Bare("V2"), Bare("SUB"), Bare("RDY")>>
    \/ At(w, "identified", "identify") /\ Pending(w) = <<>>
    \/ At(w, "identified", "dispatch") /\ up[w] /\ Pending(w) = <<Bare("SUB"), Bare("RDY")>>
    \/ phase[conn[w]] = "subscribed" /\ Tame(Pending(w))
Turns == \A w \in Workers : conn[w] # 0 => InTurn(w)
Single == \A w \in Workers, m \in Messages :
    conn[w] # 0 => Copies(w, {m}) <= IF holder[m] = conn[w] THEN 1 ELSE 0
TouchedFirst == \A c \in Connections : \A i \in DOMAIN toNsqd[c] : toNsqd[c][i].name = "TOUCH" =>
    /\ holder[toNsqd[c][i].id] = c
    /\ \A j \in DOMAIN toNsqd[c] : j < i => toNsqd[c][j] \notin AnswersTo({toNsqd[c][i].id})
NoErrors == \A c \in Connections : \A i \in DOMAIN toClient[c] : toClient[c][i].kind # "error"
Orderly == Served /\ Turns /\ Single /\ TouchedFirst /\ NoErrors

LEMMA CommandSeqs ==
    /\ \A s, t \in Seq(Commands) : s \o t \in Seq(Commands) /\ (s \o t = <<>> <=> s = <<>> /\ t = <<>>)
    /\ \A s, t, u \in Seq(Commands) : (s \o t) \o u = s \o (t \o u)
    /\ \A a, b, d \in Commands : <<a>> \o <<b, d>> = <<a, b, d>> /\ <<>> \o <<b, d>> = <<b, d>>
<1>1. ASSUME NEW a \in Commands, NEW b \in Commands, NEW d \in Commands
      PROVE  <<a>> \o <<b, d>> = <<a, b, d>> /\ <<>> \o <<b, d>> = <<b, d>>
  <2>1. <<a>> \o <<b, d>> \in Seq(Commands) /\ <<a, b, d>> \in Seq(Commands)
    OBVIOUS
  <2>2. Len(<<a>> \o <<b, d>>) = 3 /\ Len(<<a, b, d>>) = 3
    OBVIOUS
  <2>3. \A i \in 1..3 : (<<a>> \o <<b, d>>)[i] = <<a, b, d>>[i]
    OBVIOUS
  <2>4. <<a>> \o <<b, d>> = <<a, b, d>>
    BY <2>1, <2>2, <2>3, SeqEqual
  <2>5. <<b, d>> \in Seq(Commands)
    OBVIOUS
  <2>6. QED
    BY <2>4, <2>5, ConcatEmptySeq
<1>2. ASSUME NEW s \in Seq(Commands), NEW t \in Seq(Commands)
      PROVE  s \o t \in Seq(Commands) /\ (s \o t = <<>> <=> s = <<>> /\ t = <<>>)
  BY ConcatEqualIffEmpty
<1>3. ASSUME NEW s \in Seq(Commands), NEW t \in Seq(Commands), NEW u \in Seq(Commands)
      PROVE  (s \o t) \o u = s \o (t \o u)
  BY ConcatAssociative
<1>4. QED
  BY <1>1, <1>2, <1>3

LEMMA ConcatHead ==
    ASSUME NEW s \in Seq(Commands), NEW t \in Seq(Commands), s # <<>>
    PROVE  /\ s \o t \in Seq(Commands) /\ s \o t # <<>>
           /\ (s \o t)[1] = Head(s) /\ Tail(s \o t) = Tail(s) \o t
<1>1. s \o t \in Seq(Commands) /\ s \o t # <<>> /\ (s \o t)[1] = Head(s)
  OBVIOUS
<1>2. Tail(s \o t) \in Seq(Commands) /\ Tail(s) \in Seq(Commands) /\ Tail(s) \o t \in Seq(Commands)
  BY <1>1
<1>3. Len(Tail(s \o t)) = Len(Tail(s) \o t)
  BY <1>1
<1>4. \A i \in 1..Len(Tail(s \o t)) : Tail(s \o t)[i] = (Tail(s) \o t)[i]
  BY <1>1
<1>5. QED
  BY <1>1, <1>2, <1>3, <1>4, SeqEqual

LEMMA MoveHead ==
    ASSUME NEW s \in Seq(Commands), NEW t \in Seq(Commands), t # <<>>
    PROVE  Append(s, Head(t)) \o Tail(t) = s \o t
<1>1. Head(t) \in Commands /\ Tail(t) \in Seq(Commands) /\ <<Head(t)>> \in Seq(Commands)
  BY HeadTailProperties
<1>2. Append(s, Head(t)) = s \o <<Head(t)>>
  BY <1>1, AppendIsConcat
<1>3. (s \o <<Head(t)>>) \o Tail(t) = s \o (<<Head(t)>> \o Tail(t))
  BY <1>1, ConcatAssociative
<1>4. <<Head(t)>> \o Tail(t) = t
  <2>1. <<Head(t)>> \o Tail(t) \in Seq(Commands) /\ Len(<<Head(t)>> \o Tail(t)) = Len(t)
    BY <1>1
  <2>2. \A i \in 1..Len(t) : (<<Head(t)>> \o Tail(t))[i] = t[i]
    BY <1>1
  <2>3. QED
    BY <2>1, <2>2, SeqEqual
<1>5. QED
  BY <1>2, <1>3, <1>4

LEMMA TameConcat ==
    ASSUME NEW s \in Seq(Commands), NEW t \in Seq(Commands)
    PROVE  Tame(s \o t) <=> Tame(s) /\ Tame(t)
<1>1. ASSUME Tame(s \o t), NEW i \in DOMAIN s PROVE s[i].name \notin {"V2", "SUB"}
  <2>1. i \in DOMAIN (s \o t) /\ (s \o t)[i] = s[i]
    OBVIOUS
  <2>2. QED
    BY <1>1, <2>1 DEF Tame
<1>2. ASSUME Tame(s \o t), NEW i \in DOMAIN t PROVE t[i].name \notin {"V2", "SUB"}
  <2>1. Len(s) + i \in DOMAIN (s \o t) /\ (s \o t)[Len(s) + i] = t[i]
    OBVIOUS
  <2>2. QED
    BY <1>2, <2>1 DEF Tame
<1>3. Tame(s \o t) => Tame(s) /\ Tame(t)
  BY <1>1, <1>2 DEF Tame
<1>4. Tame(s) /\ Tame(t) => Tame(s \o t)
  BY DEF Tame
<1>5. QED
  BY <1>3, <1>4

LEMMA FaultSteps == Next => UNCHANGED faults \/ faults' = faults - 1
<1>1. ASSUME NEW w \in Workers, Opening(w) \/ Working(w) PROVE UNCHANGED faults \/ faults' = faults - 1
  BY <1>1 DEF Opening, Working, StartWorker, ConnEof, ConnError, Connected, send_identify,
              Flush, readcb, process_message_queue, touch, finish, requeue, MayAnswer,
              CallbackSucceeds, CallbackThrows, Crash, Fault, Failure, bounds
<1>2. ASSUME NEW c \in Connections, Serving(c) PROVE UNCHANGED faults \/ faults' = faults - 1
  BY <1>2 DEF Serving, NsqdDelivers, NsqdCloses, NsqdNotices, NsqdGreets, NsqdSubscribes,
              NsqdReady, NsqdAnswers, NsqdRejects, Fault, bounds
<1>3. ASSUME NEW m \in Messages, Passing(m) PROVE UNCHANGED faults \/ faults' = faults - 1
  BY <1>3 DEF Passing, NsqdTimesOut, NsqdReclaims, DelayEnds, Fault, bounds
<1>4. QED
  BY <1>1, <1>2, <1>3, NextCases

LEMMA CalmPast ==
    ASSUME TypeOK, Linked, Next, Calm' PROVE Calm /\ UNCHANGED faults
<1>1. UNCHANGED faults \/ faults' = faults - 1
  BY FaultSteps
<1>2. NoneForgotten
  BY ForgottenStep DEF Linked, Calm
<1>3. QED
  BY <1>1, <1>2, ConsumerAssumption DEF Calm, Linked, BoundsKept, TypeOK, BoundsTypeOK

(* Without a fault no connection is given up and none is cut. *)
LEMMA CalmSteps ==
    ASSUME TypeOK, Linked, InFlightAccounted, Calm, Orderly, UNCHANGED faults
    PROVE  /\ \A w \in Workers : ~ConnEof(w) /\ ~ConnError(w) /\ ~Crash(w)
           /\ \A w \in Workers : Opening(w) => pc[w] = "dead" /\ conn[w] = 0
           /\ \A c \in Connections : Open(c) => \E w \in Workers : conn[w] = c
           /\ \A c \in Connections : ~NsqdCloses(c) /\ ~NsqdNotices(c) /\ ~NsqdRejects(c)
           /\ \A m \in Messages : ~NsqdTimesOut(m) /\ ~NsqdReclaims(m)
<1>0. \A kind : ~Fault(kind)
  BY DEF Fault, TypeOK, BoundsTypeOK
<1>1. \A w \in Workers : ~ConnEof(w)
  BY DEF ConnEof, Orderly, Turns, InTurn, At, TypeOK, LoopTypeOK
<1>2. \A w \in Workers : ~ConnError(w) /\ ~Crash(w)
  BY <1>0 DEF ConnError, Crash
<1>3. \A w \in Workers : Opening(w) => pc[w] = "dead" /\ conn[w] = 0
  BY <1>1, <1>2 DEF Opening, StartWorker, TypeOK, LoopTypeOK
<1>4. \A c \in Connections : Open(c) => \E w \in Workers : conn[w] = c
  BY ConsumerAssumption DEF Open, Orderly, Served, Linked, OpenedInOrder, Connections, TypeOK, LoopTypeOK
<1>5. \A c \in Connections : ~NsqdCloses(c) /\ ~NsqdNotices(c)
  BY <1>0, <1>4 DEF NsqdCloses, NsqdNotices
<1>6. ASSUME NEW c \in Connections, NsqdRejects(c) PROVE FALSE
  <2>1. PICK command \in Commands :
          /\ Open(c) /\ toNsqd[c] # <<>> /\ command = Head(toNsqd[c])
          /\ \/ phase[c] = "new" /\ command.name # "V2"
             \/ phase[c] = "identified" /\ command.name # "SUB"
    BY <1>6 DEF NsqdRejects, Receives
  <2>2. PICK w \in Workers : conn[w] = c
    BY <1>4, <2>1
  <2>3. InTurn(w) /\ toNsqd[c] \in Seq(Commands) /\ outbuf[w] \in Seq(Commands)
    BY <2>2, ConsumerAssumption DEF Orderly, Turns, Connections, TypeOK, SocketsTypeOK, WorkTypeOK
  <2>4. Pending(w) # <<>>
    BY <2>1, <2>2, <2>3, ConcatHead DEF Pending
  <2>5. Pending(w)[1] = command
    BY <2>1, <2>2, <2>3, ConcatHead DEF Pending
  <2>6. QED
    BY <2>1, <2>2, <2>3, <2>4, <2>5 DEF InTurn, At, Bare, Command
<1>7. ASSUME NEW m \in Messages, NsqdTimesOut(m) \/ NsqdReclaims(m) PROVE FALSE
  <2>1. status[m] = "inflight" /\ ~InHand(m, holder[m])
    BY <1>0, <1>7 DEF NsqdTimesOut, NsqdReclaims, Expires
  <2>2. holder[m] \in Connections /\ phase[holder[m]] = "subscribed"
    BY <2>1, ConsumerAssumption DEF TypeOK, NsqdTypeOK, Connections, Linked, HeldBySubscribers
  <2>3. PICK w \in Workers : conn[w] = holder[m]
    BY <1>4, <2>2 DEF Open
  <2>4. QED
    BY <2>1, <2>3 DEF Calm, InFlightAccounted
<1>8. QED
  BY <1>1, <1>2, <1>3, <1>4, <1>5, <1>6, <1>7

LEMMA ServedStep ==
    ASSUME TypeOK, Linked, InFlightAccounted, Calm, Orderly, UNCHANGED faults, Next PROVE Served'
<1>1. ASSUME NEW w \in Workers, Opening(w) PROVE Served'
  <2>1. conn' = [conn EXCEPT ![w] = opened + 1] /\ opened' = opened + 1 /\ conn[w] = 0
    BY <1>1, StepKinds, CalmSteps DEF subscribe
  <2>2. ASSUME NEW c \in Connections, c <= opened' PROVE \E v \in Workers : conn'[v] = c
    <3>1. CASE c = opened + 1
      BY <2>1, <3>1 DEF TypeOK, LoopTypeOK
    <3>2. CASE c <= opened
      <4>1. PICK v \in Workers : conn[v] = c
        BY <3>2 DEF Orderly, Served
      <4>2. conn'[v] = c
        BY <2>1, <4>1 DEF Connections, TypeOK, LoopTypeOK
      <4>3. QED
        BY <4>2
    <3>3. QED
      BY <2>1, <2>2, <3>1, <3>2, ConsumerAssumption DEF TypeOK, LoopTypeOK, Connections
  <2>3. QED
    BY <2>2 DEF Served
<1>2. ASSUME UNCHANGED <<conn, opened>> PROVE Served'
  BY <1>2 DEF Orderly, Served
<1>3. QED
  BY <1>1, <1>2, StepKinds, CalmSteps, NextCases
-----------------------------------------------------------------------------
LEMMA SingletonType == \A m \in Messages : {m} \in SUBSET Messages
  OBVIOUS

(* A message in the queue has come on a subscribed connection. *)
LEMMA BusyIsSubscribed ==
    ASSUME TypeOK, Linked, Single, NEW w \in Workers, conn[w] # 0, queue[w] # <<>>
    PROVE  phase[conn[w]] = "subscribed"
<1>1. queue[w] \in Seq(Messages) /\ Head(queue[w]) \in Messages
  BY DEF TypeOK, WorkTypeOK
<1> DEFINE m == Head(queue[w])
<1>2. Count(queue[w], {m}) = Count(Tail(queue[w]), {m}) + 1
  BY <1>1, QueueCounts
<1>3. Count(Tail(queue[w]), {m}) \in Nat
  <2>1. Tail(queue[w]) \in Seq(Messages)
    BY <1>1
  <2>2. QED
    BY <2>1, CountFacts
<1>4. Waiting(w, {m}) >= 1
  BY <1>2, <1>3 DEF Waiting
<1>5. Copies(w, {m}) >= 1
  BY <1>4, CopiesType DEF Copies
<1>6. holder[m] = conn[w]
  <2>1. Copies(w, {m}) <= IF holder[m] = conn[w] THEN 1 ELSE 0
    BY <1>1 DEF Single
  <2>2. Copies(w, {m}) \in Nat
    BY CopiesType DEF Copies
  <2>3. QED
    BY <1>5, <2>1, <2>2
<1>7. QED
  BY <1>1, <1>6 DEF Linked, HeldBySubscribers

LEMMA UntouchedTurn ==
    ASSUME NEW v \in Workers, Untouched(v), phase'[conn[v]] = phase[conn[v]], InTurn(v)
    PROVE  InTurn(v)'
  BY DEF Untouched, Mine, InTurn, At, Pending, Tame, Bare, Command

LEMMA WorkerTurn ==
    ASSUME TypeOK, Linked, InFlightAccounted, Calm, Orderly, UNCHANGED faults,
           NEW w \in Workers, Working(w), conn'[w] # 0
    PROVE  InTurn(w)'
<1> DEFINE c == conn[w]
<1>0. /\ conn'[w] = c /\ c # 0 /\ c \in Connections /\ UNCHANGED phase
      /\ toNsqd[c] \in Seq(Commands) /\ outbuf[w] \in Seq(Commands)
      /\ InTurn(w)
  BY CalmSteps, StepKinds, Buffers DEF Orderly, Turns
<1>1. /\ phase'[c] = phase[c]
      /\ phase[c] = "subscribed" => up[w] /\ pc[w] # "identify"
  BY <1>0 DEF Linked, GreetsFirst, NotSubscribed
<1>p. Pending(w) = toNsqd[c] \o outbuf[w] /\ Pending(w)' = toNsqd'[c] \o outbuf'[w]
  BY <1>0 DEF Pending
<1>o. Open(c)
  BY <1>0 DEF InTurn, At, Open
<1>2. ASSUME Pending(w)' = Pending(w), UNCHANGED <<up, pc>> PROVE InTurn(w)'
  BY <1>0, <1>1, <1>2 DEF InTurn, At, Tame, Bare, Command
<1>3. ASSUME phase[c] = "subscribed", Tame(Pending(w)') PROVE InTurn(w)'
  BY <1>0, <1>1, <1>3 DEF InTurn, Tame
<1>4. ASSUME NEW command \in Commands, toNsqd' = Written(c, command)
      PROVE  toNsqd'[c] = Append(toNsqd[c], command)
  BY <1>0, <1>4, <1>o, WrittenIs
<1>5. CASE Connected(w)
  <2>1. At(w, "new", "dispatch") /\ ~up[w] /\ toNsqd[c] = <<>> /\ outbuf[w] = <<>>
    <3>1. At(w, "new", "dispatch") /\ ~up[w] /\ Pending(w) = <<>>
      BY <1>0, <1>1, <1>5 DEF Connected, InTurn, At
    <3>2. QED
      <4>1. toNsqd[c] \o outbuf[w] = <<>> /\ toNsqd[c] \in Seq(Commands) /\ outbuf[w] \in Seq(Commands)
        BY <1>0, <1>p, <3>1, Zenon
      <4>2. toNsqd[c] = <<>> /\ outbuf[w] = <<>>
        BY <4>1, CommandSeqs, Zenon
      <4>3. QED
        BY <3>1, <4>2
  <2>2. toNsqd'[c] = <<Bare("V2")>>
    BY <1>4, <1>5, <2>1, CommandType DEF Connected
  <2>3. CASE Identify
    <3>1. pc'[w] = "identify" /\ outbuf'[w] = <<>>
      BY <1>5, <2>1, <2>3 DEF Connected, TypeOK, LoopTypeOK
    <3>2. Pending(w)' = <<Bare("V2")>>
      BY <1>p, <2>2, <3>1
    <3>3. QED
      BY <1>0, <1>1, <2>1, <3>1, <3>2 DEF InTurn, At, Bare, Command
  <2>4. CASE ~Identify
    <3>1. pc'[w] = "dispatch" /\ up'[w] /\ outbuf'[w] = <<Bare("SUB"), Bare("RDY")>>
      BY <1>5, <2>1, <2>4, CommandType DEF Connected, Greet, TypeOK, LoopTypeOK, WorkTypeOK
    <3>2. Pending(w)' = <<Bare("V2"), Bare("SUB"), Bare("RDY")>>
      BY <1>p, <2>2, <3>1, CommandType, CommandSeqs
    <3>3. QED
      BY <1>0, <1>1, <2>1, <3>1, <3>2 DEF InTurn, At, Bare, Command
  <2>5. QED
    BY <2>3, <2>4
<1>6. CASE send_identify(w)
  <2>1. \/ At(w, "new", "identify") /\ Pending(w) = <<Bare("V2")>>
        \/ At(w, "identified", "identify") /\ Pending(w) = <<>>
    BY <1>0, <1>1, <1>6 DEF send_identify, InTurn, At
  <2>2. pc'[w] = "dispatch" /\ up'[w] /\ outbuf'[w] = outbuf[w] \o <<Bare("SUB"), Bare("RDY")>>
    BY <1>6 DEF send_identify, Greet, TypeOK, LoopTypeOK, WorkTypeOK
  <2>3. <<Bare("SUB"), Bare("RDY")>> \in Seq(Commands)
    BY CommandType
  <2>4. Pending(w)' = Pending(w) \o <<Bare("SUB"), Bare("RDY")>>
    <3>1. toNsqd'[c] = toNsqd[c]
      BY <1>6 DEF send_identify
    <3>2. QED
      <4>1. toNsqd[c] \in Seq(Commands) /\ outbuf[w] \in Seq(Commands)
        BY <1>0
      <4>2. (toNsqd[c] \o outbuf[w]) \o <<Bare("SUB"), Bare("RDY")>> =
                toNsqd[c] \o (outbuf[w] \o <<Bare("SUB"), Bare("RDY")>>)
        BY <2>3, <4>1, CommandSeqs, Zenon
      <4>3. QED
        BY <1>p, <2>2, <3>1, <4>2, Zenon
  <2>5. \/ Pending(w)' = <<Bare("V2"), Bare("SUB"), Bare("RDY")>> /\ phase[c] = "new"
        \/ Pending(w)' = <<Bare("SUB"), Bare("RDY")>> /\ phase[c] = "identified"
    <3>1. Bare("V2") \in Commands /\ Bare("SUB") \in Commands /\ Bare("RDY") \in Commands
      BY CommandType
    <3>2. /\ <<Bare("V2")>> \o <<Bare("SUB"), Bare("RDY")>> = <<Bare("V2"), Bare("SUB"), Bare("RDY")>>
          /\ <<>> \o <<Bare("SUB"), Bare("RDY")>> = <<Bare("SUB"), Bare("RDY")>>
      BY <3>1, CommandSeqs, Zenon
    <3>3. QED
      BY <2>1, <2>4, <3>2, Zenon DEF At
  <2>6. QED
    BY <1>0, <1>1, <2>2, <2>5 DEF InTurn, At, Bare, Command
<1>7. CASE Flush(w)
  <2>1. /\ outbuf[w] # <<>> /\ outbuf'[w] = Tail(outbuf[w]) /\ Head(outbuf[w]) \in Commands
        /\ UNCHANGED <<up, pc>>
    BY <1>0, <1>7 DEF Flush, loop, TypeOK, WorkTypeOK
  <2>2. toNsqd'[c] = Append(toNsqd[c], Head(outbuf[w]))
    BY <1>4, <1>7, <2>1 DEF Flush
  <2>3. Pending(w)' = Pending(w)
    BY <1>0, <1>p, <2>1, <2>2, MoveHead
  <2>4. QED
    BY <1>2, <2>1, <2>3
<1>8. CASE readcb(w)
  BY <1>0, <1>2, <1>8 DEF readcb, loop, Pending
<1>9. CASE process_message_queue(w)
  <2>1. phase[c] = "subscribed" /\ Tame(Pending(w))
    BY <1>0, <1>9, BusyIsSubscribed DEF process_message_queue, Orderly, InTurn, At
  <2>2. Pending(w)' = Pending(w)
    BY <1>0, <1>9 DEF process_message_queue, sockets, Pending
  <2>3. QED
    BY <1>3, <2>1, <2>2
<1>10. CASE pc[w] = "callback"
  <2>1. phase[c] = "subscribed" /\ Tame(toNsqd[c]) /\ Tame(outbuf[w]) /\ current[w] \in Messages
    <3>1. phase[c] = "subscribed" /\ Tame(Pending(w))
      BY <1>0, <1>10 DEF InTurn, At
    <3>2. QED
      BY <1>0, <1>10, <1>p, <3>1, TameConcat DEF TypeOK, WorkTypeOK
  <2>2. ASSUME NEW s \in Seq(Commands), NEW t \in Seq(Commands), Tame(s), Tame(t),
               toNsqd'[c] = s, outbuf'[w] = t
        PROVE  InTurn(w)'
    BY <1>3, <1>p, <2>1, <2>2, TameConcat
  <2>3. /\ \A n \in {"FIN", "REQ", "TOUCH"} :
            Command(n, current[w]) \in Commands /\ <<Command(n, current[w])>> \in Seq(Commands)
            /\ Tame(<<Command(n, current[w])>>)
        /\ <<Bare("RDY")>> \in Seq(Commands) /\ Tame(<<Bare("RDY")>>)
        /\ <<>> \in Seq(Commands) /\ Tame(<<>>)
    BY <2>1, CommandType DEF Tame, Bare, Command
  <2>4. \A s \in Seq(Commands), n \in {"FIN", "REQ", "TOUCH"} : Tame(s) =>
            Append(s, Command(n, current[w])) \in Seq(Commands) /\ Tame(Append(s, Command(n, current[w])))
    <3>1. ASSUME NEW s \in Seq(Commands), NEW n \in {"FIN", "REQ", "TOUCH"}, Tame(s)
          PROVE  Append(s, Command(n, current[w])) \in Seq(Commands) /\ Tame(Append(s, Command(n, current[w])))
      <4>1. Append(s, Command(n, current[w])) = s \o <<Command(n, current[w])>>
        BY <2>3, AppendIsConcat
      <4>2. Tame(s \o <<Command(n, current[w])>>)
        BY <2>3, <3>1, TameConcat
      <4>3. QED
        BY <2>3, <3>1, <4>1, <4>2, CommandSeqs
    <3>2. QED
      BY <3>1
  <2>5. CASE touch(w)
    <3>1. toNsqd'[c] = Append(toNsqd[c], Command("TOUCH", current[w])) /\ outbuf'[w] = outbuf[w]
      BY <1>1, <1>4, <2>1, <2>3, <2>5 DEF touch
    <3>2. QED
      BY <1>0, <2>1, <2>2, <2>4, <3>1
  <2>6. CASE finish(w) \/ requeue(w)
    <3>1. PICK n \in {"FIN", "REQ"} :
            outbuf'[w] = Append(outbuf[w], Command(n, current[w])) /\ toNsqd'[c] = toNsqd[c]
      BY <2>6 DEF finish, requeue, sockets, TypeOK, WorkTypeOK
    <3>2. QED
      BY <1>0, <2>1, <2>2, <2>4, <3>1
  <2>7. CASE CallbackSucceeds(w) \/ CallbackThrows(w)
    <3>1. PICK s \in Seq(Commands) : Return(w, s) /\ Tame(s)
      BY <2>3, <2>7 DEF CallbackSucceeds, CallbackThrows
    <3>2. outbuf'[w] = (outbuf[w] \o s) \o <<Bare("RDY")>> /\ toNsqd'[c] = toNsqd[c]
      BY <3>1 DEF Return, sockets, TypeOK, WorkTypeOK
    <3>3. outbuf[w] \o s \in Seq(Commands) /\ Tame(outbuf[w] \o s)
      BY <1>0, <2>1, <3>1, TameConcat
    <3>4. (outbuf[w] \o s) \o <<Bare("RDY")>> \in Seq(Commands) /\ Tame((outbuf[w] \o s) \o <<Bare("RDY")>>)
      BY <2>3, <3>3, TameConcat, CommandSeqs
    <3>5. QED
      BY <1>0, <2>1, <2>2, <3>2, <3>4
  <2>8. QED
    BY <1>10, <2>5, <2>6, <2>7, CalmSteps
    DEF Working, Connected, send_identify, Flush, readcb, process_message_queue
<1>11. QED
  BY <1>5, <1>6, <1>7, <1>8, <1>9, <1>10, CalmSteps
  DEF Working, touch, finish, requeue, MayAnswer, CallbackSucceeds, CallbackThrows

LEMMA ServedTurn ==
    ASSUME TypeOK, Linked, InFlightAccounted, Calm, Orderly, UNCHANGED faults,
           NEW w \in Workers, conn[w] \in Connections, Serving(conn[w])
    PROVE  InTurn(w)'
<1> DEFINE c == conn[w]
<1>0. /\ UNCHANGED <<conn, up, pc, outbuf>> /\ c # 0
      /\ toNsqd[c] \in Seq(Commands) /\ outbuf[w] \in Seq(Commands) /\ InTurn(w)
  BY StepKinds, Buffers, ConsumerAssumption DEF Connections, Orderly, Turns
<1>1. ASSUME toNsqd'[c] = toNsqd[c], phase'[c] = phase[c] PROVE InTurn(w)'
  BY <1>0, <1>1 DEF InTurn, At, Pending, Tame, Bare, Command
<1>2. ASSUME toNsqd[c] # <<>>, toNsqd'[c] = Tail(toNsqd[c])
      PROVE  Pending(w)' = Tail(Pending(w)) /\ Head(toNsqd[c]) = Pending(w)[1]
  <2>1. Pending(w) = toNsqd[c] \o outbuf[w] /\ Pending(w)' = toNsqd'[c] \o outbuf'[w]
    BY <1>0 DEF Pending
  <2>2. /\ (toNsqd[c] \o outbuf[w])[1] = Head(toNsqd[c])
        /\ Tail(toNsqd[c] \o outbuf[w]) = Tail(toNsqd[c]) \o outbuf[w]
    BY <1>0, <1>2, ConcatHead, Zenon
  <2>3. outbuf'[w] = outbuf[w]
    BY <1>0
  <2>4. QED
    BY <1>2, <2>1, <2>2, <2>3
<1>3. ASSUME toNsqd[c] # <<>>, toNsqd'[c] = Tail(toNsqd[c]), phase[c] = "subscribed", phase'[c] = phase[c]
      PROVE  InTurn(w)'
  <2>1. Pending(w)' = Tail(Pending(w)) /\ Pending(w) \in Seq(Commands) /\ Pending(w) # <<>>
    BY <1>0, <1>2, <1>3, ConcatHead DEF Pending
  <2>2. Tame(Pending(w))
    BY <1>0, <1>3 DEF InTurn, At
  <2>3. Tame(Tail(Pending(w)))
    BY <2>1, <2>2 DEF Tame
  <2>4. QED
    BY <1>0, <1>3, <2>1, <2>3 DEF InTurn, Tame
<1>4. CASE NsqdGreets(c)
  <2>1. /\ phase[c] = "new" /\ phase'[c] = "identified"
        /\ toNsqd[c] # <<>> /\ toNsqd'[c] = Tail(toNsqd[c])
    BY <1>4 DEF NsqdGreets, Receives, Taken, TypeOK, NsqdTypeOK, SocketsTypeOK
  <2>2. Pending(w)' = Tail(Pending(w)) /\ Pending(w) # <<>>
    BY <1>0, <1>2, <2>1, ConcatHead DEF Pending
  <2>3. CASE At(w, "new", "identify") /\ Pending(w) = <<Bare("V2")>>
    <3>1. Pending(w)' = <<>>
      BY <2>2, <2>3
    <3>2. QED
      BY <1>0, <2>1, <2>3, <3>1 DEF InTurn, At
  <2>4. CASE At(w, "new", "dispatch") /\ up[w] /\ Pending(w) = <<Bare("V2"), Bare("SUB"), Bare("RDY")>>
    <3>1. Pending(w)' = <<Bare("SUB"), Bare("RDY")>>
      BY <2>2, <2>4
    <3>2. QED
      BY <1>0, <2>1, <2>4, <3>1 DEF InTurn, At, Bare, Command
  <2>5. QED
    BY <1>0, <2>1, <2>2, <2>3, <2>4 DEF InTurn, At
<1>5. CASE NsqdSubscribes(c)
  <2>1. /\ phase[c] = "identified" /\ phase'[c] = "subscribed"
        /\ toNsqd[c] # <<>> /\ toNsqd'[c] = Tail(toNsqd[c])
    BY <1>5 DEF NsqdSubscribes, Receives, Taken, TypeOK, NsqdTypeOK, SocketsTypeOK
  <2>2. Pending(w)' = Tail(Pending(w)) /\ Pending(w) # <<>>
    BY <1>0, <1>2, <2>1, ConcatHead DEF Pending
  <2>3. Pending(w) = <<Bare("SUB"), Bare("RDY")>>
    BY <1>0, <2>1, <2>2 DEF InTurn, At
  <2>4. Pending(w)' = <<Bare("RDY")>> /\ Tame(<<Bare("RDY")>>)
    BY <2>2, <2>3 DEF Tame, Bare, Command
  <2>5. QED
    BY <1>0, <2>1, <2>4 DEF InTurn, Tame
<1>6. CASE NsqdReady(c) \/ NsqdAnswers(c)
  <2>1. /\ phase[c] = "subscribed" /\ phase'[c] = phase[c]
        /\ toNsqd[c] # <<>> /\ toNsqd'[c] = Tail(toNsqd[c])
    BY <1>6 DEF NsqdReady, NsqdAnswers, Receives, Taken, TypeOK, SocketsTypeOK
  <2>2. QED
    BY <1>3, <2>1
<1>7. CASE \E m \in Messages : NsqdDelivers(c, m)
  BY <1>1, <1>7 DEF NsqdDelivers
<1>8. QED
  BY <1>4, <1>5, <1>6, <1>7, CalmSteps DEF Serving

LEMMA TurnsStep ==
    ASSUME TypeOK, Linked, InFlightAccounted, Calm, Orderly, UNCHANGED faults, Next PROVE Turns'
<1> SUFFICES ASSUME NEW v \in Workers, conn'[v] # 0 PROVE InTurn(v)'
  BY DEF Turns
<1>0. OneUser /\ (conn[v] # 0 => InTurn(v))
  BY DEF Orderly, Turns, Linked
<1>1. ASSUME NEW w \in Workers, Opening(w) PROVE InTurn(v)'
  <2>1. CASE v = w
    <3>1. /\ conn'[w] = opened + 1 /\ opened + 1 \in Connections /\ UNCHANGED toNsqd
          /\ phase'[opened + 1] = "new" /\ pc'[w] = "dispatch" /\ up'[w] = FALSE /\ outbuf'[w] = <<>>
      BY <1>1, StepKinds, ConsumerAssumption
      DEF subscribe, Connections, TypeOK, NsqdTypeOK, LoopTypeOK, WorkTypeOK
    <3>2. toNsqd'[opened + 1] = <<>>
      BY <3>1 DEF Linked, OpenedInOrder, TypeOK, LoopTypeOK
    <3>3. Pending(w)' = <<>>
      BY <3>1, <3>2 DEF Pending
    <3>4. QED
      BY <2>1, <3>1, <3>3 DEF InTurn, At
  <2>2. CASE v # w
    <3>1. conn[v] # 0
      BY <1>1, <2>2, StepKinds DEF subscribe, TypeOK, LoopTypeOK
    <3>2. phase'[conn[v]] = phase[conn[v]]
      <4>1. conn[v] \in Connections /\ conn[v] # opened + 1
        BY <3>1, ConnRange DEF TypeOK, LoopTypeOK
      <4>2. QED
        BY <1>1, <4>1, StepKinds DEF subscribe, TypeOK, NsqdTypeOK
    <3>3. QED
      BY <1>0, <1>1, <2>2, <3>1, <3>2, Elsewhere, UntouchedTurn
  <2>3. QED
    BY <2>1, <2>2
<1>2. ASSUME NEW w \in Workers, Working(w) PROVE InTurn(v)'
  <2>1. UNCHANGED <<conn, phase>>
    BY <1>2, StepKinds, CalmSteps
  <2>2. QED
    BY <1>0, <1>2, <2>1, Elsewhere, UntouchedTurn, WorkerTurn
<1>3. ASSUME NEW c \in Connections, Serving(c) PROVE InTurn(v)'
  <2>1. UNCHANGED conn
    BY <1>3, StepKinds
  <2>2. QED
    BY <1>0, <1>3, <2>1, ElsewhereServed, UntouchedTurn, ServedTurn
<1>4. ASSUME NEW m \in Messages, Passing(m) PROVE InTurn(v)'
  BY <1>0, <1>4, StepKinds DEF InTurn, At, Pending, Tame, Bare, Command
<1>5. QED
  BY <1>1, <1>2, <1>3, <1>4, NextCases
-----------------------------------------------------------------------------
(* A copy is of a message in flight on the connection, and its only one;   *)
(* so a command about a message that reaches nsqd finds it in flight.      *)
LEMMA HeldByCopy ==
    ASSUME TypeOK, Single, NEW w \in Workers, conn[w] # 0, NEW m \in Messages, Copies(w, {m}) # 0
    PROVE  /\ holder[m] = conn[w] /\ Copies(w, {m}) = 1
           /\ Running(w, {m}) = 1 => Leaving(w, {m}) = 0
<1>1. /\ Arriving(w, {m}) \in Nat /\ Waiting(w, {m}) \in Nat /\ Running(w, {m}) \in {0, 1}
      /\ Answered(w, {m}) \in Nat /\ Leaving(w, {m}) \in Nat
  BY CopiesType
<1>2. Copies(w, {m}) <= IF holder[m] = conn[w] THEN 1 ELSE 0
  BY DEF Single
<1>3. Copies(w, {m}) \in Nat
  BY <1>1 DEF Copies
<1>4. holder[m] = conn[w] /\ Copies(w, {m}) = 1
  BY <1>2, <1>3
<1>5. QED
  BY <1>1, <1>4 DEF Copies

LEMMA LeavingCopy ==
    ASSUME TypeOK, NEW w \in Workers, conn[w] # 0, NEW m \in Messages,
           NEW i \in DOMAIN toNsqd[conn[w]], toNsqd[conn[w]][i] \in AnswersTo({m})
    PROVE  Leaving(w, {m}) # 0 /\ Copies(w, {m}) # 0
<1>1. toNsqd[conn[w]] \in Seq(Commands)
  BY Buffers
<1>2. Leaving(w, {m}) # 0
  BY <1>1, CountFacts DEF Leaving
<1>3. QED
  BY <1>2, CopiesType DEF Copies

LEMMA AnswersInFlight ==
    ASSUME TypeOK, Linked, InFlightAccounted, Calm, Orderly, UNCHANGED faults,
           NEW c \in Connections, NEW command \in Commands, Receives(c, command),
           command.name \in {"FIN", "REQ", "TOUCH"}
    PROVE  command.id \in InFlight(c)
<1>1. PICK w \in Workers : conn[w] = c
  BY CalmSteps DEF Receives
<1>2. /\ toNsqd[c] \in Seq(Commands) /\ toNsqd[c] # <<>> /\ command = toNsqd[c][1]
      /\ 1 \in DOMAIN toNsqd[c] /\ c # 0 /\ command.id \in Messages
  <2>1. toNsqd[c] \in Seq(Commands) /\ toNsqd[c] # <<>> /\ command = Head(toNsqd[c]) /\ c # 0
    BY ConsumerAssumption DEF Receives, TypeOK, SocketsTypeOK, Connections
  <2>2. command.id \in Messages
    BY DEF Commands
  <2>3. QED
    BY <2>1, <2>2
<1>3. CASE command.name = "TOUCH"
  BY <1>2, <1>3 DEF Orderly, TouchedFirst, InFlight
<1>4. CASE command.name \in {"FIN", "REQ"}
  <2>1. command \in AnswersTo({command.id})
    BY <1>2, <1>4, Members, SingletonType
  <2>2. Copies(w, {command.id}) # 0
    BY <1>1, <1>2, <2>1, LeavingCopy
  <2>3. QED
    BY <1>1, <1>2, <2>2, HeldByCopy DEF Orderly, InFlight
<1>5. QED
  BY <1>3, <1>4

LEMMA HolderKept ==
    ASSUME TypeOK, Linked, InFlightAccounted, Calm, Orderly, UNCHANGED faults,
           NEW c \in Connections, Serving(c), NEW m \in Messages, holder[m] # 0, holder'[m] # holder[m]
    PROVE  /\ holder[m] = c
           /\ \E command \in Commands :
                /\ Receives(c, command) /\ Taken(c) /\ UNCHANGED toClient
                /\ command.name \in {"FIN", "REQ"} /\ command.id = m
<1>1. NsqdAnswers(c)
  <2>1. ASSUME NEW n \in Messages, NsqdDelivers(c, n) PROVE FALSE
    BY <2>1 DEF NsqdDelivers, TypeOK, NsqdTypeOK
  <2>2. QED
    BY <2>1, CalmSteps DEF Serving, NsqdGreets, NsqdSubscribes, NsqdReady
<1>2. PICK command \in Commands :
        /\ Receives(c, command) /\ command.name \in {"FIN", "REQ", "TOUCH"} /\ Taken(c)
        /\ command.id \in InFlight(c) => UNCHANGED toClient
        /\ command.id \in InFlight(c) =>
            holder' = [holder EXCEPT ![command.id] = IF command.name = "TOUCH" THEN @ ELSE 0]
  BY <1>1 DEF NsqdAnswers
<1>3. command.id \in InFlight(c)
  BY <1>2, AnswersInFlight
<1>4. command.id = m /\ command.name # "TOUCH"
  BY <1>2, <1>3 DEF TypeOK, NsqdTypeOK
<1>5. QED
  BY <1>2, <1>3, <1>4 DEF InFlight

LEMMA SingleStep ==
    ASSUME TypeOK, Linked, InFlightAccounted, Calm, Orderly, UNCHANGED faults, Next PROVE Single'
<1> SUFFICES ASSUME NEW v \in Workers, NEW m \in Messages, conn'[v] # 0
             PROVE  Copies(v, {m})' <= IF holder'[m] = conn'[v] THEN 1 ELSE 0
  BY DEF Single
<1>0. /\ OneUser /\ OpenedInOrder /\ {m} \in SUBSET Messages /\ TypeOK'
      /\ conn[v] # 0 => Copies(v, {m}) <= IF holder[m] = conn[v] THEN 1 ELSE 0
  BY TypeStep DEF Orderly, Single, Linked
<1>t. /\ conn[v] # 0 => Copies(v, {m}) \in Nat
      /\ Copies(v, {m})' \in Nat
  BY <1>0, CopiesType, CopiesType2 DEF Copies
<1>u. ASSUME conn[v] # 0, Untouched(v), holder[m] = conn[v] => holder'[m] = conn[v]
      PROVE  Copies(v, {m})' <= IF holder'[m] = conn'[v] THEN 1 ELSE 0
  <2>1. Copies(v, {m})' = Copies(v, {m}) /\ conn'[v] = conn[v]
    BY <1>u, CopiesUntouched DEF Untouched, Mine
  <2>2. QED
    BY <1>0, <1>t, <1>u, <2>1
<1>1. ASSUME NEW w \in Workers, Opening(w)
      PROVE  Copies(v, {m})' <= IF holder'[m] = conn'[v] THEN 1 ELSE 0
  <2>1. CASE v = w
    <3>1. queue[w] = <<>>
      BY <1>1, CalmSteps DEF Linked, DeadIsEmpty
    <3>2. Copies(w, {m})' = Waiting(w, {m})
      BY <1>0, <1>1, CopiesOpened
    <3>3. Waiting(w, {m}) = 0
      BY <3>1, CountEmpty DEF Waiting
    <3>4. QED
      BY <2>1, <3>2, <3>3
  <2>2. CASE v # w
    <3>1. conn[v] # 0 /\ UNCHANGED holder
      BY <1>1, <2>2, StepKinds DEF subscribe, TypeOK, LoopTypeOK
    <3>2. Untouched(v)
      BY <1>0, <1>1, <2>2, <3>1, Elsewhere
    <3>3. QED
      BY <1>u, <3>1, <3>2
  <2>3. QED
    BY <2>1, <2>2
<1>2. ASSUME NEW w \in Workers, Working(w)
      PROVE  Copies(v, {m})' <= IF holder'[m] = conn'[v] THEN 1 ELSE 0
  <2>1. UNCHANGED <<conn, holder>>
    BY <1>2, StepKinds, CalmSteps
  <2>2. CASE v = w
    <3>1. Copies(v, {m})' <= Copies(v, {m}) + (faults - faults')
      BY <1>0, <1>2, <2>2, CopiesFlow
    <3>2. faults - faults' = 0
      BY DEF TypeOK, BoundsTypeOK
    <3>3. QED
      BY <1>0, <1>t, <2>1, <3>1, <3>2
  <2>3. CASE v # w
    BY <1>0, <1>2, <1>u, <2>1, <2>3, Elsewhere
  <2>4. QED
    BY <2>2, <2>3
<1>3. ASSUME NEW c \in Connections, Serving(c)
      PROVE  Copies(v, {m})' <= IF holder'[m] = conn'[v] THEN 1 ELSE 0
  <2>1. UNCHANGED conn
    BY <1>3, StepKinds
  <2>2. CASE conn[v] # c
    <3>1. holder[m] = conn[v] => holder'[m] = conn[v]
      BY <1>3, <2>1, <2>2, HolderKept
    <3>2. QED
      BY <1>0, <1>3, <1>u, <2>1, <2>2, <3>1, ElsewhereServed
  <2>3. CASE conn[v] = c
    <3>1. ASSUME NEW n \in Messages, NsqdDelivers(c, n)
          PROVE  Copies(v, {m})' <= IF holder'[m] = conn'[v] THEN 1 ELSE 0
      <4>1. Copies(v, {m})' = Copies(v, {m}) + (IF n \in {m} THEN 1 ELSE 0)
        BY <1>0, <2>3, <3>1, CopiesDelivered
      <4>2. CASE n = m
        <5>1. holder[m] # conn[v] /\ holder'[m] = conn'[v]
          BY <2>1, <2>3, <3>1, <4>2 DEF NsqdDelivers, TypeOK, NsqdTypeOK
        <5>2. QED
          BY <1>0, <1>t, <2>1, <4>1, <4>2, <5>1
      <4>3. CASE n # m
        <5>1. holder'[m] = holder[m]
          BY <3>1, <4>3 DEF NsqdDelivers, TypeOK, NsqdTypeOK
        <5>2. QED
          BY <1>0, <1>t, <2>1, <4>1, <4>3, <5>1
      <4>4. QED
        BY <4>2, <4>3
    <3>2. CASE NsqdGreets(c) \/ NsqdSubscribes(c) \/ NsqdReady(c) \/ NsqdAnswers(c)
      <4>1. PICK command \in Commands :
              /\ Receives(c, command) /\ Taken(c)
              /\ Reply(c, "response") \/ Reply(c, "error") \/ UNCHANGED toClient
        BY <3>2 DEF NsqdGreets, NsqdSubscribes, NsqdReady, NsqdAnswers
      <4>2. Copies(v, {m}) = Copies(v, {m})' +
                (IF command.name \in {"FIN", "REQ"} /\ command.id \in {m} THEN 1 ELSE 0)
        BY <1>0, <1>3, <2>3, <4>1, CopiesTaken
      <4>3. CASE holder'[m] = holder[m]
        BY <1>0, <1>t, <2>1, <4>2, <4>3
      <4>4. CASE holder'[m] # holder[m] /\ holder[m] # 0
        <5>1. command.name \in {"FIN", "REQ"} /\ command.id = m
          BY <1>3, <4>1, <4>4, HolderKept DEF Receives
        <5>2. QED
          BY <1>0, <1>t, <2>1, <4>2, <5>1
      <4>5. CASE holder'[m] # holder[m] /\ holder[m] = 0
        BY <3>2, <4>5 DEF NsqdGreets, NsqdSubscribes, NsqdReady, NsqdAnswers, InFlight, TypeOK, NsqdTypeOK
      <4>6. QED
        BY <4>3, <4>4, <4>5
    <3>3. QED
      BY <1>3, <3>1, <3>2, CalmSteps DEF Serving
  <2>4. QED
    BY <2>2, <2>3
<1>4. ASSUME NEW n \in Messages, Passing(n)
      PROVE  Copies(v, {m})' <= IF holder'[m] = conn'[v] THEN 1 ELSE 0
  <2>1. UNCHANGED <<holder, conn>> /\ Untouched(v)
    BY <1>4, StepKinds, CalmSteps DEF Passing, DelayEnds, Untouched, Mine
  <2>2. QED
    BY <1>u, <2>1
<1>5. QED
  BY <1>1, <1>2, <1>3, <1>4, NextCases
-----------------------------------------------------------------------------
LEMMA TouchedFirstStep ==
    ASSUME TypeOK, Linked, InFlightAccounted, Calm, Orderly, UNCHANGED faults, Next PROVE TouchedFirst'
<1> DEFINE First(s, i, c) ==
        /\ holder'[s[i].id] = c
        /\ \A j \in DOMAIN s : j < i => s[j] \notin AnswersTo({s[i].id})
<1> SUFFICES ASSUME NEW c \in Connections, NEW i \in DOMAIN toNsqd'[c], toNsqd'[c][i].name = "TOUCH"
             PROVE  First(toNsqd'[c], i, c)
  BY DEF TouchedFirst, AnswersTo, Answers, Command
<1>0. toNsqd[c] \in Seq(Commands) /\ c # 0
  BY ConsumerAssumption DEF TypeOK, SocketsTypeOK, Connections
<1>1. ASSUME toNsqd'[c] = toNsqd[c], holder[toNsqd[c][i].id] = c => holder'[toNsqd[c][i].id] = c
      PROVE  First(toNsqd'[c], i, c)
  BY <1>1 DEF Orderly, TouchedFirst
<1>t. \A k \in DOMAIN toNsqd[c] : toNsqd[c][k].name = "TOUCH" => toNsqd[c][k].id \in Messages
  <2>1. \A k \in DOMAIN toNsqd[c] : toNsqd[c][k] \in Commands
    BY <1>0
  <2>2. QED
    BY <2>1 DEF Commands
<1>2. ASSUME NEW w \in Workers, Opening(w) PROVE First(toNsqd'[c], i, c)
  BY <1>1, <1>2, StepKinds DEF subscribe
<1>3. ASSUME NEW w \in Workers, Working(w) PROVE First(toNsqd'[c], i, c)
  <2>1. UNCHANGED <<conn, holder>>
    BY <1>3, StepKinds, CalmSteps
  <2>2. CASE toNsqd'[c] = toNsqd[c]
    BY <1>1, <2>1, <2>2
  <2>3. CASE toNsqd'[c] # toNsqd[c]
    <3>1. PICK e \in Commands :
            /\ toNsqd' = Written(conn[w], e)
            /\ e.name = "TOUCH" => touch(w) /\ e = Command("TOUCH", current[w])
      <4>1. Connected(w) \/ Flush(w) \/ touch(w)
        BY <1>3, <2>3, CalmSteps DEF Working, send_identify, readcb, process_message_queue, finish,
           requeue, CallbackSucceeds, CallbackThrows, Return, sockets
      <4>2. CASE Connected(w)
        BY <4>2, CommandType DEF Connected, Bare, Command
      <4>3. CASE Flush(w)
        <5>1. outbuf[w] \in Seq(Commands) /\ outbuf[w] # <<>> /\ toNsqd' = Written(conn[w], Head(outbuf[w]))
          BY <4>3 DEF Flush, TypeOK, WorkTypeOK
        <5>2. Head(outbuf[w]) \in Commands /\ Head(outbuf[w]).name # "TOUCH"
          <6>1. 1 \in DOMAIN outbuf[w] /\ Head(outbuf[w]) = outbuf[w][1] /\ Head(outbuf[w]) \in Commands
            BY <5>1
          <6>2. QED
            BY <6>1 DEF Linked, TouchUnbuffered
        <5>3. QED
          BY <5>1, <5>2
      <4>4. CASE touch(w)
        BY <2>3, <4>4, CommandType DEF touch, TypeOK, WorkTypeOK
      <4>5. QED
        BY <4>1, <4>2, <4>3, <4>4
    <3>2. conn[w] = c /\ toNsqd'[c] = Append(toNsqd[c], e)
      <4>0. conn[w] \in Connections \/ conn[w] = 0
        BY ConnRange
      <4>1. conn[w] # 0
        BY <1>3, <2>1, <3>1 DEF Working, Connected, send_identify, Flush, readcb,
           process_message_queue, touch, finish, requeue, MayAnswer, CallbackSucceeds,
           CallbackThrows, Crash, TypeOK, LoopTypeOK
      <4>2. conn[w] \in Connections /\ toNsqd'[c] = Written(conn[w], e)[c]
        BY <3>1, <4>0, <4>1
      <4>3. CASE conn[w] # c
        BY <2>3, <4>2, <4>3, WrittenIs
      <4>4. CASE conn[w] = c
        BY <2>3, <4>2, <4>4, WrittenIs
      <4>5. QED
        BY <4>3, <4>4
    <3>3. CASE i \in DOMAIN toNsqd[c]
      <4>1. /\ toNsqd'[c][i] = toNsqd[c][i]
            /\ \A j \in DOMAIN toNsqd'[c] : j < i => j \in DOMAIN toNsqd[c] /\ toNsqd'[c][j] = toNsqd[c][j]
        BY <1>0, <3>2, <3>3
      <4>2. QED
        BY <2>1, <3>3, <4>1 DEF Orderly, TouchedFirst
    <3>4. CASE i \notin DOMAIN toNsqd[c]
      <4>1. /\ toNsqd'[c][i] = e
            /\ \A j \in DOMAIN toNsqd'[c] : j < i => j \in DOMAIN toNsqd[c] /\ toNsqd'[c][j] = toNsqd[c][j]
        BY <1>0, <3>2, <3>4
      <4>2. e = Command("TOUCH", current[w]) /\ current[w] \in Messages /\ called[w] = "none"
        BY <3>1, <4>1 DEF touch, TypeOK, WorkTypeOK
      <4>3. Running(w, {current[w]}) = 1 /\ Copies(w, {current[w]}) # 0
        <5>1. Running(w, {current[w]}) = 1
          BY <4>2 DEF Running
        <5>2. QED
          BY <1>0, <3>2, <5>1, CopiesType DEF Copies
      <4>4. holder[current[w]] = c /\ Leaving(w, {current[w]}) = 0
        BY <1>0, <3>2, <4>2, <4>3, HeldByCopy DEF Orderly
      <4>5. \A j \in DOMAIN toNsqd[c] : toNsqd[c][j] \notin AnswersTo({current[w]})
        BY <1>0, <3>2, <4>2, <4>4, LeavingCopy
      <4>6. e.id = current[w]
        BY <4>2 DEF Command
      <4>7. QED
        BY <2>1, <4>1, <4>4, <4>5, <4>6
    <3>5. QED
      BY <3>3, <3>4
  <2>4. QED
    BY <2>2, <2>3
<1>4. ASSUME NEW d \in Connections, Serving(d) PROVE First(toNsqd'[c], i, c)
  <2>1. CASE toNsqd'[c] = toNsqd[c]
    <3>1. holder[toNsqd[c][i].id] = c /\ toNsqd[c][i].id \in Messages
      BY <1>t, <2>1 DEF Orderly, TouchedFirst
    <3>2. ASSUME holder'[toNsqd[c][i].id] # c PROVE FALSE
      <4>0. PICK m \in Messages : m = toNsqd[c][i].id /\ holder[m] = c /\ holder'[m] # c
        BY <3>1, <3>2
      <4>1. d = c /\ toNsqd'[c] = Tail(toNsqd[c]) /\ toNsqd[c] # <<>>
        <5>1. d = c /\ \E command \in Commands : Receives(d, command) /\ Taken(d)
          BY <1>0, <1>4, <4>0, HolderKept
        <5>2. QED
          BY <5>1 DEF Taken, Receives, TypeOK, SocketsTypeOK
      <4>2. Len(Tail(toNsqd[c])) # Len(toNsqd[c])
        BY <1>0, <4>1
      <4>3. QED
        BY <2>1, <4>1, <4>2
    <3>3. QED
      BY <1>1, <2>1, <3>2
  <2>2. CASE toNsqd'[c] # toNsqd[c]
    <3>1. d = c /\ \E command \in Commands : Receives(c, command) /\ Taken(c)
      <4>1. toNsqd' # toNsqd
        BY <2>2
      <4>2. \E command \in Commands : Receives(d, command) /\ Taken(d)
        BY <1>4, <4>1, CalmSteps DEF Serving, NsqdDelivers, NsqdGreets, NsqdSubscribes, NsqdReady,
           NsqdAnswers
      <4>3. d = c
        BY <2>2, <4>2 DEF Taken, TypeOK, SocketsTypeOK
      <4>4. QED
        BY <4>2, <4>3
    <3>2. toNsqd[c] # <<>> /\ toNsqd'[c] = Tail(toNsqd[c])
      BY <3>1 DEF Receives, Taken, TypeOK, SocketsTypeOK
    <3>3. /\ i + 1 \in DOMAIN toNsqd[c] /\ toNsqd'[c][i] = toNsqd[c][i + 1]
          /\ \A j \in DOMAIN toNsqd'[c] : j + 1 \in DOMAIN toNsqd[c] /\ toNsqd'[c][j] = toNsqd[c][j + 1]
          /\ 1 \in DOMAIN toNsqd[c] /\ 1 < i + 1 /\ Head(toNsqd[c]) = toNsqd[c][1]
          /\ \A j \in DOMAIN toNsqd'[c] : j < i => j + 1 < i + 1
      BY <1>0, <3>2
    <3>4. /\ holder[toNsqd[c][i + 1].id] = c /\ toNsqd[c][i + 1].id \in Messages
          /\ \A j \in DOMAIN toNsqd[c] : j < i + 1 => toNsqd[c][j] \notin AnswersTo({toNsqd[c][i + 1].id})
      BY <1>t, <3>3 DEF Orderly, TouchedFirst
    <3>5. ASSUME holder'[toNsqd[c][i + 1].id] # c PROVE FALSE
      <4>1. PICK command \in Commands :
              /\ Receives(c, command) /\ command.name \in {"FIN", "REQ"}
              /\ command.id = toNsqd[c][i + 1].id
        BY <1>0, <1>4, <3>1, <3>4, <3>5, HolderKept
      <4>2. command \in AnswersTo({toNsqd[c][i + 1].id}) /\ command = toNsqd[c][1]
        BY <3>3, <3>4, <4>1, Members, SingletonType DEF Receives
      <4>3. QED
        BY <3>3, <3>4, <4>2
    <3>6. QED
      BY <3>3, <3>4, <3>5
  <2>3. QED
    BY <2>1, <2>2
<1>5. ASSUME NEW m \in Messages, Passing(m) PROVE First(toNsqd'[c], i, c)
  BY <1>1, <1>5, StepKinds, CalmSteps DEF Passing, DelayEnds
<1>6. QED
  BY <1>2, <1>3, <1>4, <1>5, NextCases

LEMMA NoErrorsStep ==
    ASSUME TypeOK, Linked, InFlightAccounted, Calm, Orderly, UNCHANGED faults, Next PROVE NoErrors'
<1> SUFFICES ASSUME NEW c \in Connections, NEW i \in DOMAIN toClient'[c]
             PROVE  toClient'[c][i].kind # "error"
  BY DEF NoErrors
<1>0. toClient[c] \in Seq(Frames)
  BY DEF TypeOK, SocketsTypeOK
<1>1. CASE toClient'[c] = toClient[c]
  BY <1>1 DEF Orderly, NoErrors
<1>2. CASE toClient[c] # <<>> /\ toClient'[c] = Tail(toClient[c])
  <2>1. i + 1 \in DOMAIN toClient[c] /\ toClient'[c][i] = toClient[c][i + 1]
    BY <1>0, <1>2
  <2>2. QED
    BY <2>1 DEF Orderly, NoErrors
<1>3. ASSUME NEW frame \in Frames, frame.kind # "error", toClient'[c] = Append(toClient[c], frame)
      PROVE  toClient'[c][i].kind # "error"
  <2>1. \/ i \in DOMAIN toClient[c] /\ toClient'[c][i] = toClient[c][i]
        \/ toClient'[c][i] = frame
    BY <1>0, <1>3
  <2>2. QED
    BY <1>3, <2>1 DEF Orderly, NoErrors
<1>4. ASSUME NEW w \in Workers, Opening(w) \/ Working(w) PROVE toClient'[c][i].kind # "error"
  <2>1. CASE UNCHANGED toClient
    BY <1>1, <2>1
  <2>2. CASE send_identify(w) \/ readcb(w)
    <3>1. toClient[conn[w]] # <<>> /\ toClient' = [toClient EXCEPT ![conn[w]] = Tail(@)]
      BY <2>2 DEF send_identify, readcb
    <3>2. QED
      BY <1>1, <1>2, <3>1 DEF TypeOK, SocketsTypeOK
  <2>3. QED
    BY <1>4, <2>1, <2>2, CalmSteps DEF Opening, StartWorker, Working, Connected, Flush,
       process_message_queue, touch, finish, requeue, CallbackSucceeds, CallbackThrows, Return, sockets
<1>5. ASSUME NEW d \in Connections, Serving(d) PROVE toClient'[c][i].kind # "error"
  <2>1. CASE UNCHANGED toClient
    BY <1>1, <2>1
  <2>2. ASSUME NEW frame \in Frames, frame.kind # "error", toClient' = [toClient EXCEPT ![d] = Append(@, frame)]
        PROVE  toClient'[c][i].kind # "error"
    BY <1>1, <1>3, <2>2 DEF TypeOK, SocketsTypeOK
  <2>3. ASSUME NEW m \in Messages, NsqdDelivers(d, m) PROVE toClient'[c][i].kind # "error"
    BY <2>2, <2>3, FrameType DEF NsqdDelivers, Frame
  <2>4. CASE NsqdGreets(d)
    BY <2>1, <2>2, <2>4, FrameType DEF NsqdGreets, Reply, Frame
  <2>5. CASE NsqdAnswers(d)
    BY <2>1, <2>5, AnswersInFlight DEF NsqdAnswers
  <2>6. QED
    BY <1>5, <2>1, <2>3, <2>4, <2>5, CalmSteps DEF Serving, NsqdSubscribes, NsqdReady
<1>6. ASSUME NEW m \in Messages, Passing(m) PROVE toClient'[c][i].kind # "error"
  BY <1>1, <1>6, StepKinds
<1>7. QED
  BY <1>4, <1>5, <1>6, NextCases

-----------------------------------------------------------------------------
CalmInv == Calm => Orderly

LEMMA CalmInit == Init => CalmInv
<1> SUFFICES ASSUME Init PROVE Orderly
  BY DEF CalmInv
<1> USE DEF Init
<1>1. Served
  BY ConsumerAssumption DEF Served, Connections
<1>2. Turns /\ Single
  BY DEF Turns, Single
<1>3. TouchedFirst /\ NoErrors
  BY DEF TouchedFirst, NoErrors
<1>4. QED
  BY <1>1, <1>2, <1>3 DEF Orderly

LEMMA CalmStep == TypeOK /\ Linked /\ InFlightAccounted /\ CalmInv /\ [Next]_vars => CalmInv'
<1>1. ASSUME TypeOK, Linked, InFlightAccounted, CalmInv, Next, Calm' PROVE Orderly'
  <2>1. Calm /\ Orderly /\ UNCHANGED faults
    BY <1>1, CalmPast DEF CalmInv
  <2>2. QED
    BY <1>1, <2>1, ServedStep, TurnsStep, SingleStep, TouchedFirstStep, NoErrorsStep DEF Orderly
<1>2. ASSUME CalmInv, UNCHANGED vars PROVE CalmInv'
  <2> USE <1>2 DEF vars, nsqd, sockets, loop, work, bounds
  <2>1. (Calm' <=> Calm) /\ (Served => Served') /\ (NoErrors => NoErrors')
    BY DEF Calm, NoneForgotten, Served, NoErrors
  <2>2. Turns => Turns'
    <3>1. \A v \in Workers : Untouched(v) /\ phase'[conn[v]] = phase[conn[v]] /\ conn'[v] = conn[v]
      BY DEF Untouched, Mine
    <3>2. QED
      BY <3>1, UntouchedTurn DEF Turns
  <2>3. Single => Single'
    BY DEF Single, Copies, Arriving, Waiting, Running, Answered, Leaving, Count, FramesOf, Frame,
       AnswersTo, Answers, Command
  <2>4. TouchedFirst => TouchedFirst'
    BY DEF TouchedFirst, AnswersTo, Answers, Command
  <2>5. QED
    BY <2>1, <2>2, <2>3, <2>4 DEF CalmInv, Orderly
<1>3. QED
  BY <1>1, <1>2 DEF CalmInv

(* Nothing is out of turn while the connections are in order.              *)
LEMMA OrderlyIsHeard == TypeOK /\ Linked /\ CalmInv => NothingToObject
<1> SUFFICES ASSUME TypeOK, Linked, Calm, Orderly, NEW c \in Connections
             PROVE  phase[c] # "closed" /\ \A i \in DOMAIN toClient[c] : toClient[c][i].kind # "error"
  BY DEF CalmInv, Calm, NothingToObject
<1>1. CASE c <= opened
  <2>1. PICK w \in Workers : conn[w] = c
    BY <1>1 DEF Orderly, Served
  <2>2. QED
    BY <2>1, ConsumerAssumption DEF Connections, Orderly, Turns, InTurn, At, NoErrors
<1>2. CASE c > opened
  BY <1>2 DEF Linked, OpenedInOrder, Orderly, NoErrors
<1>3. QED
  BY <1>1, <1>2 DEF Connections, TypeOK, LoopTypeOK

(* Until the first fault nsqd has nothing to object to: no command comes   *)
(* out of turn (the order conn_eventcb writes them in, sub.c:253-279) or   *)
(* for a message not in flight, for any number of workers and messages.    *)
THEOREM NsqdNeverObjects == Spec => []NothingToObject
<1>1. Safety => []NothingToObject
  BY TypeInit, TypeStep, LinkedInit, LinkedStep, AccountedInit, AccountedStep, AccountedStutter,
     CalmInit, CalmStep, OrderlyIsHeard, PTL DEF Safety
<1>2. QED
  BY <1>1, PTL DEF Spec
-----------------------------------------------------------------------------
(* What bounds a backlog: a connection has no more in flight than its RDY  *)
(* count, and a worker's copies are of messages in flight on its           *)
(* connection, but for Rdy left over by each connection before it and one  *)
(* by each fault.                                                          *)
InFlightBounded == \A c \in Connections :
    IsFiniteSet(InFlight(c)) /\ Cardinality(InFlight(c)) <= ready[c]
HeldInHand(c) == {m \in InFlight(c) : InHand(m, c)}
Room(c) == IF phase[c] = "closed" THEN Rdy ELSE Cardinality(HeldInHand(c))
CopiesBounded == \A w \in Workers : conn[w] # 0 =>
    Copies(w, Messages) <= Room(conn[w]) + Rdy * (opened - 1) + (MaxFaults - faults)

LEMMA InFlightBoundedStep == TypeOK /\ InFlightBounded /\ Next => InFlightBounded'
<1> SUFFICES ASSUME TypeOK, InFlightBounded, Next, NEW c \in Connections
             PROVE  IsFiniteSet(InFlight(c)') /\ Cardinality(InFlight(c)') <= ready'[c]
  BY DEF InFlightBounded
<1>0. /\ IsFiniteSet(InFlight(c)) /\ Cardinality(InFlight(c)) \in Nat /\ c # 0
      /\ Cardinality(InFlight(c)) <= ready[c] /\ ready[c] \in {0, Rdy} /\ Rdy \in Nat
  BY FS_CardinalityType, ConsumerAssumption DEF InFlightBounded, TypeOK, NsqdTypeOK, Connections
<1>1. ASSUME InFlight(c)' \subseteq InFlight(c), ready'[c] = ready[c] \/ ready'[c] = Rdy
      PROVE  IsFiniteSet(InFlight(c)') /\ Cardinality(InFlight(c)') <= ready'[c]
  <2>1. IsFiniteSet(InFlight(c)') /\ Cardinality(InFlight(c)') <= Cardinality(InFlight(c))
    BY <1>0, <1>1, FS_Subset
  <2>2. Cardinality(InFlight(c)') \in Nat
    BY <2>1, FS_CardinalityType
  <2>3. QED
    BY <1>0, <1>1, <2>1, <2>2
<1>2. ASSUME NEW w \in Workers, Opening(w) \/ Working(w)
      PROVE  IsFiniteSet(InFlight(c)') /\ Cardinality(InFlight(c)') <= ready'[c]
  BY <1>1, <1>2, StepKinds DEF subscribe, InFlight
<1>3. ASSUME NEW d \in Connections, Serving(d)
      PROVE  IsFiniteSet(InFlight(c)') /\ Cardinality(InFlight(c)') <= ready'[c]
  <2>1. ASSUME NEW m \in Messages, NsqdDelivers(d, m)
        PROVE  IsFiniteSet(InFlight(c)') /\ Cardinality(InFlight(c)') <= ready'[c]
    <3>1. holder' = [holder EXCEPT ![m] = d] /\ ready' = ready /\ Cardinality(InFlight(d)) < ready[d]
      BY <2>1 DEF NsqdDelivers
    <3>2. CASE d # c
      BY <1>1, <3>1, <3>2 DEF InFlight, TypeOK, NsqdTypeOK
    <3>3. CASE d = c
      <4>1. InFlight(c)' = InFlight(c) \cup {m}
        BY <3>1, <3>3 DEF InFlight, TypeOK, NsqdTypeOK
      <4>2. /\ IsFiniteSet(InFlight(c) \cup {m})
            /\ Cardinality(InFlight(c) \cup {m}) = Cardinality(InFlight(c))
               \/ Cardinality(InFlight(c) \cup {m}) = Cardinality(InFlight(c)) + 1
        BY <1>0, FS_AddElement
      <4>3. QED
        BY <1>0, <3>1, <3>3, <4>1, <4>2
    <3>4. QED
      BY <3>2, <3>3
  <2>2. CASE Closed(d)
    <3>1. InFlight(c)' \subseteq InFlight(c) /\ ready' = ready
      BY <1>0, <2>2 DEF Closed, InFlight
    <3>2. QED
      BY <1>1, <3>1
  <2>3. CASE NsqdGreets(d) \/ NsqdSubscribes(d) \/ NsqdReady(d)
    <3>1. InFlight(c)' = InFlight(c) /\ (ready'[c] = ready[c] \/ ready'[c] = Rdy)
      BY <2>3 DEF NsqdGreets, NsqdSubscribes, NsqdReady, InFlight, TypeOK, NsqdTypeOK
    <3>2. QED
      BY <1>1, <3>1
  <2>4. CASE NsqdAnswers(d)
    <3>1. InFlight(c)' \subseteq InFlight(c) /\ ready' = ready
      BY <1>0, <2>4 DEF NsqdAnswers, InFlight, TypeOK, NsqdTypeOK
    <3>2. QED
      BY <1>1, <3>1
  <2>5. QED
    BY <1>3, <2>1, <2>2, <2>3, <2>4 DEF Serving, NsqdCloses, NsqdNotices, NsqdRejects
<1>4. ASSUME NEW m \in Messages, Passing(m)
      PROVE  IsFiniteSet(InFlight(c)') /\ Cardinality(InFlight(c)') <= ready'[c]
  <2>1. InFlight(c)' \subseteq InFlight(c) /\ ready' = ready
    BY <1>0, <1>4 DEF Passing, NsqdTimesOut, NsqdReclaims, Expires, DelayEnds, InFlight, TypeOK, NsqdTypeOK
  <2>2. QED
    BY <1>1, <2>1
<1>5. QED
  BY <1>2, <1>3, <1>4, NextCases

LEMMA FaultsFall == TypeOK /\ Next => faults' <= faults
  BY FaultSteps DEF TypeOK, BoundsTypeOK

LEMMA RoomFacts ==
    ASSUME TypeOK, InFlightBounded, NEW c \in Connections
    PROVE  /\ IsFiniteSet(HeldInHand(c)) /\ Cardinality(HeldInHand(c)) \in Nat
           /\ Room(c) \in 0..Rdy
<1>1. IsFiniteSet(HeldInHand(c)) /\ Cardinality(HeldInHand(c)) <= Cardinality(InFlight(c))
  BY FS_Subset DEF InFlightBounded, HeldInHand
<1>2. Cardinality(HeldInHand(c)) \in Nat /\ Cardinality(InFlight(c)) \in Nat
  BY <1>1, FS_CardinalityType DEF InFlightBounded
<1>3. ready[c] \in {0, Rdy} /\ Rdy \in Nat /\ Cardinality(InFlight(c)) <= ready[c]
  BY ConsumerAssumption DEF TypeOK, NsqdTypeOK, InFlightBounded
<1>4. QED
  BY <1>1, <1>2, <1>3 DEF Room

LEMMA RoomFactsAfter ==
    ASSUME TypeOK', InFlightBounded', NEW c \in Connections
    PROVE  /\ IsFiniteSet(HeldInHand(c)') /\ Cardinality(HeldInHand(c)') \in Nat
           /\ Room(c)' \in 0..Rdy
<1>1. IsFiniteSet(HeldInHand(c)') /\ Cardinality(HeldInHand(c)') <= Cardinality(InFlight(c)')
  BY FS_Subset DEF InFlightBounded, HeldInHand
<1>2. Cardinality(HeldInHand(c)') \in Nat /\ Cardinality(InFlight(c)') \in Nat
  BY <1>1, FS_CardinalityType DEF InFlightBounded
<1>3. ready'[c] \in {0, Rdy} /\ Rdy \in Nat /\ Cardinality(InFlight(c)') <= ready'[c]
  BY ConsumerAssumption DEF TypeOK, NsqdTypeOK, InFlightBounded
<1>4. QED
  BY <1>1, <1>2, <1>3 DEF Room

(* The room of a connection shrinks only by what the worker lets go.       *)
LEMMA RoomKept ==
    ASSUME TypeOK, TypeOK', InFlightBounded, InFlightBounded', OneUser, OneUser',
           NEW c \in Connections, phase'[c] = phase[c],
           NEW v \in Workers, conn[v] = c, conn'[v] = c, NEW X, IsFiniteSet(X),
           \A m \in Messages \ X : holder[m] = c /\ Has(v, m) => holder'[m] = c /\ Has(v, m)'
    PROVE  Room(c) <= Room(c)' + Cardinality(X)
<1>0. c # 0 /\ Cardinality(X) \in Nat
  BY FS_CardinalityType, ConsumerAssumption DEF Connections
<1>1. HeldInHand(c) \subseteq HeldInHand(c)' \cup X
  <2>1. ASSUME NEW m \in HeldInHand(c), m \notin X PROVE m \in HeldInHand(c)'
    <3>1. m \in Messages /\ holder[m] = c /\ Has(v, m)
      BY <1>0, HasIsInHand DEF HeldInHand, InFlight
    <3>2. holder'[m] = c /\ Has(v, m)'
      BY <2>1, <3>1
    <3>3. InHand(m, c)'
      BY <1>0, <3>1, <3>2, HasIsInHand
    <3>4. QED
      BY <3>1, <3>2, <3>3 DEF HeldInHand, InFlight
  <2>2. QED
    BY <2>1
<1>2. /\ IsFiniteSet(HeldInHand(c)) /\ Cardinality(HeldInHand(c)) \in Nat
      /\ IsFiniteSet(HeldInHand(c)') /\ Cardinality(HeldInHand(c)') \in Nat
  BY RoomFacts, RoomFactsAfter
<1>3. Cardinality(HeldInHand(c)) <= Cardinality(HeldInHand(c)') + Cardinality(X)
  <2> DEFINE A == HeldInHand(c)
             B == HeldInHand(c)'
  <2>1. /\ IsFiniteSet(B \cup X) /\ IsFiniteSet(B \cap X)
        /\ Cardinality(B \cup X) = Cardinality(B) + Cardinality(X) - Cardinality(B \cap X)
    BY <1>2, FS_Union, FS_Intersection
  <2>2. Cardinality(A) <= Cardinality(B \cup X)
    BY <1>1, <2>1, FS_Subset
  <2>3. Cardinality(B \cap X) \in Nat /\ Cardinality(B \cup X) \in Nat
    BY <2>1, FS_CardinalityType
  <2> HIDE DEF A, B
  <2>4. Cardinality(A) <= Cardinality(B) + Cardinality(X)
    BY <1>0, <1>2, <2>1, <2>2, <2>3 DEF A, B
  <2>5. QED
    BY <2>4 DEF A, B
<1>4. QED
  BY <1>0, <1>2, <1>3, ConsumerAssumption DEF Room

(* A forgetful return lets go of one copy.                                 *)
LEMMA CopiesForgotten ==
    ASSUME TypeOK, TypeOK', NEW w \in Workers, Forgets(w)
    PROVE  Copies(w, Messages) = Copies(w, Messages)' + 1
<1> DEFINE c == conn[w]
<1>0. /\ c # 0 /\ outbuf[w] \in Seq(Commands) /\ current[w] \in Messages
      /\ Return(w, <<>>) /\ ~AutoFinish /\ called[w] = "none"
  BY Buffers DEF Forgets, CallbackSucceeds, CallbackThrows, TypeOK, LoopTypeOK, WorkTypeOK
<1>1. /\ UNCHANGED <<toNsqd, toClient, conn, queue>> /\ current'[w] = NoMessage
      /\ outbuf'[w] = Append(outbuf[w], Bare("RDY"))
  BY <1>0, CommandType DEF Return, sockets, TypeOK, WorkTypeOK
<1>2. Running(w, Messages) = 1 /\ Running(w, Messages)' = 0
  BY <1>0, <1>1, ConsumerAssumption DEF Running
<1>3. Count(Append(outbuf[w], Bare("RDY")), AnswersTo(Messages)) = Count(outbuf[w], AnswersTo(Messages)) + 0
  <2>1. Messages \in SUBSET Messages
    OBVIOUS
  <2>2. QED
    BY <1>0, <2>1, CommandCounts, CommandType DEF Bare, Command
<1>4. /\ Arriving(w, Messages)' = Arriving(w, Messages) /\ Waiting(w, Messages)' = Waiting(w, Messages)
      /\ Leaving(w, Messages)' = Leaving(w, Messages)
  BY <1>1 DEF Arriving, Waiting, Leaving, Count
<1>5. Answered(w, Messages)' = Answered(w, Messages)
  BY <1>0, <1>1, <1>3, CopiesType DEF Answered
<1>6. QED
  BY <1>0, <1>2, <1>4, <1>5, CopiesType DEF Copies
-----------------------------------------------------------------------------
Counting == TypeOK /\ Linked /\ InFlightBounded
Paid(w, c) ==
    Copies(w, Messages)' + Room(c) <= Copies(w, Messages) + Room(c)' + (faults - faults')

LEMMA NoneAndOne == \A x : /\ IsFiniteSet({}) /\ Cardinality({}) = 0
                           /\ IsFiniteSet({x}) /\ Cardinality({x}) = 1
  BY FS_EmptySet, FS_Singleton

LEMMA HasKept ==
    ASSUME TypeOK, NEW v \in Workers, conn[v] # 0,
           UNCHANGED <<conn, queue, current, outbuf>>,
           \/ toClient'[conn[v]] = toClient[conn[v]]
           \/ \E frame \in Frames : toClient'[conn[v]] = Append(toClient[conn[v]], frame),
           NEW m \in Messages, Has(v, m),
           \A command \in Answers(m) :
                command \in ToSet(toNsqd[conn[v]]) => command \in ToSet(toNsqd'[conn[v]])
    PROVE  Has(v, m)'
<1>1. toClient[conn[v]] \in Seq(Frames)
  BY Buffers
<1>2. ToSet(toClient[conn[v]]) \subseteq ToSet(toClient'[conn[v]])
  <2>1. ASSUME NEW frame \in Frames, toClient'[conn[v]] = Append(toClient[conn[v]], frame)
        PROVE  ToSet(toClient[conn[v]]) \subseteq ToSet(toClient'[conn[v]])
    BY <1>1, <2>1, ToSetOps
  <2>2. QED
    BY <2>1
<1>3. QED
  BY <1>2 DEF Has, Answers, Frame, Command

LEMMA WorkerPays ==
    ASSUME Counting, Counting', NEW w \in Workers, Working(w), NEW c \in Connections,
           conn[w] = c, conn'[w] = c
    PROVE  Paid(w, c)
<1>0. /\ c # 0 /\ UNCHANGED <<conn, holder, phase>> /\ OneUser /\ OneUser'
      /\ TypeOK /\ TypeOK' /\ Linked /\ Linked' /\ InFlightBounded /\ InFlightBounded'
      /\ Messages \in SUBSET Messages /\ faults \in Nat /\ faults' \in Nat
  BY StepKinds, ConsumerAssumption DEF Counting, Linked, Crash, TypeOK, LoopTypeOK, Connections, BoundsTypeOK
<1>1. /\ Copies(w, Messages) \in Nat /\ Copies(w, Messages)' \in Nat
      /\ Room(c) \in Nat /\ Room(c)' \in Nat
  <2>1. Copies(w, Messages) \in Nat /\ Copies(w, Messages)' \in Nat
    BY <1>0, CopiesType, CopiesType2 DEF Copies
  <2>2. QED
    BY <1>0, <2>1, RoomFacts, RoomFactsAfter, ConsumerAssumption
<1>2. CASE ~Forgets(w)
  <2>1. \A m \in Messages \ {} : holder[m] = c /\ Has(w, m) => holder'[m] = c /\ Has(w, m)'
    BY <1>0, <1>2, KeepsMessage
  <2>2. Room(c) <= Room(c)' + Cardinality({})
    BY <1>0, <2>1, NoneAndOne, RoomKept
  <2>3. Copies(w, Messages)' <= Copies(w, Messages) + (faults - faults')
    BY <1>0, CopiesFlow
  <2>4. QED
    BY <1>0, <1>1, <2>2, <2>3, NoneAndOne DEF Paid
<1>3. CASE Forgets(w)
  <2>0. PICK x : x = current[w]
    OBVIOUS
  <2>1. \A m \in Messages \ {x} : holder[m] = c /\ Has(w, m) => holder'[m] = c /\ Has(w, m)'
    BY <1>0, <2>0, KeepsMessage
  <2>2. Room(c) <= Room(c)' + Cardinality({x})
    BY <1>0, <2>1, NoneAndOne, RoomKept
  <2>3. Copies(w, Messages) = Copies(w, Messages)' + 1
    BY <1>0, <1>3, CopiesForgotten
  <2>4. faults' = faults
    BY <1>3 DEF Forgets, CallbackSucceeds, CallbackThrows, Failure, bounds
  <2>5. Cardinality({x}) = 1
    BY NoneAndOne
  <2>6. QED
    BY <1>0, <1>1, <2>2, <2>3, <2>4, <2>5 DEF Paid
<1>4. QED
  BY <1>2, <1>3

LEMMA NsqdPays ==
    ASSUME Counting, Counting', faults' <= faults, NEW c \in Connections, Serving(c),
           NEW w \in Workers, conn[w] = c
    PROVE  Paid(w, c)
<1>0. /\ c # 0 /\ UNCHANGED <<conn, queue, current, called, outbuf>> /\ conn'[w] = c /\ OneUser /\ OneUser'
      /\ TypeOK /\ TypeOK' /\ Linked /\ Linked' /\ InFlightBounded /\ InFlightBounded'
      /\ Messages \in SUBSET Messages /\ faults \in Nat /\ faults' \in Nat
      /\ toNsqd[c] \in Seq(Commands)
  <2>1. /\ TypeOK /\ TypeOK' /\ Linked /\ Linked' /\ InFlightBounded /\ InFlightBounded'
        /\ OneUser /\ OneUser' /\ Messages \in SUBSET Messages
    BY DEF Counting, Linked
  <2>2. c # 0 /\ UNCHANGED <<conn, queue, current, called, outbuf>> /\ conn'[w] = c
    BY StepKinds, ConsumerAssumption DEF Connections
  <2>3. faults \in Nat /\ faults' \in Nat /\ toNsqd[c] \in Seq(Commands)
    BY <2>1 DEF TypeOK, BoundsTypeOK, SocketsTypeOK
  <2>4. QED
    BY <2>1, <2>2, <2>3
<1>1. /\ Copies(w, Messages) \in Nat /\ Copies(w, Messages)' \in Nat
      /\ Room(c) \in 0..Rdy /\ Room(c)' \in 0..Rdy /\ Rdy \in Nat
  <2>1. Copies(w, Messages) \in Nat /\ Copies(w, Messages)' \in Nat
    <3>1. TypeOK /\ TypeOK' /\ conn[w] # 0 /\ conn'[w] # 0
      BY <1>0
    <3>2. QED
      BY <3>1, CopiesType, CopiesType2 DEF Copies
  <2>2. QED
    BY <1>0, <2>1, RoomFacts, RoomFactsAfter, ConsumerAssumption
<1>2. ASSUME NEW m \in Messages, NsqdDelivers(c, m) PROVE Paid(w, c)
  <2>1. Copies(w, Messages)' = Copies(w, Messages) + (IF m \in Messages THEN 1 ELSE 0)
    BY <1>0, <1>2, CopiesDelivered
  <2>2. /\ phase[c] = "subscribed" /\ phase' = phase /\ holder[m] = 0 /\ holder' = [holder EXCEPT ![m] = c]
        /\ toNsqd' = toNsqd /\ toClient'[c] = Append(toClient[c], Frame("message", m))
        /\ Frame("message", m) \in Frames /\ toClient[c] \in Seq(Frames)
    BY <1>0, <1>2, FrameType DEF NsqdDelivers, TypeOK, NsqdTypeOK, SocketsTypeOK
  <2>3. HeldInHand(c) \cup {m} \subseteq HeldInHand(c)'
    <3>1. ASSUME NEW n \in HeldInHand(c) PROVE n \in HeldInHand(c)'
      <4>1. n \in Messages /\ holder[n] = c /\ Has(w, n)
        BY <1>0, HasIsInHand DEF HeldInHand, InFlight
      <4>2. holder'[n] = c
        BY <2>2, <4>1 DEF TypeOK, NsqdTypeOK
      <4>3. Has(w, n)'
        <5>1. \A command \in Answers(n) : command \in ToSet(toNsqd[c]) => command \in ToSet(toNsqd'[c])
          BY <2>2
        <5>2. UNCHANGED <<conn, queue, current, outbuf>> /\ conn[w] # 0 /\ TypeOK
              /\ \E frame \in Frames : toClient'[conn[w]] = Append(toClient[conn[w]], frame)
          BY <1>0, <2>2
        <5>3. QED
          BY <4>1, <5>1, <5>2, HasKept, Zenon
      <4>4. InHand(n, c)'
        BY <1>0, <4>1, <4>3, HasIsInHand
      <4>5. QED
        BY <4>1, <4>2, <4>4 DEF HeldInHand, InFlight
    <3>2. m \in HeldInHand(c)'
      <4>1. ToSet(toClient'[c]) = ToSet(toClient[c]) \cup {Frame("message", m)}
        BY <2>2, ToSetOps
      <4>2. InHand(m, c)'
        BY <4>1 DEF InHand, Frame
      <4>3. QED
        BY <1>0, <2>2, <4>2 DEF HeldInHand, InFlight, TypeOK, NsqdTypeOK
    <3>3. QED
      BY <3>1, <3>2
  <2>4. m \notin HeldInHand(c)
    BY <1>0, <2>2 DEF HeldInHand, InFlight
  <2>5. Cardinality(HeldInHand(c)) + 1 <= Cardinality(HeldInHand(c)')
    <3>1. IsFiniteSet(HeldInHand(c)) /\ IsFiniteSet(HeldInHand(c)')
      BY <1>0, RoomFacts, RoomFactsAfter
    <3>2. /\ Cardinality(HeldInHand(c) \cup {m}) = Cardinality(HeldInHand(c)) + 1
          /\ IsFiniteSet(HeldInHand(c) \cup {m})
      BY <2>4, <3>1, FS_AddElement
    <3>3. QED
      BY <2>3, <3>1, <3>2, FS_Subset
  <2>6. Room(c) = Cardinality(HeldInHand(c)) /\ Room(c)' = Cardinality(HeldInHand(c)')
    BY <2>2 DEF Room
  <2>7. QED
    BY <1>0, <1>1, <2>1, <2>5, <2>6 DEF Paid
<1>3. CASE Closed(c)
  <2>1. Copies(w, Messages)' <= Copies(w, Messages)
    BY <1>0, <1>3, CopiesClosed
  <2>2. Room(c)' = Rdy
    BY <1>3 DEF Closed, Room, TypeOK, NsqdTypeOK, Counting
  <2>3. QED
    BY <1>0, <1>1, <2>1, <2>2 DEF Paid
<1>4. CASE NsqdGreets(c) \/ NsqdSubscribes(c) \/ NsqdReady(c) \/ NsqdAnswers(c)
  <2>1. PICK command \in Commands :
          /\ Receives(c, command) /\ Taken(c)
          /\ Reply(c, "response") \/ Reply(c, "error") \/ UNCHANGED toClient
          /\ \/ phase[c] # "subscribed"
             \/ /\ phase' = phase
                /\ \A m \in Messages :
                    holder[m] = c /\ holder'[m] # c => command.name \in {"FIN", "REQ"} /\ command.id = m
    <3>1. CASE NsqdGreets(c) \/ NsqdSubscribes(c)
      BY <3>1 DEF NsqdGreets, NsqdSubscribes
    <3>2. CASE NsqdReady(c)
      BY <3>2 DEF NsqdReady
    <3>3. CASE NsqdAnswers(c)
      <4>1. PICK command \in Commands : NsqdAnswers(c)!(command)
        BY <3>3 DEF NsqdAnswers
      <4>2. \A m \in Messages : holder[m] = c /\ holder'[m] # c =>
                command.name \in {"FIN", "REQ"} /\ command.id = m
        BY <4>1 DEF InFlight, Counting, TypeOK, NsqdTypeOK
      <4>3. QED
        BY <4>1, <4>2
    <3>4. QED
      BY <1>4, <3>1, <3>2, <3>3
  <2>2. Copies(w, Messages) = Copies(w, Messages)' +
            (IF command.name \in {"FIN", "REQ"} /\ command.id \in Messages THEN 1 ELSE 0)
    BY <1>0, <2>1, CopiesTaken
  <2>3. CASE phase[c] # "subscribed"
    <3>1. HeldInHand(c) = {}
      BY <1>0, <2>3 DEF HeldInHand, InFlight, Linked, HeldBySubscribers
    <3>2. phase[c] # "closed"
      BY <2>1 DEF Receives, Open
    <3>3. Room(c) = 0
      BY <3>1, <3>2, NoneAndOne DEF Room
    <3>4. QED
      BY <1>0, <1>1, <2>2, <3>3 DEF Paid
  <2>4. CASE phase[c] = "subscribed"
    <3>0. PICK x : x = command.id
      OBVIOUS
    <3>1. toNsqd'[c] = Tail(toNsqd[c]) /\ toNsqd[c] # <<>> /\ command = Head(toNsqd[c])
      BY <2>1 DEF Receives, Taken, Counting, TypeOK, SocketsTypeOK
    <3>2. ToSet(toNsqd[c]) = {command} \cup ToSet(toNsqd'[c])
      BY <1>0, <3>1, ToSetOps
    <3>3. \/ toClient'[c] = toClient[c]
          \/ \E frame \in Frames : toClient'[c] = Append(toClient[c], frame)
      BY <1>0, <2>1, FrameType DEF Reply, TypeOK, SocketsTypeOK
    <3>4. ASSUME NEW m \in Messages, holder[m] = c, Has(w, m),
                 ~(command.name \in {"FIN", "REQ"} /\ m = x)
          PROVE  holder'[m] = c /\ Has(w, m)'
      <4>1. command \notin Answers(m)
        BY <3>0, <3>4 DEF Answers, Command
      <4>2. holder'[m] = c
        BY <2>1, <2>4, <3>0, <3>4
      <4>3. Has(w, m)'
        BY <1>0, <3>2, <3>3, <3>4, <4>1, HasKept
      <4>4. QED
        BY <4>2, <4>3
    <3>5. phase' = phase
      BY <2>1, <2>4
    <3>6. CASE command.name \in {"FIN", "REQ"}
      <4>1. Room(c) <= Room(c)' + Cardinality({x})
        BY <1>0, <3>4, <3>5, NoneAndOne, RoomKept
      <4>2. command.id \in Messages
        BY <3>6 DEF Commands
      <4>3. Cardinality({x}) = 1
        BY NoneAndOne
      <4>4. QED
        BY <1>0, <1>1, <2>2, <3>6, <4>1, <4>2, <4>3 DEF Paid
    <3>7. CASE command.name \notin {"FIN", "REQ"}
      <4>1. \A m \in Messages \ {} : holder[m] = c /\ Has(w, m) => holder'[m] = c /\ Has(w, m)'
        BY <3>4, <3>7
      <4>2. Room(c) <= Room(c)' + Cardinality({})
        BY <1>0, <3>5, <4>1, NoneAndOne, RoomKept
      <4>3. QED
        BY <1>0, <1>1, <2>2, <3>7, <4>2, NoneAndOne DEF Paid
    <3>8. QED
      BY <3>6, <3>7
  <2>5. QED
    BY <2>3, <2>4
<1>5. QED
  BY <1>2, <1>3, <1>4 DEF Serving, NsqdCloses, NsqdNotices, NsqdRejects
-----------------------------------------------------------------------------
LEMMA Earlier == \A n \in Int : Rdy * n = Rdy * (n - 1) + Rdy
  BY ConsumerAssumption

(* Whatever happens elsewhere, a worker keeps its copies and its room.     *)
LEMMA OthersPay ==
    ASSUME Counting, Counting', faults' <= faults, NEW c \in Connections, NEW v \in Workers,
           conn[v] = c, Untouched(v), phase'[c] = phase[c],
           \A m \in Messages : holder[m] = c => holder'[m] = c
    PROVE  Paid(v, c)
<1>0. /\ c # 0 /\ conn'[v] = c /\ OneUser /\ OneUser' /\ TypeOK /\ TypeOK'
      /\ InFlightBounded /\ InFlightBounded'
  BY ConsumerAssumption DEF Counting, Linked, Connections, Untouched, Mine
<1>1. \A m \in Messages \ {} : holder[m] = c /\ Has(v, m) => holder'[m] = c /\ Has(v, m)'
  BY UntouchedHas
<1>2. Room(c) <= Room(c)' + Cardinality({})
  BY <1>0, <1>1, NoneAndOne, RoomKept
<1>3. Copies(v, Messages)' = Copies(v, Messages) /\ Copies(v, Messages) \in Nat
  BY <1>0, CopiesUntouched, CopiesType DEF Copies
<1>4. Room(c) \in Nat /\ Room(c)' \in Nat /\ faults \in Nat /\ faults' \in Nat
  BY <1>0, RoomFacts, RoomFactsAfter, ConsumerAssumption DEF TypeOK, BoundsTypeOK
<1>5. QED
  BY <1>2, <1>3, <1>4, NoneAndOne DEF Paid

LEMMA StillBounded ==
    ASSUME Counting, Counting', CopiesBounded, NEW c \in Connections, NEW v \in Workers,
           conn[v] = c, conn'[v] = c, Paid(v, c), opened' = opened \/ opened' = opened + 1
    PROVE  Copies(v, Messages)' <= Room(c)' + Rdy * (opened' - 1) + (MaxFaults - faults')
<1>0. conn[v] # 0 /\ TypeOK /\ TypeOK' /\ InFlightBounded /\ InFlightBounded'
  BY ConsumerAssumption DEF Counting, Connections
<1>1. Copies(v, Messages) <= Room(c) + Rdy * (opened - 1) + (MaxFaults - faults)
  BY <1>0 DEF CopiesBounded
<1>2. Copies(v, Messages)' + Room(c) <= Copies(v, Messages) + Room(c)' + (faults - faults')
  BY DEF Paid
<1>3. /\ Copies(v, Messages) \in Nat /\ Room(c) \in Nat /\ Room(c)' \in Nat
      /\ faults \in Nat /\ faults' \in Nat /\ MaxFaults \in Nat /\ opened \in Nat
      /\ Rdy * (opened - 1) \in Int /\ Rdy * (opened' - 1) \in Int /\ Rdy \in Nat
  BY <1>0, CopiesType, RoomFacts, RoomFactsAfter, ConsumerAssumption
  DEF Copies, TypeOK, BoundsTypeOK, LoopTypeOK
<1>4. Rdy * (opened - 1) <= Rdy * (opened' - 1)
  <2>1. CASE opened' = opened
    BY <1>3, <2>1
  <2>2. CASE opened' = opened + 1
    <3>1. opened' - 1 = opened
      BY <1>3, <2>2
    <3>2. Rdy * opened = Rdy * (opened - 1) + Rdy
      BY <1>3, Earlier
    <3>3. QED
      BY <1>3, <3>1, <3>2
  <2>3. QED
    BY <2>1, <2>2
<1>5. Copies(v, Messages)' \in Nat
  BY <1>0, CopiesType2 DEF Copies
<1>6. ASSUME NEW a \in Nat, NEW b \in Nat, NEW r \in Nat, NEW s \in Nat, NEW p \in Int, NEW q \in Int,
             a <= r + p + (MaxFaults - faults), b + r <= a + s + (faults - faults'), p <= q
      PROVE  b <= s + q + (MaxFaults - faults')
  BY <1>3, <1>6
<1>7. QED
  BY <1>1, <1>2, <1>3, <1>4, <1>5, <1>6

(* A new connection: the copies left are those in the queue, and what the  *)
(* old one had room for is one Rdy more.                                   *)
LEMMA OpeningBounded ==
    ASSUME Counting, Counting', CopiesBounded, faults' <= faults, NEW w \in Workers, Opening(w)
    PROVE  Copies(w, Messages)' <= Room(conn[w])' + Rdy * (opened' - 1) + (MaxFaults - faults')
<1>0. /\ TypeOK /\ TypeOK' /\ Linked /\ BoundsKept' /\ OpenedInOrder /\ InFlightBounded /\ InFlightBounded'
      /\ Messages \in SUBSET Messages
  BY DEF Counting, Linked
<1>1. /\ conn'[w] = opened + 1 /\ opened' - 1 = opened /\ opened + 1 \in Connections /\ opened \in Nat
  <2>1. /\ conn' = [conn EXCEPT ![w] = opened + 1] /\ opened' = opened + 1
        /\ opened < MaxConnections
    BY StepKinds DEF subscribe
  <2>2. opened \in Nat /\ conn \in [Workers -> 0..opened]
    BY <1>0, ConsumerAssumption DEF TypeOK, LoopTypeOK
  <2>3. QED
    BY <2>1, <2>2, ConsumerAssumption DEF Connections
<1>2. Copies(w, Messages)' = Waiting(w, Messages)
  BY <1>0, CopiesOpened
<1>3. PICK d \in Connections : d = conn'[w]
  BY <1>1
<1>4. /\ Room(d)' \in Nat /\ faults \in Nat /\ faults' \in Nat /\ MaxFaults \in Nat
      /\ faults' <= MaxFaults /\ Rdy * opened \in Nat /\ Rdy \in Nat
  BY <1>0, <1>1, RoomFactsAfter, ConsumerAssumption DEF BoundsKept, TypeOK, BoundsTypeOK
<1>5. Waiting(w, Messages) <= Rdy * opened + (MaxFaults - faults)
  <2>1. CASE conn[w] = 0
    <3>1. queue[w] = <<>>
      BY <1>0, <2>1 DEF Linked, DeadIsEmpty, TypeOK, LoopTypeOK
    <3>2. Waiting(w, Messages) = 0
      BY <3>1, CountEmpty DEF Waiting
    <3>3. faults <= MaxFaults
      BY <1>0 DEF Linked, BoundsKept
    <3>4. QED
      BY <1>4, <3>2, <3>3
  <2>2. CASE conn[w] # 0
    <3>1. PICK c \in Connections : c = conn[w]
      BY <1>0, <2>2, ConnRange
    <3>2. Copies(w, Messages) <= Room(c) + Rdy * (opened - 1) + (MaxFaults - faults)
      BY <2>2, <3>1 DEF CopiesBounded
    <3>3. Room(c) \in 0..Rdy
      BY <1>0, RoomFacts
    <3>4. Rdy * opened = Rdy * (opened - 1) + Rdy /\ Rdy * (opened - 1) \in Int
      BY <1>1, Earlier, ConsumerAssumption
    <3>5. Waiting(w, Messages) <= Copies(w, Messages) /\ Waiting(w, Messages) \in Nat /\ Copies(w, Messages) \in Nat
      BY <1>0, <2>2, CopiesType DEF Copies
    <3>6. QED
      BY <1>4, <3>2, <3>3, <3>4, <3>5
  <2>3. QED
    BY <2>1, <2>2
<1>6. Waiting(w, Messages) \in Nat
  <2>1. queue[w] \in Seq(Messages)
    BY <1>0, Buffers
  <2>2. QED
    BY <2>1, CountFacts DEF Waiting
<1>7. Waiting(w, Messages) <= Room(d)' + Rdy * opened + (MaxFaults - faults')
  BY <1>4, <1>5, <1>6
<1>8. Room(conn[w])' = Room(d)'
  BY <1>3 DEF Room, HeldInHand, InFlight, InHand, Answers, Frame, Command, ToSet
<1>9. QED
  BY <1>1, <1>2, <1>7, <1>8

LEMMA CopiesBoundedStep == Counting /\ Counting' /\ CopiesBounded /\ Next => CopiesBounded'
<1> SUFFICES ASSUME Counting, Counting', CopiesBounded, Next, NEW v \in Workers, conn'[v] # 0
             PROVE  Copies(v, Messages)' <= Room(conn[v])' + Rdy * (opened' - 1) + (MaxFaults - faults')
  BY DEF CopiesBounded
<1>0. /\ TypeOK /\ TypeOK' /\ Linked /\ Linked' /\ OneUser /\ OneUser' /\ faults' <= faults
      /\ \A m \in Messages : (status[m] = "inflight") <=> (holder[m] # 0)
  BY FaultsFall DEF Counting, Linked, TypeOK, NsqdTypeOK
<1>1. ASSUME NEW c \in Connections, conn[v] = c, conn'[v] = c, Paid(v, c),
             opened' = opened \/ opened' = opened + 1
      PROVE  Copies(v, Messages)' <= Room(conn[v])' + Rdy * (opened' - 1) + (MaxFaults - faults')
  <2>1. Copies(v, Messages)' <= Room(c)' + Rdy * (opened' - 1) + (MaxFaults - faults')
    BY <1>1, StillBounded
  <2>2. Room(conn[v])' = Room(c)'
    BY <1>1 DEF Room, HeldInHand, InFlight, InHand, Answers, Frame, Command, ToSet
  <2>3. QED
    BY <2>1, <2>2
<1>2. ASSUME NEW w \in Workers, Opening(w)
      PROVE  Copies(v, Messages)' <= Room(conn[v])' + Rdy * (opened' - 1) + (MaxFaults - faults')
  <2>1. CASE v = w
    BY <1>0, <1>2, <2>1, OpeningBounded
  <2>2. CASE v # w
    <3>1. conn'[v] = conn[v] /\ opened' = opened + 1 /\ UNCHANGED holder
      BY <1>0, <1>2, <2>2, StepKinds DEF subscribe, TypeOK, LoopTypeOK
    <3>2. PICK c \in Connections : c = conn[v]
      BY <1>0, <3>1, ConnRange
    <3>3. phase'[c] = phase[c]
      <4>1. c # opened + 1
        BY <1>0, <3>2 DEF TypeOK, LoopTypeOK
      <4>2. QED
        BY <1>0, <1>2, <4>1, StepKinds DEF subscribe, TypeOK, NsqdTypeOK
    <3>4. Untouched(v)
      BY <1>0, <1>2, <2>2, <3>1, Elsewhere
    <3>5. QED
      BY <1>0, <1>1, <3>1, <3>2, <3>3, <3>4, OthersPay
  <2>3. QED
    BY <2>1, <2>2
<1>3. ASSUME NEW w \in Workers, Working(w)
      PROVE  Copies(v, Messages)' <= Room(conn[v])' + Rdy * (opened' - 1) + (MaxFaults - faults')
  <2>1. conn'[v] = conn[v] /\ UNCHANGED <<holder, phase, opened>>
    BY <1>0, <1>3, StepKinds DEF Crash, TypeOK, LoopTypeOK
  <2>2. PICK c \in Connections : c = conn[v]
    BY <1>0, <2>1, ConnRange
  <2>3. CASE v = w
    BY <1>0, <1>1, <1>3, <2>1, <2>2, <2>3, WorkerPays
  <2>4. CASE v # w
    <3>1. Untouched(v)
      BY <1>0, <1>3, <2>1, <2>4, Elsewhere
    <3>2. QED
      BY <1>0, <1>1, <2>1, <2>2, <3>1, OthersPay
  <2>5. QED
    BY <2>3, <2>4
<1>4. ASSUME NEW d \in Connections, Serving(d)
      PROVE  Copies(v, Messages)' <= Room(conn[v])' + Rdy * (opened' - 1) + (MaxFaults - faults')
  <2>1. UNCHANGED <<conn, opened>>
    BY <1>4, StepKinds
  <2>2. PICK c \in Connections : c = conn[v]
    BY <1>0, <2>1, ConnRange
  <2>3. CASE c = d
    BY <1>0, <1>1, <1>4, <2>1, <2>2, <2>3, NsqdPays
  <2>4. CASE c # d
    <3>1. Untouched(v) /\ phase'[c] = phase[c]
      BY <1>0, <1>4, <2>1, <2>2, <2>4, ElsewhereServed
    <3>2. \A m \in Messages : holder[m] = c => holder'[m] = c
      <4>0. c # 0
        BY <2>1, <2>2
      <4>1. ASSUME NEW m \in Messages, NsqdDelivers(d, m) PROVE <3>2
        BY <1>0, <4>0, <4>1 DEF NsqdDelivers, TypeOK, NsqdTypeOK
      <4>2. CASE Closed(d)
        BY <2>4, <4>2 DEF Closed
      <4>3. CASE NsqdAnswers(d)
        BY <1>0, <2>4, <4>3 DEF NsqdAnswers, InFlight, TypeOK, NsqdTypeOK
      <4>4. CASE NsqdGreets(d) \/ NsqdSubscribes(d) \/ NsqdReady(d)
        BY <4>4 DEF NsqdGreets, NsqdSubscribes, NsqdReady
      <4>5. QED
        BY <1>4, <4>1, <4>2, <4>3, <4>4 DEF Serving, NsqdCloses, NsqdNotices, NsqdRejects
    <3>3. QED
      BY <1>0, <1>1, <2>1, <2>2, <3>1, <3>2, OthersPay
  <2>5. QED
    BY <2>3, <2>4
<1>5. ASSUME NEW n \in Messages, Passing(n)
      PROVE  Copies(v, Messages)' <= Room(conn[v])' + Rdy * (opened' - 1) + (MaxFaults - faults')
  <2>1. UNCHANGED <<conn, opened, phase>> /\ Untouched(v)
    BY <1>5, StepKinds DEF Untouched, Mine
  <2>2. PICK c \in Connections : c = conn[v]
    BY <1>0, <2>1, ConnRange
  <2>3. c # 0
    BY <2>1, <2>2
  <2>4. CASE holder[n] # c \/ DelayEnds(n)
    <3>1. \A m \in Messages : holder[m] = c => holder'[m] = c
      BY <1>0, <1>5, <2>4 DEF Passing, NsqdTimesOut, NsqdReclaims, Expires, DelayEnds, TypeOK, NsqdTypeOK
    <3>2. QED
      BY <1>0, <1>1, <2>1, <2>2, <3>1, OthersPay
  <2>5. CASE holder[n] = c /\ Expires(n)
    <3>0. /\ TypeOK /\ TypeOK' /\ InFlightBounded /\ InFlightBounded' /\ conn'[v] = c /\ phase'[c] = phase[c]
          /\ Copies(v, Messages)' = Copies(v, Messages) /\ Copies(v, Messages) \in Nat
          /\ Room(c) \in Nat /\ Room(c)' \in Nat /\ faults \in Nat /\ faults' \in Nat
      <4>1. TypeOK /\ TypeOK' /\ InFlightBounded /\ InFlightBounded' /\ conn'[v] = c /\ phase'[c] = phase[c]
        BY <2>1, <2>2 DEF Counting
      <4>2. Copies(v, Messages)' = Copies(v, Messages) /\ Copies(v, Messages) \in Nat
        BY <2>1, <2>2, <2>3, <4>1, CopiesUntouched, CopiesType DEF Copies
      <4>3. Room(c) \in Nat /\ Room(c)' \in Nat /\ faults \in Nat /\ faults' \in Nat
        BY <4>1, RoomFacts, RoomFactsAfter, ConsumerAssumption DEF TypeOK, BoundsTypeOK
      <4>4. QED
        BY <4>1, <4>2, <4>3
    <3>1. \A m \in Messages : m # n => holder'[m] = holder[m]
      BY <2>5 DEF Expires, Counting, TypeOK, NsqdTypeOK
    <3>2. CASE InHand(n, c)
      <4>1. faults' = faults - 1
        BY <1>5, <2>5, <3>2 DEF Passing, NsqdTimesOut, NsqdReclaims, DelayEnds, Expires, Fault
      <4>2. \A m \in Messages \ {n} : holder[m] = c /\ Has(v, m) => holder'[m] = c /\ Has(v, m)'
        BY <2>1, <3>1, UntouchedHas
      <4>3. Room(c) <= Room(c)' + Cardinality({n})
        BY <1>0, <2>2, <3>0, <4>2, NoneAndOne, RoomKept
      <4>4. Cardinality({n}) = 1
        BY NoneAndOne
      <4>5. Paid(v, c)
        BY <3>0, <4>1, <4>3, <4>4 DEF Paid
      <4>6. QED
        BY <1>1, <2>1, <2>2, <3>0, <4>5
    <3>3. CASE ~InHand(n, c)
      <4>1. ~Has(v, n)
        BY <1>0, <2>2, <2>3, <3>3, HasIsInHand
      <4>2. \A m \in Messages \ {} : holder[m] = c /\ Has(v, m) => holder'[m] = c /\ Has(v, m)'
        BY <2>1, <3>1, <4>1, UntouchedHas
      <4>3. Room(c) <= Room(c)' + Cardinality({})
        BY <1>0, <2>2, <3>0, <4>2, NoneAndOne, RoomKept
      <4>4. Paid(v, c)
        BY <1>0, <3>0, <4>3, NoneAndOne DEF Paid
      <4>5. QED
        BY <1>1, <2>1, <2>2, <3>0, <4>4
    <3>4. QED
      BY <3>2, <3>3
  <2>6. QED
    BY <1>5, <2>4, <2>5 DEF Passing, NsqdTimesOut, NsqdReclaims
<1>6. QED
  BY <1>2, <1>3, <1>4, <1>5, NextCases

(* What a worker has read or is about to read are copies it has.           *)
LEMMA BacklogWithin == TypeOK /\ Linked /\ InFlightBounded /\ CopiesBounded => BacklogBounded
<1> SUFFICES ASSUME TypeOK, Linked, InFlightBounded, CopiesBounded, NEW w \in Workers
             PROVE  Backlog(w) <= Rdy * opened + (MaxFaults - faults)
  BY DEF BacklogBounded
<1>0. /\ Rdy * opened \in Nat /\ Rdy * opened = Rdy * (opened - 1) + Rdy /\ Rdy * (opened - 1) \in Int
      /\ faults \in Nat /\ faults <= MaxFaults /\ MaxFaults \in Nat /\ Rdy \in Nat
  BY Earlier, ConsumerAssumption DEF Linked, BoundsKept, TypeOK, BoundsTypeOK, LoopTypeOK
<1>1. CASE conn[w] = 0
  <2>1. queue[w] = <<>> /\ {i \in DOMAIN <<>> : <<>>[i].kind = "message"} = {}
    BY <1>1 DEF Linked, DeadIsEmpty, TypeOK, LoopTypeOK
  <2>2. Backlog(w) = 0
    BY <1>1, <2>1, FS_EmptySet DEF Backlog
  <2>3. QED
    BY <1>0, <2>2
<1>2. CASE conn[w] # 0
  <2>0. PICK c \in Connections : c = conn[w]
    BY <1>2, ConnRange
  <2>1. queue[w] \in Seq(Messages) /\ toClient[c] \in Seq(Frames)
    BY <1>2, <2>0, Buffers
  <2>2. Waiting(w, Messages) = Len(queue[w])
    <3>1. {i \in DOMAIN queue[w] : queue[w][i] \in Messages} = 1..Len(queue[w]) /\ Len(queue[w]) \in Nat
      BY <2>1
    <3>2. Cardinality(1..Len(queue[w])) = Len(queue[w])
      BY <3>1, FS_Interval
    <3>3. QED
      BY <3>1, <3>2 DEF Waiting, Count
  <2>3. Arriving(w, Messages) = Cardinality({i \in DOMAIN toClient[c] : toClient[c][i].kind = "message"})
    <3>1. \A i \in DOMAIN toClient[c] : toClient[c][i] \in Frames
      BY <2>1
    <3>2. \A frame \in Frames : frame \in FramesOf(Messages) <=> frame.kind = "message"
      BY FrameType, Members
    <3>3. {i \in DOMAIN toClient[c] : toClient[c][i] \in FramesOf(Messages)} =
                {i \in DOMAIN toClient[c] : toClient[c][i].kind = "message"}
      BY <3>1, <3>2
    <3>4. QED
      BY <2>0, <3>3 DEF Arriving, Count
  <2>4. Backlog(w) = Waiting(w, Messages) + Arriving(w, Messages)
    BY <1>2, <2>0, <2>2, <2>3 DEF Backlog
  <2>5. Copies(w, Messages) <= Room(c) + Rdy * (opened - 1) + (MaxFaults - faults)
    BY <1>2, <2>0 DEF CopiesBounded
  <2>6. Room(c) \in 0..Rdy
    BY RoomFacts
  <2>7. Backlog(w) <= Copies(w, Messages) /\ Backlog(w) \in Nat /\ Copies(w, Messages) \in Nat
    BY <1>2, <2>4, CopiesType DEF Copies
  <2>8. QED
    BY <1>0, <2>5, <2>6, <2>7
<1>3. QED
  BY <1>1, <1>2

LEMMA BoundedInit == Init => InFlightBounded /\ CopiesBounded
<1> SUFFICES ASSUME Init PROVE InFlightBounded /\ CopiesBounded
  OBVIOUS
<1>1. \A c \in Connections : InFlight(c) = {} /\ ready[c] = 0
  BY ConsumerAssumption DEF Init, InFlight, Connections
<1>2. InFlightBounded
  BY <1>1, FS_EmptySet DEF InFlightBounded
<1>3. CopiesBounded
  BY DEF Init, CopiesBounded
<1>4. QED
  BY <1>2, <1>3

LEMMA BoundedStutter == InFlightBounded /\ CopiesBounded /\ UNCHANGED vars => InFlightBounded' /\ CopiesBounded'
<1> SUFFICES ASSUME InFlightBounded, CopiesBounded, UNCHANGED vars
             PROVE  InFlightBounded' /\ CopiesBounded'
  OBVIOUS
<1> USE DEF vars, nsqd, sockets, loop, work, bounds
<1>1. InFlightBounded'
  BY DEF InFlightBounded, InFlight
<1>2. ASSUME NEW w \in Workers, conn'[w] # 0
      PROVE  Copies(w, Messages)' <= Room(conn[w])' + Rdy * (opened' - 1) + (MaxFaults - faults')
  <2>1. Copies(w, Messages)' = Copies(w, Messages)
    BY CopiesUntouched DEF Untouched, Mine
  <2>2. Room(conn[w])' = Room(conn[w])
    BY DEF Room, HeldInHand, InFlight, InHand, Answers, Frame, Command, ToSet
  <2>3. Copies(w, Messages) <= Room(conn[w]) + Rdy * (opened - 1) + (MaxFaults - faults)
    BY <1>2 DEF CopiesBounded
  <2>4. QED
    BY <2>1, <2>2, <2>3
<1>3. QED
  BY <1>1, <1>2 DEF CopiesBounded

(* The static queue (sub.c:60), which outlives each connection, is bounded *)
(* all the same: by Rdy messages for every connection opened and one for   *)
(* every fault, for every Rdy and any number of workers and messages.      *)
THEOREM QueueStaysBounded == Spec => []BacklogBounded
<1>1. Safety => []BacklogBounded
  <2>1. TypeOK /\ Linked /\ InFlightBounded /\ CopiesBounded /\ [Next]_vars =>
            InFlightBounded' /\ CopiesBounded'
    BY TypeStep, LinkedStep, InFlightBoundedStep, CopiesBoundedStep, BoundedStutter DEF Counting
  <2>2. QED
    BY <2>1, TypeInit, TypeStep, LinkedInit, LinkedStep, BoundedInit, BacklogWithin, PTL DEF Safety
<1>2. QED
  BY <1>1, PTL DEF Spec
=============================================================================
