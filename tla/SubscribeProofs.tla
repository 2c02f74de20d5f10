--------------------------- MODULE SubscribeProofs ---------------------------
(***************************************************************************)
(* Nsq::subscribe(), before the first fork and after it. What it forks     *)
(* for, or throws, is what nsqlookupd answered: for every set of nsqds, and *)
(* whatever nsqlookupd does meanwhile. Then, for every number of producers, *)
(* of connections to each, of processes and of faults: every child is on   *)
(* record, and a slot has one worker as long as every connection can be    *)
(* started.                                                                *)
(***************************************************************************)
EXTENDS Lookup, Supervisor, FiniteSetTheorems, TLAPS

-----------------------------------------------------------------------------
(* Lookup: before the fork. *)

(* A result that is about to be looked at is the last answer, or one of    *)
(* the texts that request() makes up itself, or found in place of one.     *)
Sourced ==
    \/ result = latest /\ result \in answers
    \/ result = LocalError /\ "local_error" \in hazards
    \/ result \in {NotJson, Empty} /\ "loop_error" \in hazards

HistoryOK ==
    /\ answer # Nothing => answer = latest /\ answer \in answers
    /\ LocalError \notin answers
    /\ stage = "decode" => Sourced

LookupInv == LookupTypeOK /\ HistoryOK /\ StartedFromAnswer /\ ThrownForAReason /\ NoCrash

LEMMA KindsDiffer ==
    /\ Nothing \in Result /\ Empty \in Result /\ UnknownTopic \in Result
    /\ LocalError \in Result /\ NotJson \in Result
    /\ \A s \in SUBSET Nsqd : Listed(s) \in Result
    /\ Nothing # Empty /\ Nothing # UnknownTopic /\ Nothing # LocalError /\ Nothing # NotJson
    /\ Empty # UnknownTopic /\ Empty # LocalError /\ Empty # NotJson
    /\ UnknownTopic # LocalError /\ UnknownTopic # NotJson /\ LocalError # NotJson
  BY DEF Result, Nothing, Empty, UnknownTopic, LocalError, NotJson, Reply, Listed

LEMMA ListedIsProducers ==
    ASSUME NEW r \in Result, r.kind = "producers"
    PROVE  r.nsqds \subseteq Nsqd /\ r = Listed(r.nsqds)
  BY DEF Result, Nothing, Empty, UnknownTopic, LocalError, NotJson, Reply, Listed

LEMMA LookupTypeInit == LookupInit => LookupTypeOK
  BY KindsDiffer, LookupAssumption DEF LookupInit, LookupTypeOK

LEMMA LookupTypeStep == LookupTypeOK /\ [LookupNext]_lookupVars => LookupTypeOK'
<1> SUFFICES ASSUME LookupTypeOK, [LookupNext]_lookupVars PROVE LookupTypeOK'
  OBVIOUS
<1> USE KindsDiffer DEF LookupTypeOK
<1>1. CASE TopicMissing \/ Configured
  BY <1>1 DEF TopicMissing, Configured, throw_exception, given, lookupd, history
<1>2. CASE RequestFails \/ request
  BY <1>2 DEF RequestFails, request, given, lookupd, history
<1>3. CASE FinshCallback \/ FinshCallbackOfNull
  BY <1>3 DEF FinshCallback, FinshCallbackOfNull, given, lookupd, history
<1>4. CASE NoCallback
  BY <1>4 DEF NoCallback, given, lookupd, history
<1>5. CASE NotAvailable \/ DecodeFails \/ NoProducersKey
  BY <1>5 DEF NotAvailable, DecodeFails, NoProducersKey, throw_exception, given, lookupd, history
<1>6. CASE NoProducers \/ LookupAgain
  BY <1>6 DEF NoProducers, LookupAgain, given, lookupd, history
<1>7. CASE Start
  BY <1>7, ListedIsProducers DEF Start, given, lookupd, history
<1>8. CASE LookupdAnswers
  <2>1. answer' \in {Empty, UnknownTopic, NotJson, Listed(registered)}
    BY <1>8 DEF LookupdAnswers
  <2>2. answer' \in Result /\ latest' = answer' /\ answers' = answers \cup {answer'}
    BY <1>8, <2>1 DEF LookupdAnswers
  <2>3. QED
    BY <1>8, <2>2 DEF LookupdAnswers, given, lookupd, history
<1>9. CASE \E n \in Nsqd : Register(n) \/ Unregister(n)
  BY <1>9 DEF Register, Unregister, given, history
<1>10. CASE LookupdStops \/ LookupdStarts
  BY <1>10 DEF LookupdStops, LookupdStarts, given, history
<1>11. CASE UNCHANGED lookupVars
  BY <1>11 DEF lookupVars, given, lookupd, history
<1>12. QED
  BY <1>1, <1>2, <1>3, <1>4, <1>5, <1>6, <1>7, <1>8, <1>9, <1>10, <1>11 DEF LookupNext, Script

(* nsqlookupd's knowledge, the result and the exception keep to their      *)
(* types.                                                                  *)
THEOREM LookupTypeCorrect == LookupSpec => []LookupTypeOK
  BY LookupTypeInit, LookupTypeStep, PTL DEF LookupSpec

LEMMA SourcedInit == LookupInit => LookupInv
<1> SUFFICES ASSUME LookupInit PROVE LookupInv
  OBVIOUS
<1>1. HistoryOK /\ StartedFromAnswer /\ ThrownForAReason /\ NoCrash
  BY DEF LookupInit, HistoryOK, StartedFromAnswer, ThrownForAReason, NoCrash
<1>2. QED
  BY <1>1, LookupTypeInit DEF LookupInv

LEMMA SourcedStep == LookupInv /\ [LookupNext]_lookupVars => LookupInv'
<1> SUFFICES ASSUME LookupInv, [LookupNext]_lookupVars PROVE LookupInv'
  OBVIOUS
<1>0. LookupTypeOK'
  BY LookupTypeStep DEF LookupInv
<1> SUFFICES HistoryOK' /\ StartedFromAnswer' /\ ThrownForAReason' /\ NoCrash'
  BY <1>0 DEF LookupInv
<1> USE KindsDiffer DEF LookupInv, HistoryOK, Sourced, StartedFromAnswer, ThrownForAReason, NoCrash
<1>1. CASE TopicMissing \/ Configured
  BY <1>1 DEF TopicMissing, Configured, throw_exception, given, lookupd, history
<1>2. CASE RequestFails \/ request
  BY <1>2 DEF RequestFails, request, given, lookupd, history
<1>3. CASE FinshCallback
  BY <1>3 DEF FinshCallback, given, lookupd, history
<1>4. CASE FinshCallbackOfNull
  <2>1. "cut" \in hazards /\ stage' = "crashed"
    BY <1>4 DEF FinshCallbackOfNull
  <2>2. UNCHANGED <<hazards, config, result, thrown, producers, answer, latest, answers>>
    BY <1>4 DEF FinshCallbackOfNull, given, history
  <2>3. QED
    BY <2>1, <2>2
<1>5. CASE NoCallback
  BY <1>5 DEF NoCallback, given, lookupd, history
<1>6. CASE NotAvailable
  BY <1>6 DEF NotAvailable, throw_exception, given, lookupd, history
<1>7. CASE DecodeFails
  <2>1. result = NotJson /\ stage = "decode" /\ stage' = "crashed"
    BY <1>7 DEF DecodeFails
  <2>2. latest = NotJson \/ "loop_error" \in hazards
    BY <2>1
  <2>3. UNCHANGED <<hazards, config, result, thrown, producers, answer, latest, answers>>
    BY <1>7 DEF DecodeFails, given, history
  <2>4. QED
    BY <2>1, <2>2, <2>3
<1>8. CASE NoProducersKey
  <2>1. result \in {UnknownTopic, LocalError} /\ stage = "decode" /\ stage' = "thrown"
    BY <1>8 DEF NoProducersKey
  <2>2. UnknownTopic \in answers \/ hazards \cap {"local_error", "loop_error"} # {}
    BY <2>1
  <2>3. UNCHANGED <<hazards, config, result, producers, answer, latest, answers>> /\ thrown' = "topic_not_exists"
    BY <1>8 DEF NoProducersKey, given, history, throw_exception
  <2>4. QED
    BY <2>1, <2>2, <2>3
<1>9. CASE NoProducers \/ LookupAgain
  BY <1>9 DEF NoProducers, LookupAgain, given, lookupd, history
<1>10. CASE Start
  <2>1. result = Listed(result.nsqds) /\ result.nsqds # {} /\ producers' = result.nsqds
    BY <1>10, ListedIsProducers DEF Start, LookupTypeOK
  <2>2. result \notin {LocalError, NotJson, Empty}
    BY <1>10 DEF Start, LocalError, NotJson, Empty, Reply
  <2>3. latest = result
    BY <1>10, <2>2 DEF Start
  <2>4. QED
    BY <1>10, <2>1, <2>3 DEF Start, given, lookupd, history
<1>11. CASE LookupdAnswers
  <2>1. stage = "dispatch" /\ stage' = stage /\ latest' = answer' /\ answers' = answers \cup {answer'}
    BY <1>11 DEF LookupdAnswers
  <2>2. answer' # LocalError
    <3>1. LocalError # Listed(registered)
      BY DEF LocalError, Reply, Listed
    <3>2. QED
      BY <1>11, <3>1 DEF LookupdAnswers
  <2>3. UNCHANGED <<hazards, config, result, thrown, producers>>
    BY <1>11 DEF LookupdAnswers, given
  <2>4. QED
    BY <2>1, <2>2, <2>3
<1>12. CASE \E n \in Nsqd : Register(n) \/ Unregister(n)
  BY <1>12 DEF Register, Unregister, given, history
<1>13. CASE LookupdStops \/ LookupdStarts
  BY <1>13 DEF LookupdStops, LookupdStarts, given, history
<1>14. CASE UNCHANGED lookupVars
  BY <1>14 DEF lookupVars, given, lookupd, history
<1>15. QED
  BY <1>1, <1>2, <1>3, <1>4, <1>5, <1>6, <1>7, <1>8, <1>9, <1>10, <1>11, <1>12, <1>13, <1>14 DEF LookupNext, Script

LEMMA AnswersSourced == LookupSpec => []LookupInv
  BY SourcedInit, SourcedStep, PTL DEF LookupSpec

(* Workers are forked for the producers that nsqlookupd's last answer      *)
(* lists, and only if it lists any (nsq.c:395-449).                        *)
THEOREM ForkedFromAnswer == LookupSpec => []StartedFromAnswer
  BY AnswersSourced, PTL DEF LookupInv

(* "Topic not exists" and "Lookupd server not available" are thrown for    *)
(* what nsqlookupd answered, or did not (nsq.c:395-416).                   *)
THEOREM ExceptionHasReason == LookupSpec => []ThrownForAReason
  BY AnswersSourced, PTL DEF LookupInv

(* Before the first fork, subscribe() crashes only over a connection that  *)
(* is cut or an event loop that ends under a request, over an answer that  *)
(* is not JSON, or for producers without a channel (nsq.c:395-449).        *)
THEOREM CrashHasCause == LookupSpec => []NoCrash
  BY AnswersSourced, PTL DEF LookupInv

(* What Supervisor assumes of the producers lookup() has found: nsq.c:424, *)
(* 449 allocate and count on at least one.                                 *)
THEOREM ForkHasProducers ==
    ASSUME IsFiniteSet(Nsqd)
    PROVE  LookupSpec => [](stage = "started" => Cardinality(producers) \in Nat \ {0})
<1>1. LookupInv => (stage = "started" => Cardinality(producers) \in Nat \ {0})
  <2> SUFFICES ASSUME LookupInv, stage = "started" PROVE Cardinality(producers) \in Nat \ {0}
    OBVIOUS
  <2>1. producers \subseteq Nsqd /\ producers # {}
    BY DEF LookupInv, LookupTypeOK, StartedFromAnswer
  <2>2. IsFiniteSet(producers)
    BY <2>1, FS_Subset
  <2>3. Cardinality(producers) \in Nat /\ Cardinality(producers) # 0
    BY <2>1, <2>2, FS_CardinalityType, FS_EmptySet
  <2>4. QED
    BY <2>3
<1>2. QED
  BY <1>1, AnswersSourced, PTL

-----------------------------------------------------------------------------
(* Supervisor: the processes. *)

LEMMA SlotsType == Slots \in Nat \ {0} /\ Slot = 0..Slots - 1
<1>1. ASSUME NEW a \in Nat \ {0}, NEW b \in Nat \ {0} PROVE a * b \in Nat \ {0}
  OBVIOUS
<1>2. QED
  BY <1>1, SupervisorAssumption DEF Slots, Slot

(* What the steps do to processes and tables, with the ways to end and the *)
(* ways to go on to the next slot taken together.                          *)
Forward(p) ==
    /\ pc[p] = "slots" /\ index[p] < Slots
    /\ index' = [index EXCEPT ![p] = @ + 1]
    /\ UNCHANGED <<pc, parent, loop, ret_pid, newborn, tables, lastPid>>
End(p) ==
    /\ Alive(p)
    /\ pc' = [pc EXCEPT ![p] = "zombie"]
    /\ UNCHANGED <<parent, place, tables, lastPid>>

StepCases(p) ==
    \/ Fork(p) \/ Record(p) \/ Forward(p) \/ SlotsDone(p) \/ End(p)
    \/ \E c \in Pids : Wait(p, c)
    \/ Dispatch(p) \/ ConnectFails(p)

LEMMA MasterIsPid == Master \in Pids
  BY SupervisorAssumption DEF Master, Pids

LEMMA NextCases == Next => \E p \in Pids : StepCases(p)
<1> SUFFICES ASSUME Next PROVE \E p \in Pids : StepCases(p)
  OBVIOUS
<1>1. CASE Terminate
  BY <1>1, MasterIsPid DEF Terminate, Killed, StepCases, End
<1>2. ASSUME NEW p \in Pids, Step(p) PROVE StepCases(p)
  BY <1>2 DEF Step, StepCases, Forward, End, Pass, Leave, signal_handle, Killed, Wanted,
              Alive, Supervises
<1>3. ASSUME NEW p \in Pids, ForkFails(p) \/ ConnectFails(p) \/ WorkerExits(p) PROVE StepCases(p)
  BY <1>3 DEF StepCases, Forward, End, ForkFails, WorkerExits, Wanted, Alive
<1>4. QED
  BY <1>1, <1>2, <1>3 DEF Next

-----------------------------------------------------------------------------
(* Type correctness. *)

LEMMA TypeInit == Init => TypeOK
  BY SlotsType, SupervisorAssumption
  DEF Init, TypeOK, Pids, Master, NoPid, Worker

(* The part of TypeOK that StepCases decides. *)
ProcessesOK ==
    /\ pc \in [Pids -> {"unused", "slots", "forked", "wait", "subscribe", "dispatch",
                        "zombie", "reaped"}]
    /\ parent \in [Pids -> Pids \cup {NoPid}]
    /\ loop \in [Pids -> {"start", "reload"}]
    /\ index \in [Pids -> 0..Slots]
    /\ ret_pid \in [Pids -> Pids \cup {NoPid}]
    /\ newborn \in [Pids -> Pids \cup {NoPid}]
    /\ arg_arr \in [Pids -> [Slot -> Pids \cup {NoPid}]]
    /\ child_fd \in [Pids -> SUBSET Pids]
    /\ master \in [Pids -> Pids \cup {NoPid}]
    /\ lastPid \in Pids
    /\ \A p \in Pids : pc[p] = "unused" <=> p > lastPid
    /\ \A p \in Pids : Worker(p) \/ pc[p] = "forked" => index[p] < Slots
    /\ \A p \in Pids : pc[p] = "forked" => newborn[p] # NoPid

LEMMA ProcessesStep == ProcessesOK /\ Next => ProcessesOK'
<1> SUFFICES ASSUME ProcessesOK, NEW p \in Pids, StepCases(p) PROVE ProcessesOK'
  BY NextCases
<1> USE SlotsType DEF ProcessesOK, Worker, Pids, tables, place
<1>1. CASE Fork(p)
  <2> DEFINE c == lastPid + 1
  <2>1. c \in Pids /\ c # p /\ p <= lastPid /\ pc[p] = "slots" /\ index[p] < Slots /\ c # NoPid
    BY <1>1, SupervisorAssumption DEF Fork, Wanted, NoPid
  <2>2. /\ pc' = [pc EXCEPT ![p] = "forked", ![c] = "subscribe"]
        /\ index' = [index EXCEPT ![c] = index[p]]
        /\ newborn' = [newborn EXCEPT ![p] = c]
        /\ parent' = [parent EXCEPT ![c] = p]
        /\ lastPid' = c
    BY <1>1 DEF Fork, Copied
  <2>3. /\ loop' = [loop EXCEPT ![c] = loop[p]]
        /\ ret_pid' = [ret_pid EXCEPT ![c] = ret_pid[p]]
        /\ arg_arr' = [arg_arr EXCEPT ![c] = arg_arr[p]]
        /\ child_fd' = [child_fd EXCEPT ![c] = child_fd[p]]
        /\ master' = [master EXCEPT ![c] = master[p]]
    BY <1>1 DEF Fork, Copied
  <2> HIDE DEF c
  <2>4. /\ loop' \in [Pids -> {"start", "reload"}]
        /\ ret_pid' \in [Pids -> Pids \cup {NoPid}]
        /\ arg_arr' \in [Pids -> [Slot -> Pids \cup {NoPid}]]
        /\ child_fd' \in [Pids -> SUBSET Pids]
        /\ master' \in [Pids -> Pids \cup {NoPid}]
    BY <2>1, <2>3
  <2>5. /\ pc' \in [Pids -> {"unused", "slots", "forked", "wait", "subscribe", "dispatch",
                             "zombie", "reaped"}]
        /\ index' \in [Pids -> 0..Slots]
        /\ newborn' \in [Pids -> Pids \cup {NoPid}]
        /\ parent' \in [Pids -> Pids \cup {NoPid}]
    BY <2>1, <2>2
  <2>6. \A q \in Pids : pc'[q] = "unused" <=> q > lastPid'
    BY <2>1, <2>2 DEF c
  <2>7. \A q \in Pids : /\ Worker(q)' \/ pc'[q] = "forked" => index'[q] < Slots
                        /\ pc'[q] = "forked" => newborn'[q] # NoPid
    BY <2>1, <2>2
  <2>8. QED
    BY <2>1, <2>2, <2>4, <2>5, <2>6, <2>7
<1>2. CASE Record(p)
  <2>1. PICK c \in Stored(index[p], newborn[p]) :
            arg_arr' = [arg_arr EXCEPT ![p][index[p]] = c]
    BY <1>2 DEF Record
  <2>2. c \in Pids \cup {NoPid} /\ index[p] \in Slot
    BY <1>2, <2>1 DEF Record, Stored
  <2>3. arg_arr' \in [Pids -> [Slot -> Pids \cup {NoPid}]]
    BY <2>1, <2>2
  <2>4. child_fd' \in [Pids -> SUBSET Pids]
    <3>1. newborn[p] \in Pids
      BY <1>2 DEF Record
    <3>2. QED
      BY <1>2, <3>1 DEF Record
  <2>5. QED
    <3>1. /\ pc' = [pc EXCEPT ![p] = "slots"] /\ index' = [index EXCEPT ![p] = index[p] + 1]
          /\ master' = [master EXCEPT ![p] = IF master[p] = NoPid THEN p ELSE master[p]]
          /\ UNCHANGED <<parent, loop, ret_pid, newborn, lastPid>>
          /\ pc[p] = "forked"
      BY <1>2 DEF Record
    <3>2. master' \in [Pids -> Pids \cup {NoPid}] /\ index' \in [Pids -> 0..Slots]
      BY <3>1, <2>2
    <3>3. QED
      BY <3>1, <3>2, <2>3, <2>4
<1>3. CASE Forward(p)
  BY <1>3 DEF Forward
<1>4. CASE SlotsDone(p)
  BY <1>4 DEF SlotsDone
<1>5. CASE End(p)
  BY <1>5 DEF End, Alive, Supervises
<1>6. ASSUME NEW c \in Pids, Wait(p, c) PROVE ProcessesOK'
  <2>1. /\ pc' = [pc EXCEPT ![p] = "slots", ![c] = "reaped"]
        /\ loop' = [loop EXCEPT ![p] = "reload"]
        /\ index' = [index EXCEPT ![p] = 0]
        /\ ret_pid' = [ret_pid EXCEPT ![p] = c]
        /\ UNCHANGED <<parent, newborn, arg_arr, child_fd, master, lastPid>>
        /\ pc[p] = "wait" /\ pc[c] = "zombie"
    BY <1>6 DEF Wait
  <2>2. /\ pc' \in [Pids -> {"unused", "slots", "forked", "wait", "subscribe", "dispatch",
                             "zombie", "reaped"}]
        /\ loop' \in [Pids -> {"start", "reload"}]
        /\ index' \in [Pids -> 0..Slots]
        /\ ret_pid' \in [Pids -> Pids \cup {NoPid}]
    BY <2>1
  <2>3. \A q \in Pids : pc'[q] = "unused" <=> q > lastPid'
    BY <2>1
  <2>4. \A q \in Pids : /\ Worker(q)' \/ pc'[q] = "forked" => index'[q] < Slots
                        /\ pc'[q] = "forked" => newborn'[q] # NoPid
    BY <2>1
  <2>5. QED
    BY <2>1, <2>2, <2>3, <2>4
<1>7. CASE Dispatch(p)
  BY <1>7 DEF Dispatch
<1>8. CASE ConnectFails(p)
  <2>1. /\ pc[p] = "subscribe" /\ pc' = [pc EXCEPT ![p] = "slots"]
        /\ index' = [index EXCEPT ![p] = @ + 1]
        /\ UNCHANGED <<parent, loop, ret_pid, newborn, tables, lastPid>>
    BY <1>8 DEF ConnectFails
  <2>2. index[p] + 1 \in 0..Slots
    BY <2>1 DEF Worker
  <2>3. QED
    BY <2>1, <2>2
<1>9. QED
  BY <1>1, <1>2, <1>3, <1>4, <1>5, <1>6, <1>7, <1>8 DEF StepCases

LEMMA SignalsStep ==
    TypeOK /\ Next => sigterm' \in SUBSET Pids /\ faults' \in 0..MaxFaults
<1> SUFFICES ASSUME TypeOK, Next
             PROVE  sigterm' \in SUBSET Pids /\ faults' \in 0..MaxFaults
  OBVIOUS
<1> USE SupervisorAssumption DEF TypeOK
<1>1. ASSUME NEW p \in Pids, Killed(p) PROVE sigterm' \in SUBSET Pids
  <2>1. \A s : s \in sigterm' => s \in sigterm \/ s \in child_fd[p]
    BY <1>1 DEF Killed
  <2>2. child_fd[p] \in SUBSET Pids
    OBVIOUS
  <2>3. QED
    BY <2>1, <2>2
<1>2. ASSUME NEW kind, Fault(kind) PROVE faults' \in 0..MaxFaults
  BY <1>2 DEF Fault
<1>3. CASE Terminate
  BY <1>1, <1>2, <1>3, MasterIsPid DEF Terminate
<1>4. ASSUME NEW p \in Pids, Step(p) PROVE sigterm' \in SUBSET Pids /\ faults' = faults
  BY <1>1, <1>4 DEF Step, Fork, Record, Pass, SlotsDone, Leave, Wait, Dispatch, signal_handle
<1>5. ASSUME NEW p \in Pids, ForkFails(p) \/ ConnectFails(p) \/ WorkerExits(p)
      PROVE  sigterm' \in SUBSET Pids /\ faults' \in 0..MaxFaults
  BY <1>2, <1>5 DEF ForkFails, ConnectFails, WorkerExits
<1>6. QED
  BY <1>3, <1>4, <1>5 DEF Next

LEMMA TypeStep == TypeOK /\ [Next]_vars => TypeOK'
<1>1. TypeOK <=> ProcessesOK /\ sigterm \in SUBSET Pids /\ faults \in 0..MaxFaults
  BY DEF TypeOK, ProcessesOK
<1>2. (TypeOK <=> ProcessesOK /\ sigterm \in SUBSET Pids /\ faults \in 0..MaxFaults)'
  BY DEF TypeOK, ProcessesOK
<1>3. TypeOK /\ UNCHANGED vars => TypeOK'
  BY DEF TypeOK, vars, place, tables, Worker
<1>4. QED
  BY <1>1, <1>2, <1>3, ProcessesStep, SignalsStep

(* Supervisor's variables keep their types, and a process its place. *)
THEOREM TypeCorrect == Spec => []TypeOK
  BY TypeInit, TypeStep, PTL DEF Spec, Safety

-----------------------------------------------------------------------------
(* Every child is on record.  By itself this is not preserved: Record may  *)
(* overwrite the entry of another child, unless the slot is known to be    *)
(* free.                                                                   *)

(* A worker has forked nobody, nor has a process that does not exist yet. *)
Childless ==
    \A p, c \in Pids : pc[p] = "unused" \/ Worker(p) => parent[c] # p

(* The child fork() has just returned is to have the slot it was made for. *)
NewbornsSlot ==
    \A p \in Pids : pc[p] = "forked" =>
        /\ newborn[p] \in Pids /\ parent[newborn[p]] = p /\ pc[newborn[p]] # "unused"
        /\ Worker(newborn[p]) => index[newborn[p]] = index[p]

(* No other child works in the slot a loop is at. *)
SlotIsFree ==
    \A p, c \in Pids : parent[c] = p /\ Worker(c) =>
        /\ pc[p] = "slots" /\ loop[p] = "start" => index[c] < index[p]
        /\ pc[p] = "forked" /\ newborn[p] # c =>
               IF loop[p] = "start" THEN index[c] < index[p]
               ELSE index[p] < Producers => index[c] # index[p]

(* A slot is filled again only after its worker has been reaped. *)
DeadIsReaped ==
    \A p \in Pids : loop[p] = "reload" => ret_pid[p] \in Pids /\ pc[ret_pid[p]] = "reaped"

ChildrenInv == Childless /\ NewbornsSlot /\ SlotIsFree /\ DeadIsReaped /\ ChildrenRecorded

LEMMA ChildrenInit == Init => ChildrenInv
  BY SlotsType, SupervisorAssumption
  DEF Init, ChildrenInv, Childless, NewbornsSlot, SlotIsFree, DeadIsReaped, ChildrenRecorded,
      Pids, Master, NoPid, Worker, Supervises

(* What Fork and Record change, one process at a time. *)
LEMMA ForkEffect ==
    ASSUME ProcessesOK, NEW p \in Pids, Fork(p)
    PROVE  /\ lastPid + 1 \in Pids /\ pc[lastPid + 1] = "unused" /\ pc[p] = "slots"
           /\ loop[p] = "reload" => arg_arr[p][index[p]] = ret_pid[p]
           /\ pc'[p] = "forked" /\ newborn'[p] = lastPid + 1
           /\ loop'[p] = loop[p] /\ index'[p] = index[p] /\ ret_pid'[p] = ret_pid[p]
           /\ pc'[lastPid + 1] = "subscribe" /\ parent'[lastPid + 1] = p
           /\ loop'[lastPid + 1] = loop[p] /\ index'[lastPid + 1] = index[p]
           /\ ret_pid'[lastPid + 1] = ret_pid[p]
           /\ parent'[p] = parent[p] /\ arg_arr'[p] = arg_arr[p] /\ child_fd'[p] = child_fd[p]
           /\ \A q \in Pids : q # p /\ q # lastPid + 1 =>
                 /\ pc'[q] = pc[q] /\ parent'[q] = parent[q] /\ loop'[q] = loop[q]
                 /\ index'[q] = index[q] /\ ret_pid'[q] = ret_pid[q]
                 /\ newborn'[q] = newborn[q] /\ arg_arr'[q] = arg_arr[q]
                 /\ child_fd'[q] = child_fd[q]
<1> DEFINE c == lastPid + 1
<1>1. c \in Pids /\ c # p /\ pc[c] = "unused" /\ pc[p] = "slots"
  BY SupervisorAssumption DEF ProcessesOK, Fork, Wanted, Pids
<1>2. /\ pc' = [pc EXCEPT ![p] = "forked", ![c] = "subscribe"]
      /\ parent' = [parent EXCEPT ![c] = p]
      /\ newborn' = [newborn EXCEPT ![p] = c]
      /\ loop' = [loop EXCEPT ![c] = loop[p]]
      /\ index' = [index EXCEPT ![c] = index[p]]
      /\ ret_pid' = [ret_pid EXCEPT ![c] = ret_pid[p]]
      /\ arg_arr' = [arg_arr EXCEPT ![c] = arg_arr[p]]
      /\ child_fd' = [child_fd EXCEPT ![c] = child_fd[p]]
      /\ loop[p] = "reload" => arg_arr[p][index[p]] = ret_pid[p]
  BY DEF Fork, Copied, Wanted
<1> HIDE DEF c
<1>3. QED
  BY <1>1, <1>2 DEF ProcessesOK, c

LEMMA RecordEffect ==
    ASSUME ProcessesOK, NEW p \in Pids, Record(p)
    PROVE  /\ pc[p] = "forked" /\ pc'[p] = "slots" /\ index[p] \in Slot
           /\ index'[p] = index[p] + 1
           /\ index[p] < Producers => arg_arr'[p][index[p]] = newborn[p]
           /\ \A k \in Slot : k # index[p] => arg_arr'[p][k] = arg_arr[p][k]
           /\ child_fd'[p] = child_fd[p] \cup {newborn[p]}
           /\ UNCHANGED <<parent, loop, ret_pid, newborn>>
           /\ \A q \in Pids : q # p =>
                 /\ pc'[q] = pc[q] /\ index'[q] = index[q] /\ arg_arr'[q] = arg_arr[q]
                 /\ child_fd'[q] = child_fd[q]
<1>1. PICK c \in Stored(index[p], newborn[p]) :
          arg_arr' = [arg_arr EXCEPT ![p][index[p]] = c]
  BY DEF Record
<1>2. index[p] < Producers => c = newborn[p]
  BY <1>1 DEF Stored
<1>3. pc[p] = "forked" /\ index[p] \in Slot
  BY SlotsType DEF Record, ProcessesOK
<1>4. QED
  BY <1>1, <1>2, <1>3 DEF Record, ProcessesOK

LEMMA ChildlessStep == ProcessesOK /\ ChildrenInv /\ Next => Childless'
<1> SUFFICES ASSUME ProcessesOK, ChildrenInv, NEW p \in Pids, StepCases(p) PROVE Childless'
  BY NextCases
<1> USE SlotsType DEF ChildrenInv, Childless, Worker
<1>1. CASE Fork(p)
  BY <1>1, ForkEffect
<1>2. CASE Record(p)
  BY <1>2, RecordEffect
<1>3. CASE Forward(p)
  BY <1>3 DEF Forward, ProcessesOK, tables
<1>4. CASE SlotsDone(p)
  BY <1>4 DEF SlotsDone, ProcessesOK, place, tables
<1>5. CASE End(p)
  BY <1>5 DEF End, ProcessesOK, Alive, Supervises, place, tables
<1>6. ASSUME NEW c \in Pids, Wait(p, c) PROVE Childless'
  BY <1>6 DEF Wait, ProcessesOK, tables
<1>7. CASE Dispatch(p)
  BY <1>7 DEF Dispatch, ProcessesOK, place, tables
<1>8. CASE ConnectFails(p)
  BY <1>8 DEF ConnectFails, ProcessesOK, tables
<1>9. QED
  BY <1>1, <1>2, <1>3, <1>4, <1>5, <1>6, <1>7, <1>8 DEF StepCases

LEMMA DeadIsReapedStep == ProcessesOK /\ ChildrenInv /\ Next => DeadIsReaped'
<1> SUFFICES ASSUME ProcessesOK, ChildrenInv, NEW p \in Pids, StepCases(p) PROVE DeadIsReaped'
  BY NextCases
<1> USE SlotsType DEF ChildrenInv, DeadIsReaped, Worker
<1>1. CASE Fork(p)
  BY <1>1, ForkEffect
<1>2. CASE Record(p)
  BY <1>2, RecordEffect
<1>3. CASE Forward(p)
  BY <1>3 DEF Forward, ProcessesOK, tables
<1>4. CASE SlotsDone(p)
  BY <1>4 DEF SlotsDone, ProcessesOK, place, tables
<1>5. CASE End(p)
  BY <1>5 DEF End, ProcessesOK, Alive, Supervises, place, tables
<1>6. ASSUME NEW c \in Pids, Wait(p, c) PROVE DeadIsReaped'
  BY <1>6 DEF Wait, ProcessesOK, tables
<1>7. CASE Dispatch(p)
  BY <1>7 DEF Dispatch, ProcessesOK, place, tables
<1>8. CASE ConnectFails(p)
  BY <1>8 DEF ConnectFails, ProcessesOK, tables
<1>9. QED
  BY <1>1, <1>2, <1>3, <1>4, <1>5, <1>6, <1>7, <1>8 DEF StepCases

LEMMA NewbornsSlotStep == ProcessesOK /\ ChildrenInv /\ Next => NewbornsSlot'
<1> SUFFICES ASSUME ProcessesOK, ChildrenInv, NEW p \in Pids, StepCases(p) PROVE NewbornsSlot'
  BY NextCases
<1> USE SlotsType DEF ChildrenInv, NewbornsSlot, Childless, Worker
<1>1. CASE Fork(p)
  <2> SUFFICES ASSUME NEW q \in Pids, pc'[q] = "forked"
               PROVE  /\ newborn'[q] \in Pids /\ parent'[newborn'[q]] = q
                      /\ pc'[newborn'[q]] # "unused"
                      /\ Worker(newborn[q])' => index'[newborn'[q]] = index'[q]
    OBVIOUS
  <2>1. CASE q = p
    BY <1>1, <2>1, ForkEffect
  <2>2. CASE q # p
    <3>1. q # lastPid + 1 /\ pc[q] = "forked" /\ newborn'[q] = newborn[q]
      BY <1>1, <2>2, ForkEffect
    <3>2. newborn[q] # lastPid + 1
      BY <1>1, <3>1, ForkEffect
    <3>3. QED
      BY <1>1, <2>2, <3>1, <3>2, ForkEffect
  <2>3. QED
    BY <2>1, <2>2
<1>2. CASE Record(p)
  BY <1>2, RecordEffect
<1>3. CASE Forward(p)
  BY <1>3 DEF Forward, ProcessesOK, tables
<1>4. CASE SlotsDone(p)
  BY <1>4 DEF SlotsDone, ProcessesOK, place, tables
<1>5. CASE End(p)
  BY <1>5 DEF End, ProcessesOK, Alive, Supervises, place, tables
<1>6. ASSUME NEW c \in Pids, Wait(p, c) PROVE NewbornsSlot'
  BY <1>6 DEF Wait, ProcessesOK, tables
<1>7. CASE Dispatch(p)
  BY <1>7 DEF Dispatch, ProcessesOK, place, tables
<1>8. CASE ConnectFails(p)
  BY <1>8 DEF ConnectFails, ProcessesOK, tables
<1>9. QED
  BY <1>1, <1>2, <1>3, <1>4, <1>5, <1>6, <1>7, <1>8 DEF StepCases

LEMMA SlotIsFreeStep == ProcessesOK /\ ChildrenInv /\ Next => SlotIsFree'
<1> SUFFICES ASSUME ProcessesOK, ChildrenInv, NEW p \in Pids, StepCases(p) PROVE SlotIsFree'
  BY NextCases
<1> USE SlotsType DEF ChildrenInv, SlotIsFree, Childless, NewbornsSlot, DeadIsReaped, ChildrenRecorded, Supervises, Worker
<1>1. CASE Fork(p)
  <2> SUFFICES ASSUME NEW q \in Pids, NEW d \in Pids, parent'[d] = q, Worker(d)'
               PROVE  /\ pc'[q] = "slots" /\ loop'[q] = "start" => index'[d] < index'[q]
                      /\ pc'[q] = "forked" /\ newborn'[q] # d =>
                             IF loop'[q] = "start" THEN index'[d] < index'[q]
                             ELSE index'[q] < Producers => index'[d] # index'[q]
    OBVIOUS
  <2>1. CASE d = lastPid + 1
    BY <1>1, <2>1, ForkEffect
  <2>2. CASE d # lastPid + 1
    <3>1. /\ d # p /\ parent[d] = q /\ Worker(d) /\ index'[d] = index[d] /\ q # lastPid + 1
          /\ loop'[q] = loop[q] /\ index'[q] = index[q]
      BY <1>1, <2>2, ForkEffect
    <3>2. CASE q = p
      <4>1. pc[p] = "slots" /\ pc'[p] = "forked"
        BY <1>1, ForkEffect
      <4>2. CASE loop[p] = "start"
        BY <3>1, <3>2, <4>1, <4>2
      <4>3. CASE loop[p] = "reload"
        <5>1. arg_arr[p][index[p]] = ret_pid[p] /\ pc[ret_pid[p]] = "reaped"
          BY <1>1, <4>3, ForkEffect
        <5>2. index[d] < Producers => arg_arr[p][index[d]] = d
          BY <3>1, <3>2, <4>1
        <5>3. QED
          BY <3>1, <3>2, <4>1, <4>3, <5>1, <5>2
      <4>4. QED
        BY <4>2, <4>3 DEF ProcessesOK
    <3>3. CASE q # p
      BY <1>1, <3>1, <3>3, ForkEffect
    <3>4. QED
      BY <3>2, <3>3
  <2>3. QED
    BY <2>1, <2>2
<1>2. CASE Record(p)
  <2> SUFFICES ASSUME NEW q \in Pids, NEW d \in Pids, parent[d] = q, Worker(d)'
               PROVE  /\ pc'[q] = "slots" /\ loop[q] = "start" => index'[d] < index'[q]
                      /\ pc'[q] = "forked" /\ newborn[q] # d =>
                             IF loop[q] = "start" THEN index'[d] < index'[q]
                             ELSE index'[q] < Producers => index'[d] # index'[q]
    BY <1>2, RecordEffect
  <2>1. d # p /\ Worker(d) /\ index'[d] = index[d] /\ index[d] \in 0..Slots
    BY <1>2, RecordEffect DEF ProcessesOK
  <2>2. CASE q = p
    <3>1. index[p] \in 0..Slots /\ index'[p] = index[p] + 1 /\ pc[p] = "forked"
      BY <1>2, RecordEffect DEF ProcessesOK
    <3>2. loop[p] = "start" => index[d] <= index[p]
      BY <2>1, <2>2, <3>1
    <3>3. pc'[p] = "slots"
      BY <1>2, RecordEffect
    <3>4. QED
      BY <2>1, <2>2, <3>1, <3>2, <3>3
  <2>3. CASE q # p
    BY <1>2, <2>1, <2>3, RecordEffect
  <2>4. QED
    BY <2>2, <2>3
<1>3. CASE Forward(p)
  BY <1>3 DEF Forward, ProcessesOK, tables
<1>4. CASE SlotsDone(p)
  BY <1>4 DEF SlotsDone, ProcessesOK, place, tables
<1>5. CASE End(p)
  BY <1>5 DEF End, ProcessesOK, Alive, Supervises, place, tables
<1>6. ASSUME NEW c \in Pids, Wait(p, c) PROVE SlotIsFree'
  BY <1>6 DEF Wait, ProcessesOK, tables
<1>7. CASE Dispatch(p)
  BY <1>7 DEF Dispatch, ProcessesOK, place, tables
<1>8. CASE ConnectFails(p)
  BY <1>8 DEF ConnectFails, ProcessesOK, tables
<1>9. QED
  BY <1>1, <1>2, <1>3, <1>4, <1>5, <1>6, <1>7, <1>8 DEF StepCases

LEMMA ChildrenRecordedStep == ProcessesOK /\ ChildrenInv /\ Next => ChildrenRecorded'
<1> SUFFICES ASSUME ProcessesOK, ChildrenInv, NEW p \in Pids, StepCases(p) PROVE ChildrenRecorded'
  BY NextCases
<1> USE SlotsType DEF ChildrenInv, ChildrenRecorded, SlotIsFree, Childless, NewbornsSlot, Supervises, Worker
<1>1. CASE Fork(p)
  <2> SUFFICES ASSUME NEW q \in Pids, NEW d \in Pids, Supervises(q)', parent'[d] = q,
                      pc'[d] \notin {"unused", "reaped"},
                      ~(pc'[q] = "forked" /\ newborn'[q] = d)
               PROVE  /\ d \in child_fd'[q]
                      /\ Worker(d)' /\ index'[d] < Producers => arg_arr'[q][index'[d]] = d
    OBVIOUS
  <2>1. q # lastPid + 1 /\ d # lastPid + 1
    BY <1>1, ForkEffect
  <2>2. /\ Supervises(q) /\ parent[d] = q /\ pc[d] \notin {"unused", "reaped"}
        /\ Worker(d)' => Worker(d)
        /\ index'[d] = index[d] /\ child_fd'[q] = child_fd[q] /\ arg_arr'[q] = arg_arr[q]
    BY <1>1, <2>1, ForkEffect
  <2>3. ~(pc[q] = "forked" /\ newborn[q] = d)
    BY <1>1, <2>1, ForkEffect
  <2>4. QED
    BY <2>2, <2>3
<1>2. CASE Record(p)
  <2> SUFFICES ASSUME NEW q \in Pids, NEW d \in Pids, Supervises(q)', parent[d] = q,
                      pc'[d] \notin {"unused", "reaped"},
                      ~(pc'[q] = "forked" /\ newborn[q] = d)
               PROVE  /\ d \in child_fd'[q]
                      /\ Worker(d)' /\ index'[d] < Producers => arg_arr'[q][index'[d]] = d
    BY <1>2, RecordEffect
  <2>1. /\ Supervises(q) /\ pc[d] \notin {"unused", "reaped"}
        /\ Worker(d)' => Worker(d) /\ index'[d] = index[d]
    BY <1>2, RecordEffect
  <2>2. CASE q = p
    <3>1. CASE newborn[p] = d
      BY <1>2, <2>1, <2>2, <3>1, RecordEffect
    <3>2. CASE newborn[p] # d
      <4>1. pc[p] = "forked" /\ d \in child_fd[p]
        BY <1>2, <2>1, <2>2, <3>2, RecordEffect
      <4>2. ASSUME Worker(d)', index'[d] < Producers PROVE arg_arr'[p][index'[d]] = d
        <5>1. Worker(d) /\ index'[d] = index[d] /\ index[d] \in Slot
          BY <2>1, <4>2 DEF ProcessesOK
        <5>2. index[d] # index[p]
          BY <2>2, <3>2, <4>1, <4>2, <5>1 DEF ProcessesOK
        <5>3. arg_arr[p][index[d]] = d
          BY <2>1, <2>2, <3>2, <4>2, <5>1
        <5>4. QED
          BY <1>2, <5>1, <5>2, <5>3, RecordEffect
      <4>3. QED
        BY <1>2, <2>2, <4>1, <4>2, RecordEffect
    <3>3. QED
      BY <3>1, <3>2
  <2>3. CASE q # p
    BY <1>2, <2>1, <2>3, RecordEffect
  <2>4. QED
    BY <2>2, <2>3
<1>3. CASE Forward(p)
  BY <1>3 DEF Forward, ProcessesOK, tables
<1>4. CASE SlotsDone(p)
  BY <1>4 DEF SlotsDone, ProcessesOK, place, tables
<1>5. CASE End(p)
  BY <1>5 DEF End, ProcessesOK, Alive, Supervises, place, tables
<1>6. ASSUME NEW c \in Pids, Wait(p, c) PROVE ChildrenRecorded'
  BY <1>6 DEF Wait, ProcessesOK, tables
<1>7. CASE Dispatch(p)
  BY <1>7 DEF Dispatch, ProcessesOK, place, tables
<1>8. CASE ConnectFails(p)
  BY <1>8 DEF ConnectFails, ProcessesOK, tables
<1>9. QED
  BY <1>1, <1>2, <1>3, <1>4, <1>5, <1>6, <1>7, <1>8 DEF StepCases

LEMMA ChildrenStep == ProcessesOK /\ ChildrenInv /\ Next => ChildrenInv'
  BY ChildlessStep, DeadIsReapedStep, NewbornsSlotStep, SlotIsFreeStep, ChildrenRecordedStep
  DEF ChildrenInv

(* Between start_worker_process and wait(), no child is off the record     *)
(* (nsq.c:281-285), so a death in the allocated part of arg_arr is always  *)
(* matched to its slot (nsq.c:497-503).                                    *)
THEOREM EveryChildRecorded == Spec => []ChildrenRecorded
<1>1. TypeOK => ProcessesOK
  BY DEF TypeOK, ProcessesOK
<1>2. ChildrenInv /\ UNCHANGED vars => ChildrenInv'
  BY DEF ChildrenInv, Childless, NewbornsSlot, SlotIsFree, DeadIsReaped, ChildrenRecorded,
         vars, place, tables, Worker, Supervises
<1>3. TypeOK /\ ChildrenInv /\ [Next]_vars => ChildrenInv'
  BY <1>1, <1>2, ChildrenStep
<1>4. ChildrenInv => ChildrenRecorded
  BY DEF ChildrenInv
<1>5. QED
  BY <1>3, <1>4, ChildrenInit, TypeCorrect, PTL DEF Spec, Safety

-----------------------------------------------------------------------------
(* One worker for each slot: while every connection can be started, only   *)
(* the first process ever supervises.                                      *)

OneMaster ==
    \A p \in Pids : /\ Supervises(p) => p = Master
                    /\ Worker(p) => parent[p] = Master

LEMMA OneMasterStep ==
    ASSUME "connect_fails" \notin Faults, ProcessesOK, ChildrenInv, OneMaster, Next
    PROVE  OneMaster'
<1>1. PICK p \in Pids : StepCases(p)
  BY NextCases
<1> USE DEF OneMaster, Worker, Supervises
<1>2. CASE Fork(p)
  BY <1>2, ForkEffect
<1>3. CASE Record(p)
  BY <1>3, RecordEffect
<1>4. CASE Forward(p)
  BY <1>4 DEF Forward
<1>5. CASE SlotsDone(p)
  BY <1>5 DEF SlotsDone, ProcessesOK
<1>6. CASE End(p)
  BY <1>6 DEF End, ProcessesOK
<1>7. ASSUME NEW c \in Pids, Wait(p, c) PROVE OneMaster'
  BY <1>7 DEF Wait, ProcessesOK
<1>8. CASE Dispatch(p)
  BY <1>8 DEF Dispatch, ProcessesOK
<1>9. ~ConnectFails(p)
  BY DEF ConnectFails, Fault
<1>10. QED
  BY <1>1, <1>2, <1>3, <1>4, <1>5, <1>6, <1>7, <1>8, <1>9 DEF StepCases

LEMMA OneWorkerStep ==
    ASSUME "connect_fails" \notin Faults, ConnectNum = 1,
           ProcessesOK, ChildrenInv, OneMaster, OneWorkerPerSlot, Next
    PROVE  OneWorkerPerSlot'
<1>1. PICK p \in Pids : StepCases(p)
  BY NextCases
<1>2. Slots = Producers
  BY SupervisorAssumption DEF Slots
<1> USE DEF OneWorkerPerSlot, Worker
<1>3. CASE Fork(p)
  <2>1. p = Master /\ pc[p] = "slots"
    BY <1>3, ForkEffect DEF OneMaster, Supervises
  <2>2. ASSUME NEW w \in Pids, Worker(w) PROVE index[w] # index[p]
    <3>1. parent[w] = p /\ index[w] < Producers /\ index[w] \in 0..Slots
      BY <1>2, <2>1, <2>2 DEF OneMaster, ProcessesOK
    <3>2. CASE loop[p] = "start"
      BY <2>1, <2>2, <3>1, <3>2 DEF ChildrenInv, SlotIsFree, ProcessesOK
    <3>3. CASE loop[p] = "reload"
      <4>1. arg_arr[p][index[p]] = ret_pid[p] /\ pc[ret_pid[p]] = "reaped"
        BY <1>3, <3>3, ForkEffect DEF ChildrenInv, DeadIsReaped
      <4>2. arg_arr[p][index[w]] = w
        BY <2>1, <2>2, <3>1 DEF ChildrenInv, ChildrenRecorded, Supervises
      <4>3. QED
        BY <2>2, <4>1, <4>2
    <3>4. QED
      BY <3>2, <3>3 DEF ProcessesOK
  <2>3. QED
    BY <1>3, <2>2, ForkEffect
<1>4. CASE Record(p)
  BY <1>4, RecordEffect
<1>5. CASE Forward(p)
  BY <1>5 DEF Forward, ProcessesOK
<1>6. CASE SlotsDone(p)
  BY <1>6 DEF SlotsDone, ProcessesOK, place
<1>7. CASE End(p)
  BY <1>7 DEF End, ProcessesOK, place
<1>8. ASSUME NEW c \in Pids, Wait(p, c) PROVE OneWorkerPerSlot'
  BY <1>8 DEF Wait, ProcessesOK
<1>9. CASE Dispatch(p)
  BY <1>9 DEF Dispatch, ProcessesOK, place
<1>10. ~ConnectFails(p)
  BY DEF ConnectFails, Fault
<1>11. QED
  BY <1>1, <1>3, <1>4, <1>5, <1>6, <1>7, <1>8, <1>9, <1>10 DEF StepCases

(* As long as no connection fails to start, whatever dies and whenever, a  *)
(* slot has at most one worker (nsq.c:497-503).                            *)
THEOREM SlotsAreExclusive ==
    "connect_fails" \notin Faults /\ ConnectNum = 1 => (Spec => []OneWorkerPerSlot)
<1> SUFFICES ASSUME "connect_fails" \notin Faults, ConnectNum = 1
             PROVE  Spec => []OneWorkerPerSlot
  OBVIOUS
<1> DEFINE Inv == ChildrenInv /\ OneMaster /\ OneWorkerPerSlot
<1>1. Init => Inv
  <2>1. Init => OneMaster /\ OneWorkerPerSlot
    BY DEF Init, OneMaster, OneWorkerPerSlot, Worker, Supervises
  <2>2. QED
    BY <2>1, ChildrenInit
<1>2. TypeOK => ProcessesOK
  BY DEF TypeOK, ProcessesOK
<1>3. Inv /\ UNCHANGED vars => Inv'
  BY DEF Inv, ChildrenInv, Childless, NewbornsSlot, SlotIsFree, DeadIsReaped, ChildrenRecorded,
         OneMaster, OneWorkerPerSlot, vars, place, tables, Worker, Supervises
<1>4. TypeOK /\ Inv /\ [Next]_vars => Inv'
  BY <1>2, <1>3, ChildrenStep, OneMasterStep, OneWorkerStep
<1>5. Inv => OneWorkerPerSlot
  OBVIOUS
<1> HIDE DEF Inv
<1>6. QED
  BY <1>1, <1>4, <1>5, TypeCorrect, PTL DEF Spec, Safety
=============================================================================
