----------------------------- MODULE Supervisor -----------------------------
(***************************************************************************)
(* The process management of Nsq::subscribe (nsq.c:252-513).  The master   *)
(* forks one worker for each slot, a slot being one of connect_num         *)
(* connections to one of the producers, and then waits for children: the   *)
(* slot of a dead one is filled again.  SIGTERM makes it kill the children *)
(* it has in child_fd.                                                     *)
(*                                                                         *)
(* fork() copies everything: a worker has its parent's tables and its      *)
(* place in the parent's loop, and when subscribe() returns in it, because *)
(* the connection could not even be started, it goes on from there as a    *)
(* second master.  So every process has every variable here.               *)
(***************************************************************************)
EXTENDS Integers, FiniteSets

CONSTANTS
    Producers,    \* nsqds lookupd has for the topic
    ConnectNum,   \* config "connect_num"
    MaxProcs,     \* bound: processes in the run
    Faults,       \* kinds of fault that may happen
    MaxFaults     \* bound: faults in the run

ASSUME SupervisorAssumption ==
    /\ Producers \in Nat \ {0} /\ ConnectNum \in Nat \ {0}
    /\ MaxProcs \in Nat \ {0} /\ MaxFaults \in Nat
    /\ Faults \subseteq {"exit", "connect_fails", "fork_fails", "term", "term_outside_fork"}

VARIABLES
    pc,         \* "unused"; "slots", "forked", "wait" (masters);
                \* "subscribe", "dispatch" (workers); "zombie", "reaped"
    parent,     \* who forked it
    loop,       \* the loop over the slots it is in: "start" or "reload"
    index,      \* the slot that loop is at; of a worker, its slot
    ret_pid,    \* the dead child the reload loop looks for
    newborn,    \* the child fork() has just returned
    arg_arr,    \* the worker of each slot
    child_fd,   \* every child ever recorded
    master,     \* the process that took itself for the master, 0 before is_init
    lastPid,    \* process ids 1..lastPid have been used
    sigterm,    \* processes SIGTERM has been sent to
    faults      \* faults left

place == <<loop, index, ret_pid, newborn>>
tables == <<arg_arr, child_fd, master>>
vars == <<pc, parent, place, tables, lastPid, sigterm, faults>>

Slots == Producers * ConnectNum
Slot == 0..Slots - 1
Pids == 1..MaxProcs
NoPid == 0
Master == 1

Worker(p) == pc[p] \in {"subscribe", "dispatch"}
Supervises(p) == pc[p] \in {"slots", "forked", "wait"}
Alive(p) == Worker(p) \/ Supervises(p)

Fault(kind) == kind \in Faults /\ faults > 0 /\ faults' = faults - 1

Init ==
    /\ pc = [p \in Pids |-> IF p = Master THEN "slots" ELSE "unused"]
    /\ parent = [p \in Pids |-> NoPid]
    /\ loop = [p \in Pids |-> "start"]
    /\ index = [p \in Pids |-> 0]
    /\ ret_pid = [p \in Pids |-> NoPid]
    /\ newborn = [p \in Pids |-> NoPid]
    /\ arg_arr = [p \in Pids |-> [k \in Slot |-> NoPid]]
    /\ child_fd = [p \in Pids |-> {}]
    /\ master = [p \in Pids |-> NoPid]
    /\ lastPid = Master /\ sigterm = {} /\ faults = MaxFaults

-----------------------------------------------------------------------------
(* start_worker_process *)

(* Slip: the reload loop does not look whose slot it is. *)
WantedAlways(p) == pc[p] = "slots" /\ index[p] < Slots

(* The first loop forks for every slot, the reload loop for the slot whose *)
(* worker has died.                                                        *)
Wanted(p) ==
    /\ pc[p] = "slots" /\ index[p] < Slots
    /\ loop[p] = "reload" => arg_arr[p][index[p]] = ret_pid[p]

Copied(f, p, c) == [f EXCEPT ![c] = f[p]]

Fork(p) ==
    /\ Wanted(p)
    /\ lastPid < MaxProcs
    /\ lastPid' = lastPid + 1
    /\ pc' = [pc EXCEPT ![p] = "forked", ![lastPid + 1] = "subscribe"]
    /\ parent' = [parent EXCEPT ![lastPid + 1] = p]
    /\ newborn' = [newborn EXCEPT ![p] = lastPid + 1]
    /\ loop' = Copied(loop, p, lastPid + 1)
    /\ index' = Copied(index, p, lastPid + 1)
    /\ ret_pid' = Copied(ret_pid, p, lastPid + 1)
    /\ arg_arr' = Copied(arg_arr, p, lastPid + 1)
    /\ child_fd' = Copied(child_fd, p, lastPid + 1)
    /\ master' = Copied(master, p, lastPid + 1)
    /\ UNCHANGED <<sigterm, faults>>

(* fork() returned -1: neither branch is taken. *)
ForkFails(p) ==
    /\ Wanted(p)
    /\ Fault("fork_fails")
    /\ index' = [index EXCEPT ![p] = @ + 1]
    /\ UNCHANGED <<pc, parent, loop, ret_pid, newborn, tables, lastPid, sigterm>>

(* arg_arr has one entry for each producer.  A slot beyond is written past *)
(* its end, into whatever the heap has there, and may not read back.       *)
Stored(k, c) == IF k < Producers THEN {c} ELSE {c, NoPid}

(* Slip: the child is not put into child_fd. *)
RecordOnlySlot(p) ==
    /\ pc[p] = "forked"
    /\ master' = [master EXCEPT ![p] = IF @ = NoPid THEN p ELSE @]
    /\ \E c \in Stored(index[p], newborn[p]) : arg_arr' = [arg_arr EXCEPT ![p][index[p]] = c]
    /\ index' = [index EXCEPT ![p] = @ + 1]
    /\ pc' = [pc EXCEPT ![p] = "slots"]
    /\ UNCHANGED <<parent, loop, ret_pid, newborn, child_fd, lastPid, sigterm, faults>>

(* The parent's half.  The first time, the handlers are installed too. *)
Record(p) ==
    /\ pc[p] = "forked"
    /\ master' = [master EXCEPT ![p] = IF @ = NoPid THEN p ELSE @]
    /\ \E c \in Stored(index[p], newborn[p]) : arg_arr' = [arg_arr EXCEPT ![p][index[p]] = c]
    /\ child_fd' = [child_fd EXCEPT ![p] = @ \cup {newborn[p]}]
    /\ index' = [index EXCEPT ![p] = @ + 1]
    /\ pc' = [pc EXCEPT ![p] = "slots"]
    /\ UNCHANGED <<parent, loop, ret_pid, newborn, lastPid, sigterm, faults>>

-----------------------------------------------------------------------------
(* subscribe: the rest of the two loops over the slots, and wait() *)

(* The reload loop passes a slot whose worker is another. *)
Pass(p) ==
    /\ pc[p] = "slots" /\ index[p] < Slots
    /\ ~Wanted(p)
    /\ index' = [index EXCEPT ![p] = @ + 1]
    /\ UNCHANGED <<pc, parent, loop, ret_pid, newborn, tables, lastPid, sigterm, faults>>

SlotsDone(p) ==
    /\ pc[p] = "slots" /\ index[p] = Slots
    /\ pc' = [pc EXCEPT ![p] = "wait"]
    /\ UNCHANGED <<parent, place, tables, lastPid, sigterm, faults>>

(* Slip: the reload loop starts at the second slot. *)
WaitSkipsFirst(p, c) ==
    /\ pc[p] = "wait"
    /\ pc[c] = "zombie" /\ parent[c] = p
    /\ pc' = [pc EXCEPT ![p] = "slots", ![c] = "reaped"]
    /\ loop' = [loop EXCEPT ![p] = "reload"]
    /\ index' = [index EXCEPT ![p] = 1]
    /\ ret_pid' = [ret_pid EXCEPT ![p] = c]
    /\ UNCHANGED <<parent, newborn, tables, lastPid, sigterm, faults>>

Wait(p, c) ==
    /\ pc[p] = "wait"
    /\ pc[c] = "zombie" /\ parent[c] = p
    /\ pc' = [pc EXCEPT ![p] = "slots", ![c] = "reaped"]
    /\ loop' = [loop EXCEPT ![p] = "reload"]
    /\ index' = [index EXCEPT ![p] = 0]
    /\ ret_pid' = [ret_pid EXCEPT ![p] = c]
    /\ UNCHANGED <<parent, newborn, tables, lastPid, sigterm, faults>>

(* wait() has no child to wait for: the loop breaks, the script ends. *)
Leave(p) ==
    /\ pc[p] = "wait"
    /\ \A c \in Pids : parent[c] = p => pc[c] = "reaped"
    /\ pc' = [pc EXCEPT ![p] = "zombie"]
    /\ UNCHANGED <<parent, place, tables, lastPid, sigterm, faults>>

-----------------------------------------------------------------------------
(* The workers *)

Dispatch(w) ==
    /\ pc[w] = "subscribe"
    /\ pc' = [pc EXCEPT ![w] = "dispatch"]
    /\ UNCHANGED <<parent, place, tables, lastPid, sigterm, faults>>

(* The connection cannot be started (sub.c:240-243): subscribe() returns   *)
(* into the loop of the parent's that forked the worker.                   *)
ConnectFails(w) ==
    /\ pc[w] = "subscribe"
    /\ Fault("connect_fails")
    /\ pc' = [pc EXCEPT ![w] = "slots"]
    /\ index' = [index EXCEPT ![w] = @ + 1]
    /\ UNCHANGED <<parent, loop, ret_pid, newborn, tables, lastPid, sigterm>>

(* exit(1), for a host that does not resolve (sub.c:214), or a crash. *)
WorkerExits(w) ==
    /\ Worker(w)
    /\ Fault("exit")
    /\ pc' = [pc EXCEPT ![w] = "zombie"]
    /\ UNCHANGED <<parent, place, tables, lastPid, sigterm>>

-----------------------------------------------------------------------------
(* SIGTERM *)

(* Slip: the master exits first. *)
KilledAlone(p) ==
    /\ pc' = [pc EXCEPT ![p] = "zombie"]
    /\ sigterm' = sigterm \ {p}
    /\ UNCHANGED <<parent, place, tables, lastPid>>

(* Before the handlers are installed, and so in the first worker, it is    *)
(* the end of the process.  After, signal_handle exits too, and in the     *)
(* process that `master` names it first kills its children.                *)
Killed(p) ==
    /\ pc' = [pc EXCEPT ![p] = "zombie"]
    /\ sigterm' = (sigterm \ {p}) \cup
                      (IF master[p] = p THEN {c \in child_fd[p] : Alive(c)} ELSE {})
    /\ UNCHANGED <<parent, place, tables, lastPid>>

(* Between fork() and its return into child_fd a signal is taken as it     *)
(* comes, unless the SIGTERMs of this run are those that meet no process   *)
(* there.                                                                  *)
Interruptible(p) == pc[p] = "forked" => "term" \in Faults

signal_handle(p) ==
    /\ p \in sigterm /\ Alive(p) /\ Interruptible(p)
    /\ Killed(p)
    /\ UNCHANGED faults

(* The user ends the master. *)
Terminate ==
    /\ Alive(Master) /\ Interruptible(Master)
    /\ \E kind \in {"term", "term_outside_fork"} : Fault(kind)
    /\ Killed(Master)

-----------------------------------------------------------------------------
Step(p) ==
    \/ Fork(p) \/ Record(p) \/ Pass(p) \/ SlotsDone(p) \/ Leave(p)
    \/ \E c \in Pids : Wait(p, c)
    \/ Dispatch(p)
    \/ signal_handle(p)

Next ==
    \/ \E p \in Pids : Step(p) \/ ForkFails(p) \/ ConnectFails(p) \/ WorkerExits(p)
    \/ Terminate

(* The kernel runs every process that can run and delivers every signal; a *)
(* connection attempt succeeds or fails.                                   *)
Fairness == \A p \in Pids : WF_vars(Step(p))

Safety == Init /\ [][Next]_vars
Spec == Safety /\ Fairness

-----------------------------------------------------------------------------
(* Properties *)

TypeOK ==
    /\ pc \in [Pids -> {"unused", "slots", "forked", "wait", "subscribe", "dispatch",
                        "zombie", "reaped"}]
    /\ parent \in [Pids -> Pids \cup {NoPid}]
    /\ loop \in [Pids -> {"start", "reload"}]
    /\ index \in [Pids -> 0..Slots]
    /\ ret_pid \in [Pids -> Pids \cup {NoPid}]
    /\ newborn \in [Pids -> Pids \cup {NoPid}]
    /\ arg_arr \in [Pids -> [Slot -> Pids \cup {NoPid}]]
    /\ child_fd \in [Pids -> SUBSET Pids]
    /\ master \in [Pids -> Pids \cup {NoPid}]
    /\ lastPid \in Pids /\ sigterm \in SUBSET Pids /\ faults \in 0..MaxFaults
    (* whose process ids are used, and where a process is in its loop *)
    /\ \A p \in Pids : pc[p] = "unused" <=> p > lastPid
    /\ \A p \in Pids : Worker(p) \/ pc[p] = "forked" => index[p] < Slots
    /\ \A p \in Pids : pc[p] = "forked" => newborn[p] # NoPid

(* What restarting and killing rest on (nsq.c:281-285): a child of a       *)
(* process that supervises, from the moment start_worker_process returns   *)
(* to the moment it is reaped, is in child_fd, and arg_arr names it as the *)
(* worker of its slot as long as it is one and the entry is inside the     *)
(* allocation.                                                             *)
ChildrenRecorded ==
    \A p, c \in Pids :
        /\ Supervises(p) /\ parent[c] = p /\ pc[c] \notin {"unused", "reaped"}
        /\ ~(pc[p] = "forked" /\ newborn[p] = c)
        => /\ c \in child_fd[p]
           /\ Worker(c) /\ index[c] < Producers => arg_arr[p][index[c]] = c

(* No slot ever has two workers: each would take rdy messages for itself.  *)
OneWorkerPerSlot ==
    \A v, w \in Pids : Worker(v) /\ Worker(w) /\ index[v] = index[w] => v = w

(* README.md:204: "When the child process exits abnormally, it will pull   *)
(* up a new child process".                                                *)
Staffed(k) == \E w \in Pids : pc[w] = "dispatch" /\ index[w] = k
EverySlotStaffed ==
    \A k \in Slot : Alive(Master) /\ ~Staffed(k) ~> Staffed(k) \/ ~Alive(Master)

(* README.md:205: "When the master process exits, all child processes also *)
(* exit".                                                                  *)
NoOrphans == ~Alive(Master) ~> \A p \in Pids : ~Alive(p)

(* nsq.c:252-288, signal_handle and child_fd: whenever SIGTERM             *)
(* comes, in the middle of a fork too, the one process the master can      *)
(* leave behind is the child it has forked and not yet put into child_fd.  *)
OnlyNewbornLeft ==
    ~Alive(Master) ~> \A p \in Pids :
        Alive(p) => p = newborn[Master] /\ p \notin child_fd[Master]
=============================================================================
