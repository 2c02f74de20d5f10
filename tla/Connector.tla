------------------------------ MODULE Connector ------------------------------
(***************************************************************************)
(* The Nsq objects of a publishing script: connectNsqd() fills the property *)
(* nsqd_connection_fds, publish() draws a socket from it and               *)
(* closeNsqdConnection() sets it back to NULL.  The process has one table  *)
(* of file descriptors, and a descriptor closed is the next one given out. *)
(* send_identify() is Identify's, what publish() does on a socket is       *)
(* Publisher's.  nsqd, the operating system and the script are external:   *)
(* a script goes by what connectNsqd() has returned, or it does not.       *)
(***************************************************************************)
EXTENDS Integers, FiniteSets, SequencesExt

CONSTANTS
    Object, Address,
    Lists,         \* what connectNsqd() is given
    MaxFd,         \* descriptors the process may have
    Hazards,       \* what may happen beyond the well-behaved case
    Nobody         \* no address, no object

Fd == 1..MaxFd

ASSUME ConnectorAssumption ==
    /\ MaxFd \in Nat /\ IsFiniteSet(Object)
    /\ Lists \subseteq Seq(Address)
    /\ Nobody \notin Address \cup Object
    /\ Hazards \subseteq {"nsqd_down", "silent", "reconnect", "unchecked", "after_close", "no_address"}

VARIABLES
    hazards, conn_timeout,    \* fixed in a behaviour: none, one or all; is there a timeout
    fds, isnull,  \* the property: its array, freed or not, and whether it is NULL
    told,         \* history: connectNsqd() last returned true, and no close since
    open, peer, live,   \* descriptors: open, connected to, and to a running nsqd
    up,           \* addresses where an nsqd listens
    pc, self, asked, sock_arr, timeout,    \* connectNsqd(), connect_nsqd()
    result,       \* of the connectNsqd(asked) of self that has just returned
    published     \* the last publication

given == <<hazards, conn_timeout>>
property == <<fds, isnull, told>>
descriptors == <<open, peer, live>>
call == <<self, asked, sock_arr, timeout, result>>
vars == <<given, property, descriptors, up, pc, call, published>>

Free == Fd \ open
NewFd == CHOOSE f \in Free : \A g \in Free : f <= g

(* Whatever comes next, the result of connectNsqd() is a matter of the past. *)
NextCall ==
    /\ self' = Nobody /\ asked' = <<>> /\ result' = "none"
    /\ UNCHANGED <<sock_arr, timeout>>

Bool(b) == IF b THEN "true" ELSE "false"

-----------------------------------------------------------------------------
(* connectNsqd() *)

connectNsqd(o, addresses) ==
    /\ pc = "idle" /\ isnull[o]
    /\ addresses = <<>> => "no_address" \in hazards
    /\ pc' = "connect"
    /\ self' = o /\ asked' = addresses /\ result' = "none"
    /\ sock_arr' = <<>> /\ timeout' = conn_timeout
    /\ UNCHANGED <<given, property, descriptors, up, published>>

(* The property is not NULL: its descriptors are returned as they are, in  *)
(* an array with room for as many as there are addresses this time.        *)
ConnectAgain(o, addresses) ==
    /\ pc = "idle" /\ ~isnull[o] /\ "reconnect" \in hazards
    /\ self' = o /\ asked' = addresses
    /\ result' \in IF Len(addresses) > Len(fds[o]) THEN {"true", "false"} ELSE {"true"}
    /\ told' = [told EXCEPT ![o] = result' = "true"]
    /\ UNCHANGED <<given, fds, isnull, descriptors, up, pc, sock_arr, timeout, published>>

ConnectAgainOverflows(o, addresses) ==
    /\ pc = "idle" /\ ~isnull[o] /\ "reconnect" \in hazards
    /\ Len(addresses) < Len(fds[o])
    /\ pc' = "overrun" /\ NextCall
    /\ UNCHANGED <<given, property, descriptors, up, published>>

(* connect_config_arr points at the last address and is moved back. *)
Here == asked[Len(asked) - Len(sock_arr)]
Connecting == pc = "connect" /\ Len(sock_arr) < Len(asked)

(* SO_SNDTIMEO is taken off again, and the variable with it. *)
Connected ==
    /\ Connecting /\ Free # {} /\ Here \in up
    /\ open' = open \cup {NewFd} /\ live' = live \cup {NewFd}
    /\ peer' = [peer EXCEPT ![NewFd] = Here]
    /\ sock_arr' = Append(sock_arr, NewFd)
    /\ timeout' = FALSE
    /\ UNCHANGED <<given, property, up, pc, self, asked, result, published>>

(* Slip: the timeout is taken off after a connect() that failed, too. *)
FailedForgetsTimeout ==
    /\ open' = IF Free = {} THEN open ELSE open \cup {NewFd}
    /\ sock_arr' = Append(sock_arr, 0)
    /\ pc' = "connect" /\ timeout' = FALSE
    /\ UNCHANGED <<given, property, peer, live, up, self, asked, result, published>>

(* connect() returned -1; so it does if socket() has.  The socket stays.   *)
Failed ==
    /\ open' = IF Free = {} THEN open ELSE open \cup {NewFd}
    /\ sock_arr' = Append(sock_arr, 0)
    /\ pc' = "connect"
    /\ UNCHANGED <<given, property, peer, live, up, self, asked, timeout, result, published>>

Refused == Connecting /\ (Here \notin up \/ Free = {}) /\ Failed
TimesOut == Connecting /\ "silent" \in hazards /\ timeout /\ Failed
KernelTimesOut == pc = "waiting" /\ Failed

Waits ==
    /\ Connecting /\ "silent" \in hazards /\ ~timeout /\ Free # {}
    /\ pc' = "waiting"
    /\ UNCHANGED <<given, property, descriptors, up, call, published>>

(* gethostbyname() knows no such host: exit(1). *)
Unresolved ==
    /\ Connecting
    /\ pc' = "exited"
    /\ UNCHANGED <<given, property, descriptors, up, call, published>>

(* Slip: the property takes the sockets there are. *)
ConnectDoneWithSome ==
    /\ pc = "connect" /\ Len(sock_arr) = Len(asked)
    /\ LET some == SelectSeq(sock_arr, LAMBDA s : s > 0) IN
        /\ fds' = [fds EXCEPT ![self] = some]
        /\ isnull' = [isnull EXCEPT ![self] = some = <<>>]
        /\ told' = [told EXCEPT ![self] = some # <<>>]
        /\ result' = Bool(some # <<>>)
    /\ pc' = "idle" /\ sock_arr' = <<>> /\ timeout' = FALSE
    /\ UNCHANGED <<given, descriptors, up, self, asked, published>>

(* Slip: true is returned for one socket that is connected. *)
ConnectDoneTrueForSome ==
    /\ pc = "connect" /\ Len(sock_arr) = Len(asked)
    /\ LET whole == \A i \in DOMAIN sock_arr : sock_arr[i] > 0
           some == whole \/ \E i \in DOMAIN sock_arr : sock_arr[i] > 0 IN
        /\ fds' = IF whole THEN [fds EXCEPT ![self] = sock_arr] ELSE fds
        /\ isnull' = IF whole THEN [isnull EXCEPT ![self] = FALSE] ELSE isnull
        /\ told' = [told EXCEPT ![self] = some]
        /\ result' = Bool(some)
    /\ pc' = "idle" /\ sock_arr' = <<>> /\ timeout' = FALSE
    /\ UNCHANGED <<given, descriptors, up, self, asked, published>>

(* The property takes all the sockets, or none. *)
ConnectDone ==
    /\ pc = "connect" /\ Len(sock_arr) = Len(asked)
    /\ LET whole == \A i \in DOMAIN sock_arr : sock_arr[i] > 0 IN
        /\ fds' = IF whole THEN [fds EXCEPT ![self] = sock_arr] ELSE fds
        /\ isnull' = IF whole THEN [isnull EXCEPT ![self] = FALSE] ELSE isnull
        /\ told' = [told EXCEPT ![self] = whole]
        /\ result' = Bool(whole)
    /\ pc' = "idle" /\ sock_arr' = <<>> /\ timeout' = FALSE
    /\ UNCHANGED <<given, descriptors, up, self, asked, published>>

-----------------------------------------------------------------------------
(* closeNsqdConnection(), publish() and deferredPublish().  None of them   *)
(* looks whether the property is NULL: that is the script's care, which    *)
(* may leave alone an object connectNsqd() has not returned true for.      *)

Uses(o) ==
    /\ pc = "idle"
    /\ told[o] \/ hazards \cap {"unchecked", "after_close"} # {}

(* ZVAL_NULL leaves the pointer to the freed array where Z_ARRVAL_P finds  *)
(* it: a call after closeNsqdConnection() may meet the array as it was.    *)
HasArray(o) == Uses(o) /\ (isnull[o] => fds[o] # <<>>)

Close(o, closed) ==
    /\ open' = open \ closed /\ live' = live \ closed
    /\ peer' = [f \in Fd |-> IF f \in closed THEN Nobody ELSE peer[f]]
    /\ isnull' = [isnull EXCEPT ![o] = TRUE] /\ told' = [told EXCEPT ![o] = FALSE]
    /\ fds' = IF "after_close" \in hazards THEN fds ELSE [fds EXCEPT ![o] = <<>>]
    /\ NextCall
    /\ UNCHANGED <<given, up, pc, published>>

(* Slips: the last socket is left open; the property is not set to NULL.   *)
closeNsqdConnectionButLast(o) == HasArray(o) /\ fds[o] # <<>> /\ Close(o, ToSet(Front(fds[o])))
closeNsqdConnectionKeepsArray(o) ==
    /\ HasArray(o)
    /\ open' = open \ ToSet(fds[o]) /\ live' = live \ ToSet(fds[o])
    /\ peer' = [f \in Fd |-> IF f \in ToSet(fds[o]) THEN Nobody ELSE peer[f]]
    /\ told' = [told EXCEPT ![o] = FALSE]
    /\ NextCall
    /\ UNCHANGED <<given, fds, isnull, up, pc, published>>

closeNsqdConnection(o) == HasArray(o) /\ Close(o, ToSet(fds[o]))

(* A running nsqd may take the message or not; where there is none any     *)
(* more "Pub lost connection" is thrown; read() on no socket is -1 for ever. *)
publish(o) ==
    /\ HasArray(o)
    /\ \E f \in ToSet(fds[o]) :
        \/ f \in live /\ published' = <<o, peer[f]>> /\ pc' = pc
        \/ f \in open /\ published' = published /\ pc' = pc
        \/ f \notin open /\ published' = published /\ pc' = "looping"
    /\ NextCall
    /\ UNCHANGED <<given, property, descriptors, up>>

(* Z_ARRVAL_P of a property that is NULL; "Unable to publish message" is   *)
(* thrown on an empty array, and then rand() % 0 computed.                 *)
Crash(o) ==
    /\ Uses(o)
    /\ isnull[o] \/ fds[o] = <<>>
    /\ pc' = "crashed" /\ NextCall
    /\ UNCHANGED <<given, property, descriptors, up, published>>

-----------------------------------------------------------------------------
(* An nsqd ends, and its connections with it; it starts again.  In the     *)
(* middle of connectNsqd() that is a refused connection, or Identify's.    *)
NsqdStops(a) ==
    /\ pc = "idle" /\ "nsqd_down" \in hazards /\ a \in up
    /\ up' = up \ {a}
    /\ live' = {f \in live : peer[f] # a}
    /\ NextCall
    /\ UNCHANGED <<given, property, open, peer, pc, published>>

NsqdStarts(a) ==
    /\ pc = "idle" /\ a \notin up
    /\ up' = up \cup {a}
    /\ NextCall
    /\ UNCHANGED <<given, property, descriptors, pc, published>>

Init ==
    /\ hazards \in {{}, Hazards} \cup {{h} : h \in Hazards} /\ conn_timeout \in BOOLEAN
    /\ fds = [o \in Object |-> <<>>] /\ isnull = [o \in Object |-> TRUE]
    /\ told = [o \in Object |-> FALSE]
    /\ open = {} /\ peer = [f \in Fd |-> Nobody] /\ live = {} /\ up = Address
    /\ pc = "idle" /\ self = Nobody /\ asked = <<>> /\ sock_arr = <<>> /\ timeout = FALSE
    /\ result = "none" /\ published = <<Nobody, Nobody>>

Next ==
    \/ \E o \in Object, addresses \in Lists :
        \/ connectNsqd(o, addresses)
        \/ ConnectAgain(o, addresses) \/ ConnectAgainOverflows(o, addresses)
    \/ Connected \/ Refused \/ TimesOut \/ Waits \/ KernelTimesOut \/ Unresolved \/ ConnectDone
    \/ \E o \in Object : closeNsqdConnection(o) \/ publish(o) \/ Crash(o)
    \/ \E a \in Address : NsqdStops(a) \/ NsqdStarts(a)

Spec == Init /\ [][Next]_vars

-----------------------------------------------------------------------------
(* Properties *)

TypeOK ==
    /\ hazards \subseteq Hazards /\ conn_timeout \in BOOLEAN
    /\ fds \in [Object -> Seq(Fd)] /\ isnull \in [Object -> BOOLEAN]
    /\ told \in [Object -> BOOLEAN]
    /\ live \subseteq open /\ open \subseteq Fd
    /\ peer \in [Fd -> Address \cup {Nobody}] /\ up \subseteq Address
    /\ pc \in {"idle", "connect", "waiting", "exited", "overrun", "crashed", "looping"}
    /\ self \in Object \cup {Nobody} /\ asked \in Seq(Address)
    /\ sock_arr \in Seq(Fd \cup {0}) /\ Len(sock_arr) <= Len(asked)
    /\ timeout \in BOOLEAN

Pooled(o) == IF isnull[o] THEN {} ELSE ToSet(fds[o])
Underway == ToSet(sock_arr) \ {0}

(* pub.c:137-150: whatever connects failed and nsqds went away, the        *)
(* sockets of a property are open, and nobody else's: not another          *)
(* object's, nor those of a connect_nsqd() that is under way.              *)
PoolIsOpen ==
    \A o \in Object :
        /\ Pooled(o) \subseteq open \ Underway
        /\ \A f \in Pooled(o) : peer[f] # Nobody
        /\ \A p \in Object \ {o} : Pooled(o) \cap Pooled(p) = {}

(* nsq.c:179, pub.c:111: as long as no connect() fails and descriptors do  *)
(* not run out, every open socket is in a property, or about to be, so     *)
(* that closing can reach it.                                              *)
Enough == \A addresses \in Lists : Cardinality(Object) * Len(addresses) <= MaxFd
NoSocketLost ==
    Enough /\ hazards \cap {"nsqd_down", "silent"} = {} =>
        open \subseteq Underway \cup UNION {Pooled(o) : o \in Object}

(* nsq.c:149: connectNsqd() returns true only if the object now has a      *)
(* socket for each address it was given, unless it had some before.        *)
TrueMeansConnected ==
    "reconnect" \notin hazards /\ result = "true" =>
        /\ {peer[f] : f \in Pooled(self)} = ToSet(asked)
        /\ Cardinality(Pooled(self)) = Len(asked)

(* pub.c:119-123: with a conn_timeout, connect() waits without one only    *)
(* for the addresses that come after one that has been connected, however  *)
(* many have failed before.                                                *)
WaitsAreLate == conn_timeout /\ pc = "waiting" => Underway # {}

(* nsq.c:137-249: a script that calls publish() and closeNsqdConnection()  *)
(* only on an object connectNsqd() has last returned true for neither      *)
(* crashes in them nor spins there on a closed descriptor, whatever        *)
(* connects have failed, on whatever object, and nsqds have stopped, and   *)
(* however often it has connected.                                         *)
CallsSurvive ==
    hazards \cap {"unchecked", "after_close", "no_address"} = {} => pc \notin {"crashed", "looping"}

(* NsqdPool, with the addresses a property's sockets are connected to.     *)
Pool == INSTANCE NsqdPool WITH
    pool <- [o \in Object |-> {peer[f] : f \in Pooled(o)}],
    Requests <- {ToSet(addresses) : addresses \in Lists},
    Nothing <- <<Nobody, Nobody>>

(* connectNsqd() is all or nothing, and publish() reaches an nsqd of this  *)
(* object: even with two objects whose descriptors have the same numbers.  *)
ImplementsNsqdPool == Pool!Spec

(* README.md, "connectNsqd [...] You can also use it for health check":    *)
(* true means that an nsqd is there.                                       *)
HealthCheck ==
    result = "true" /\ asked # <<>> => Pooled(self) \cap live # {}

(* README.md:40-45, the first example, publishes without a look at what    *)
(* connectNsqd() has returned: when that is false, it does not crash.      *)
ExampleSurvives == [][result = "false" => pc' # "crashed"]_vars

(* README.md, "conn_timeout [...] connection timeout for connectNsqd() in  *)
(* milliseconds": with one configured, no connect() waits without.         *)
ConnectBounded == conn_timeout => pc # "waiting"
=============================================================================
