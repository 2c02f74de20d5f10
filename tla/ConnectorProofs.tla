--------------------------- MODULE ConnectorProofs ---------------------------
(***************************************************************************)
(* The sockets of an Nsq object are open and its own, and connecting is    *)
(* all or nothing: for any objects, addresses and number of descriptors,   *)
(* whatever connects fail and nsqds stop.  A property that is NULL has no  *)
(* array here: what a call after closeNsqdConnection() finds of it is left *)
(* out.                                                                    *)
(***************************************************************************)
EXTENDS Connector, FiniteSetTheorems, WellFoundedInduction, TLAPS

Calling == pc \in {"connect", "waiting"}

(* A connectNsqd() that is under way, for an object that has nothing yet:  *)
(* its sockets are connected to the addresses from the last one on.        *)
CallOK ==
    /\ pc = "idle" => sock_arr = <<>>
    /\ Calling => self \in Object /\ isnull[self] /\ asked \in Lists
    /\ Calling /\ asked = <<>> => "no_address" \in hazards
    /\ pc = "waiting" => Len(sock_arr) < Len(asked)

SocketsOK ==
    \A i \in 1..Len(sock_arr) : sock_arr[i] # 0 =>
        sock_arr[i] \in open /\ peer[sock_arr[i]] = asked[Len(asked) + 1 - i]

(* The timeout is gone only once an address has been connected to. *)
TimeoutOK == conn_timeout /\ Calling /\ ~timeout => Underway # {}

(* Only a list without addresses makes a property that is empty. *)
FilledOK == \A o \in Object : ~isnull[o] /\ fds[o] = <<>> => "no_address" \in hazards

(* A property that is NULL has no array, and nobody has been told that it  *)
(* is connected.                                                           *)
NullOK == \A o \in Object : isnull[o] => fds[o] = <<>> /\ ~told[o]

Inv ==
    /\ "after_close" \notin hazards
    /\ TypeOK /\ NullOK /\ CallOK /\ SocketsOK /\ TimeoutOK /\ FilledOK /\ PoolIsOpen /\ CallsSurvive

-----------------------------------------------------------------------------
(* There is a least one among them: the interval below it has none of the  *)
(* others inside.                                                          *)
LEMMA LeastExists ==
    ASSUME NEW S, S \subseteq Nat, S # {}
    PROVE  \E f \in S : \A g \in S : f <= g
<1> DEFINE T == {1..f : f \in S}
<1>1. T \subseteq FiniteSubsetsOf(Nat) /\ T # {}
  <2>1. \A f \in S : 1..f \in SUBSET Nat /\ IsFiniteSet(1..f)
    BY FS_Interval
  <2>2. QED
    BY <2>1 DEF FiniteSubsetsOf
<1>2. PICK x \in T : \A y \in T : ~(<<y, x>> \in StrictSubsetOrdering(Nat))
  <2>1. IsWellFoundedOn(StrictSubsetOrdering(Nat), FiniteSubsetsOf(Nat))
    BY FS_StrictSubsetOrderingWellFounded
  <2> HIDE DEF T
  <2>2. QED
    BY <1>1, <2>1, WFMin
<1>3. PICK f \in S : x = 1..f
  OBVIOUS
<1>4. ASSUME NEW g \in S, ~(f <= g) PROVE FALSE
  <2>1. 1..g \in T /\ 1..g \subseteq 1..f /\ f \in Nat /\ g \in Nat
    BY <1>4
  <2>2. f \in 1..f /\ f \notin 1..g
    BY <1>4, <2>1
  <2>3. <<1..g, x>> \in StrictSubsetOrdering(Nat)
    BY <1>3, <2>1, <2>2 DEF StrictSubsetOrdering
  <2>4. QED
    BY <1>2, <2>1, <2>3
<1>5. QED
  BY <1>4

(* The descriptor given out next is a free one. *)
LEMMA NewFdIsFree == Free # {} => NewFd \in Fd /\ NewFd \notin open
<1> SUFFICES ASSUME Free # {} PROVE NewFd \in Free
  BY DEF Free
<1>1. Free \subseteq Nat
  BY ConnectorAssumption DEF Free, Fd
<1>2. \E f \in Free : \A g \in Free : f <= g
  BY <1>1, LeastExists
<1>3. QED
  BY <1>2 DEF NewFd

(* Outside connectNsqd() nothing changes but what a call leaves behind, as *)
(* long as properties and descriptors stay.                                *)
LEMMA IdleStep ==
    ASSUME Inv, pc = "idle", pc' \in {"idle", "overrun", "crashed", "looping"}, CallsSurvive',
           UNCHANGED <<hazards, conn_timeout, fds, isnull, open, peer, sock_arr, timeout>>,
           told' \in [Object -> BOOLEAN], \A o \in Object : told'[o] => told[o] \/ ~isnull[o],
           live' \subseteq live, up' \subseteq Address,
           self' \in Object \cup {Nobody}, asked' \in Seq(Address)
    PROVE  Inv'
<1>1. sock_arr = <<>> /\ sock_arr' = <<>>
  BY DEF Inv, CallOK
<1>2. TypeOK'
  BY <1>1 DEF Inv, TypeOK
<1>3. CallOK' /\ SocketsOK' /\ TimeoutOK'
  BY <1>1 DEF CallOK, SocketsOK, TimeoutOK, Calling
<1>4. FilledOK' /\ NullOK'
  BY DEF Inv, FilledOK, NullOK
<1>5. PoolIsOpen'
  BY DEF Inv, PoolIsOpen, Pooled, Underway
<1>6. QED
  BY <1>2, <1>3, <1>4, <1>5 DEF Inv

LEMMA AgainStep ==
    ASSUME Inv, NEW o \in Object, NEW addresses \in Lists,
           ConnectAgain(o, addresses) \/ ConnectAgainOverflows(o, addresses)
    PROVE  Inv'
<1>1. addresses \in Seq(Address) /\ <<>> \in Seq(Address)
  BY ConnectorAssumption
<1>2. TypeOK
  BY DEF Inv
<1>3. CASE ConnectAgain(o, addresses)
  <2>1. CallsSurvive'
    BY <1>3 DEF Inv, CallsSurvive, ConnectAgain, given
  <2>2. told' \in [Object -> BOOLEAN] /\ \A p \in Object : told'[p] => told[p] \/ ~isnull[p]
    BY <1>2, <1>3 DEF ConnectAgain, TypeOK
  <2>3. QED
    BY <1>1, <1>2, <1>3, <2>1, <2>2, IdleStep DEF ConnectAgain, given, descriptors, TypeOK
<1>4. CASE ConnectAgainOverflows(o, addresses)
  <2>1. CallsSurvive'
    BY <1>4 DEF CallsSurvive, ConnectAgainOverflows, given
  <2>2. QED
    BY <1>1, <1>2, <1>4, <2>1, IdleStep DEF ConnectAgainOverflows, NextCall, given, property, descriptors, TypeOK
<1>5. QED
  BY <1>3, <1>4

(* publish() meets open sockets only, because the object owns them.        *)
LEMMA PublishMeetsOpen ==
    ASSUME Inv, NEW o \in Object, publish(o)
    PROVE  ~isnull[o] /\ Pooled(o) = ToSet(fds[o]) /\ Pooled(o) \subseteq open /\ pc = "idle" /\ pc' = "idle"
<1>1. ~isnull[o] /\ pc = "idle"
  BY DEF publish, HasArray, Uses, Inv, NullOK
<1>2. Pooled(o) = ToSet(fds[o]) /\ Pooled(o) \subseteq open
  BY <1>1 DEF Inv, PoolIsOpen, Pooled
<1>3. QED
  BY <1>1, <1>2 DEF publish

LEMMA UseStep ==
    ASSUME Inv, NEW o \in Object, publish(o) \/ Crash(o)
    PROVE  Inv'
<1>1. <<>> \in Seq(Address) /\ TypeOK /\ "after_close" \notin hazards
  BY DEF Inv
<1>2. CASE publish(o)
  <2>1. pc = "idle" /\ pc' = "idle"
    BY <1>2, PublishMeetsOpen
  <2>2. CallsSurvive'
    BY <2>1 DEF CallsSurvive
  <2>3. QED
    BY <1>1, <1>2, <2>1, <2>2, IdleStep DEF publish, NextCall, given, property, descriptors, TypeOK
<1>3. CASE Crash(o)
  <2>1. "no_address" \in hazards \/ "unchecked" \in hazards
    BY <1>1, <1>3 DEF Crash, Uses, Inv, FilledOK, NullOK
  <2>2. CallsSurvive'
    BY <1>3, <2>1 DEF CallsSurvive, Crash, given
  <2>3. QED
    BY <1>1, <1>3, <2>2, IdleStep DEF Crash, Uses, NextCall, given, property, descriptors, TypeOK
<1>4. QED
  BY <1>2, <1>3

LEMMA NsqdStep ==
    ASSUME Inv, NEW a \in Address, NsqdStops(a) \/ NsqdStarts(a)
    PROVE  Inv'
<1>1. TypeOK /\ <<>> \in Seq(Address)
  BY DEF Inv
<1>2. pc = "idle" /\ pc' = "idle" /\ live' \subseteq live /\ up' \subseteq Address
  BY <1>1 DEF NsqdStops, NsqdStarts, descriptors, TypeOK
<1>3. CallsSurvive'
  BY <1>2 DEF CallsSurvive
<1>4. told' = told /\ told \in [Object -> BOOLEAN]
  BY <1>1 DEF NsqdStops, NsqdStarts, property, TypeOK
<1>5. QED
  BY <1>1, <1>2, <1>3, <1>4, IdleStep DEF NsqdStops, NsqdStarts, NextCall, given, property, descriptors

-----------------------------------------------------------------------------
(* connectNsqd(), from the call to the return. *)

LEMMA CallStep ==
    ASSUME Inv, NEW o \in Object, NEW addresses \in Lists, connectNsqd(o, addresses)
    PROVE  Inv'
<1>1. /\ pc' = "connect" /\ self' = o /\ asked' = addresses /\ sock_arr' = <<>>
      /\ timeout' = conn_timeout /\ isnull[o] /\ (addresses = <<>> => "no_address" \in hazards)
      /\ UNCHANGED <<hazards, conn_timeout, fds, isnull, told, open, peer, live, up>>
  BY DEF connectNsqd, given, property, descriptors
<1>2. addresses \in Seq(Address)
  BY ConnectorAssumption
<1>3. TypeOK'
  <2>1. sock_arr' \in Seq(Fd \cup {0}) /\ Len(sock_arr') <= Len(asked')
    BY <1>1, <1>2
  <2>2. QED
    BY <1>1, <1>2, <2>1 DEF Inv, TypeOK
<1>4. CallOK' /\ SocketsOK' /\ TimeoutOK'
  BY <1>1 DEF CallOK, SocketsOK, TimeoutOK, Calling
<1>5. FilledOK' /\ NullOK' /\ CallsSurvive'
  BY <1>1 DEF Inv, FilledOK, NullOK, CallsSurvive
<1>6. PoolIsOpen'
  <2>1. Underway' = {}
    BY <1>1 DEF Underway, ToSet
  <2>2. QED
    BY <1>1, <2>1 DEF Inv, PoolIsOpen, Pooled
<1>7. QED
  BY <1>1, <1>3, <1>4, <1>5, <1>6 DEF Inv

LEMMA PauseStep ==
    ASSUME Inv, Waits \/ Unresolved
    PROVE  Inv'
<1>1. /\ pc = "connect" /\ pc' \in {"waiting", "exited"} /\ Len(sock_arr) < Len(asked)
      /\ (pc' = "waiting" => ~timeout)
      /\ UNCHANGED <<hazards, conn_timeout, fds, isnull, told, open, peer, live, up, self, asked, sock_arr, timeout>>
  BY DEF Waits, Unresolved, Connecting, given, property, descriptors, call
<1>2. TypeOK'
  BY <1>1 DEF Inv, TypeOK
<1>3. CallOK' /\ SocketsOK' /\ TimeoutOK'
  BY <1>1 DEF Inv, CallOK, SocketsOK, TimeoutOK, Calling, Underway
<1>4. FilledOK' /\ NullOK' /\ CallsSurvive' /\ PoolIsOpen'
  BY <1>1 DEF Inv, FilledOK, NullOK, CallsSurvive, PoolIsOpen, Pooled, Underway
<1>5. QED
  BY <1>1, <1>2, <1>3, <1>4 DEF Inv

(* What the next element of sock_arr adds to the sockets under way. *)
LEMMA OneMore ==
    ASSUME TypeOK, NEW s \in Fd \cup {0}, Len(sock_arr) < Len(asked), sock_arr' = Append(sock_arr, s)
    PROVE  /\ sock_arr' \in Seq(Fd \cup {0}) /\ Len(sock_arr') = Len(sock_arr) + 1
           /\ Len(sock_arr') <= Len(asked)
           /\ \A i \in 1..Len(sock_arr) : sock_arr'[i] = sock_arr[i]
           /\ sock_arr'[Len(sock_arr) + 1] = s
           /\ Underway' = Underway \cup ({s} \ {0})
<1>1. sock_arr \in Seq(Fd \cup {0}) /\ asked \in Seq(Address)
  BY DEF TypeOK
<1>2. /\ sock_arr' \in Seq(Fd \cup {0}) /\ Len(sock_arr') = Len(sock_arr) + 1
      /\ \A i \in 1..Len(sock_arr) : sock_arr'[i] = sock_arr[i]
      /\ sock_arr'[Len(sock_arr) + 1] = s
  BY <1>1
<1>3. Len(sock_arr') <= Len(asked)
  BY <1>1, <1>2
<1>4. ToSet(sock_arr') = ToSet(sock_arr) \cup {s}
  <2>1. DOMAIN sock_arr = 1..Len(sock_arr) /\ DOMAIN sock_arr' = 1..(Len(sock_arr) + 1) /\ Len(sock_arr) \in Nat
    BY <1>1, <1>2
  <2>2. DOMAIN sock_arr' = DOMAIN sock_arr \cup {Len(sock_arr) + 1}
    BY <2>1
  <2>3. QED
    BY <1>2, <2>1, <2>2 DEF ToSet
<1>5. QED
  BY <1>2, <1>3, <1>4 DEF Underway

LEMMA ConnectedStep ==
    ASSUME Inv, Connected
    PROVE  Inv'
<1>1. /\ pc = "connect" /\ pc' = pc /\ Len(sock_arr) < Len(asked) /\ Here \in up
      /\ open' = open \cup {NewFd} /\ live' = live \cup {NewFd}
      /\ peer' = [peer EXCEPT ![NewFd] = Here]
      /\ sock_arr' = Append(sock_arr, NewFd) /\ timeout' = FALSE
      /\ UNCHANGED <<hazards, conn_timeout, fds, isnull, told, up, self, asked>>
  BY DEF Connected, Connecting, given, property
<1>2. NewFd \in Fd /\ NewFd \notin open /\ NewFd # 0
  BY NewFdIsFree, ConnectorAssumption DEF Connected, Fd
<1>3. /\ sock_arr' \in Seq(Fd \cup {0}) /\ Len(sock_arr') = Len(sock_arr) + 1
      /\ Len(sock_arr') <= Len(asked)
      /\ \A i \in 1..Len(sock_arr) : sock_arr'[i] = sock_arr[i]
      /\ sock_arr'[Len(sock_arr) + 1] = NewFd
      /\ Underway' = Underway \cup {NewFd}
  BY <1>1, <1>2, OneMore DEF Inv
<1>4. TypeOK'
  <2>1. Here \in Address /\ peer' \in [Fd -> Address \cup {Nobody}]
    BY <1>1, <1>2 DEF Inv, TypeOK
  <2>2. live' \subseteq open' /\ open' \subseteq Fd
    BY <1>1, <1>2 DEF Inv, TypeOK
  <2>3. QED
    BY <1>1, <1>3, <2>1, <2>2 DEF Inv, TypeOK
<1>5. CallOK' /\ TimeoutOK'
  BY <1>1, <1>3 DEF Inv, CallOK, TimeoutOK, Calling
<1>6. peer'[NewFd] = Here /\ \A f \in open : peer'[f] = peer[f]
  BY <1>1, <1>2 DEF Inv, TypeOK
<1>7. SocketsOK'
  <2>1. SUFFICES ASSUME NEW i \in 1..(Len(sock_arr) + 1), sock_arr'[i] # 0
                 PROVE  sock_arr'[i] \in open' /\ peer'[sock_arr'[i]] = asked[Len(asked) + 1 - i]
    BY <1>1, <1>3 DEF SocketsOK
  <2>2. Len(sock_arr) \in Nat /\ Len(asked) \in Nat
    BY DEF Inv, TypeOK
  <2>3. CASE i \in 1..Len(sock_arr)
    BY <1>1, <1>3, <1>6, <2>1, <2>3 DEF Inv, SocketsOK
  <2>4. CASE i = Len(sock_arr) + 1
    <3>1. Len(asked) + 1 - i = Len(asked) - Len(sock_arr)
      BY <2>2, <2>4
    <3>2. QED
      BY <1>1, <1>3, <1>6, <2>4, <3>1 DEF Here
  <2>5. QED
    BY <2>2, <2>3, <2>4
<1>8. FilledOK' /\ NullOK' /\ CallsSurvive'
  BY <1>1 DEF Inv, FilledOK, NullOK, CallsSurvive
<1>9. PoolIsOpen'
  <2>1. \A p \in Object : Pooled(p)' = Pooled(p) /\ Pooled(p) \subseteq open
    BY <1>1 DEF Inv, PoolIsOpen, Pooled
  <2>2. QED
    BY <1>1, <1>2, <1>3, <1>6, <2>1 DEF Inv, PoolIsOpen
<1>10. QED
  BY <1>1, <1>4, <1>5, <1>7, <1>8, <1>9 DEF Inv

LEMMA FailedStep ==
    ASSUME Inv, Refused \/ TimesOut \/ KernelTimesOut
    PROVE  Inv'
<1>1. /\ Calling /\ pc' = "connect" /\ Len(sock_arr) < Len(asked)
      /\ open' = IF Free = {} THEN open ELSE open \cup {NewFd}
      /\ sock_arr' = Append(sock_arr, 0)
      /\ UNCHANGED <<hazards, conn_timeout, fds, isnull, told, peer, live, up, self, asked, timeout>>
  BY DEF Refused, TimesOut, KernelTimesOut, Connecting, Failed, given, property, Calling, Inv, CallOK
<1>2. open \subseteq open' /\ open' \subseteq Fd
  BY <1>1, NewFdIsFree DEF Inv, TypeOK
<1>3. /\ sock_arr' \in Seq(Fd \cup {0}) /\ Len(sock_arr') = Len(sock_arr) + 1
      /\ Len(sock_arr') <= Len(asked)
      /\ \A i \in 1..Len(sock_arr) : sock_arr'[i] = sock_arr[i]
      /\ sock_arr'[Len(sock_arr) + 1] = 0
      /\ Underway' = Underway
  BY <1>1, OneMore DEF Inv
<1>4. TypeOK'
  BY <1>1, <1>2, <1>3 DEF Inv, TypeOK
<1>5. CallOK' /\ TimeoutOK'
  BY <1>1, <1>3 DEF Inv, CallOK, TimeoutOK, Calling
<1>6. SocketsOK'
  <2>1. SUFFICES ASSUME NEW i \in 1..(Len(sock_arr) + 1), sock_arr'[i] # 0
                 PROVE  sock_arr'[i] \in open' /\ peer[sock_arr'[i]] = asked[Len(asked) + 1 - i]
    BY <1>1, <1>3 DEF SocketsOK
  <2>2. i \in 1..Len(sock_arr)
    BY <1>3, <2>1 DEF Inv, TypeOK
  <2>3. QED
    BY <1>2, <1>3, <2>1, <2>2 DEF Inv, SocketsOK
<1>7. FilledOK' /\ NullOK' /\ CallsSurvive'
  BY <1>1 DEF Inv, FilledOK, NullOK, CallsSurvive
<1>8. PoolIsOpen'
  BY <1>1, <1>2, <1>3 DEF Inv, PoolIsOpen, Pooled
<1>9. QED
  BY <1>1, <1>4, <1>5, <1>6, <1>7, <1>8 DEF Inv

(* All the sockets of a connectNsqd() that has not failed. *)
LEMMA WholeSockets ==
    ASSUME Inv, pc = "connect", \A i \in DOMAIN sock_arr : sock_arr[i] > 0
    PROVE  /\ sock_arr \in Seq(Fd) /\ Underway = ToSet(sock_arr)
           /\ \A i \in 1..Len(sock_arr) : sock_arr[i] \in open /\ peer[sock_arr[i]] = asked[Len(asked) + 1 - i]
           /\ \A f \in ToSet(sock_arr) : f \in open /\ peer[f] # Nobody
<1>1. sock_arr \in Seq(Fd \cup {0}) /\ DOMAIN sock_arr = 1..Len(sock_arr)
      /\ asked \in Seq(Address) /\ Len(sock_arr) <= Len(asked)
  BY DEF Inv, TypeOK
<1>2. \A i \in 1..Len(sock_arr) : sock_arr[i] \in Fd /\ sock_arr[i] # 0
  <2>1. TAKE i \in 1..Len(sock_arr)
  <2>2. sock_arr[i] \in Fd \cup {0} /\ sock_arr[i] > 0
    BY <1>1
  <2>3. QED
    BY <2>2
<1>3. sock_arr \in Seq(Fd)
  BY <1>1, <1>2
<1>4. \A i \in 1..Len(sock_arr) : sock_arr[i] \in open /\ peer[sock_arr[i]] = asked[Len(asked) + 1 - i]
  BY <1>2 DEF Inv, SocketsOK
<1>5. \A i \in 1..Len(sock_arr) : asked[Len(asked) + 1 - i] \in Address
  BY <1>1
<1>6. Underway = ToSet(sock_arr)
  BY <1>1, <1>2 DEF Underway, ToSet
<1>7. QED
  BY <1>1, <1>3, <1>4, <1>5, <1>6, ConnectorAssumption DEF ToSet

LEMMA DoneStep ==
    ASSUME Inv, ConnectDone
    PROVE  Inv'
<1> DEFINE whole == \A i \in DOMAIN sock_arr : sock_arr[i] > 0
<1>1. /\ pc = "connect" /\ pc' = "idle" /\ Len(sock_arr) = Len(asked) /\ sock_arr' = <<>> /\ timeout' = FALSE
      /\ fds' = IF whole THEN [fds EXCEPT ![self] = sock_arr] ELSE fds
      /\ isnull' = IF whole THEN [isnull EXCEPT ![self] = FALSE] ELSE isnull
      /\ told' = [told EXCEPT ![self] = whole]
      /\ UNCHANGED <<hazards, conn_timeout, open, peer, live, up, self, asked>>
  BY DEF ConnectDone, given, descriptors
<1>2. self \in Object /\ isnull[self] /\ (asked = <<>> => "no_address" \in hazards)
  BY <1>1 DEF Inv, CallOK, Calling
<1>3. CallOK' /\ SocketsOK' /\ TimeoutOK'
  BY <1>1 DEF CallOK, SocketsOK, TimeoutOK, Calling
<1>4. CallsSurvive'
  BY <1>1 DEF CallsSurvive
<1>5. fds \in [Object -> Seq(Fd)] /\ isnull \in [Object -> BOOLEAN] /\ told \in [Object -> BOOLEAN]
      /\ asked \in Seq(Address) /\ sock_arr \in Seq(Fd \cup {0})
  BY DEF Inv, TypeOK
<1>6. fds' \in [Object -> Seq(Fd)] /\ isnull' \in [Object -> BOOLEAN]
  <2>1. CASE whole
    <3>1. sock_arr \in Seq(Fd)
      BY <1>1, <2>1, WholeSockets
    <3>2. fds' = [fds EXCEPT ![self] = sock_arr] /\ isnull' = [isnull EXCEPT ![self] = FALSE]
      BY <1>1, <2>1
    <3>3. QED
      BY <1>2, <1>5, <3>1, <3>2
  <2>2. CASE ~whole
    BY <1>1, <1>5, <2>2
  <2>3. QED
    BY <2>1, <2>2
<1>7. TypeOK'
  <2>1. sock_arr' \in Seq(Fd \cup {0}) /\ Len(sock_arr') <= Len(asked')
    BY <1>1, <1>5
  <2>2. told' \in [Object -> BOOLEAN]
    <3>1. whole \in BOOLEAN
      OBVIOUS
    <3> HIDE DEF whole
    <3>2. QED
      BY <1>1, <1>5, <3>1
  <2>3. QED
    BY <1>1, <1>6, <2>1, <2>2 DEF Inv, TypeOK
<1>8. Underway' = {}
  BY <1>1 DEF Underway, ToSet
<1>9. FilledOK' /\ PoolIsOpen'
  <2>1. CASE whole
    <3>1. fds' = [fds EXCEPT ![self] = sock_arr] /\ isnull' = [isnull EXCEPT ![self] = FALSE]
      BY <1>1, <2>1
    <3>2. Pooled(self)' = Underway /\ \A f \in Underway : f \in open /\ peer[f] # Nobody
      BY <1>1, <1>2, <1>5, <2>1, <3>1, WholeSockets DEF Pooled
    <3>3. \A p \in Object \ {self} : Pooled(p)' = Pooled(p)
      BY <1>5, <3>1 DEF Pooled
    <3>4. PoolIsOpen'
      BY <1>1, <1>2, <1>8, <3>2, <3>3 DEF Inv, PoolIsOpen
    <3>5. FilledOK'
      <4>1. SUFFICES ASSUME NEW p \in Object, ~isnull'[p], fds'[p] = <<>>
                     PROVE  "no_address" \in hazards
        BY <1>1 DEF FilledOK
      <4>2. CASE p = self
        <5>1. sock_arr = <<>>
          BY <1>2, <1>5, <3>1, <4>1, <4>2
        <5>2. asked = <<>>
          BY <1>1, <1>5, <5>1
        <5>3. QED
          BY <1>2, <5>2
      <4>3. CASE p # self
        BY <1>5, <3>1, <4>1, <4>3 DEF Inv, FilledOK
      <4>4. QED
        BY <4>2, <4>3
    <3>6. QED
      BY <3>4, <3>5
  <2>2. CASE ~whole
    <3>1. UNCHANGED <<fds, isnull, open, peer, hazards>>
      BY <1>1, <2>2
    <3>2. QED
      BY <1>8, <3>1 DEF Inv, PoolIsOpen, Pooled, FilledOK
  <2>3. QED
    BY <2>1, <2>2
<1>10. NullOK'
  <2>1. SUFFICES ASSUME NEW o \in Object, isnull'[o] PROVE fds'[o] = <<>> /\ ~told'[o]
    BY DEF NullOK
  <2>2. CASE o = self
    <3>1. ~whole
      BY <1>1, <1>2, <1>5, <2>1, <2>2
    <3>2. UNCHANGED <<fds, isnull>>
      BY <1>1, <3>1
    <3>3. told'[self] = whole
      BY <1>1, <1>2, <1>5
    <3> HIDE DEF whole
    <3>4. QED
      BY <1>2, <2>2, <3>1, <3>2, <3>3 DEF Inv, NullOK
  <2>3. CASE o # self
    <3>1. fds'[o] = fds[o] /\ isnull'[o] = isnull[o] /\ told'[o] = told[o]
      <4> HIDE DEF whole
      <4>1. QED
        BY <1>1, <1>2, <1>5, <2>3
    <3>2. QED
      BY <2>1, <3>1 DEF Inv, NullOK
  <2>4. QED
    BY <2>2, <2>3
<1>11. QED
  BY <1>1, <1>3, <1>4, <1>7, <1>9, <1>10 DEF Inv

-----------------------------------------------------------------------------
(* closeNsqdConnection() *)

LEMMA CloseStep ==
    ASSUME Inv, NEW o \in Object, closeNsqdConnection(o)
    PROVE  Inv'
<1>1. pc = "idle" /\ ~isnull[o] /\ "after_close" \notin hazards
  BY DEF closeNsqdConnection, HasArray, Uses, Inv, NullOK
<1>2. /\ open' = open \ Pooled(o) /\ live' = live \ Pooled(o)
      /\ peer' = [f \in Fd |-> IF f \in Pooled(o) THEN Nobody ELSE peer[f]]
      /\ isnull' = [isnull EXCEPT ![o] = TRUE]
      /\ fds' = [fds EXCEPT ![o] = <<>>]
      /\ told' = [told EXCEPT ![o] = FALSE]
      /\ self' = Nobody /\ asked' = <<>>
      /\ UNCHANGED <<sock_arr, timeout, hazards, conn_timeout, up, pc>>
  BY <1>1 DEF closeNsqdConnection, Close, NextCall, Pooled, given
<1>3. sock_arr = <<>> /\ Underway = {} /\ Underway' = {}
  BY <1>1, <1>2 DEF Inv, CallOK, Underway, ToSet
<1>4. fds \in [Object -> Seq(Fd)] /\ isnull \in [Object -> BOOLEAN] /\ told \in [Object -> BOOLEAN]
      /\ peer \in [Fd -> Address \cup {Nobody}]
      /\ live \subseteq open /\ open \subseteq Fd
  BY DEF Inv, TypeOK
<1>5. TypeOK'
  <2>1. fds' \in [Object -> Seq(Fd)] /\ isnull' \in [Object -> BOOLEAN] /\ told' \in [Object -> BOOLEAN]
    <3>1. <<>> \in Seq(Fd)
      OBVIOUS
    <3>2. QED
      BY <1>2, <1>4, <3>1
  <2>2. peer' \in [Fd -> Address \cup {Nobody}]
    BY <1>2, <1>4
  <2>3. live' \subseteq open' /\ open' \subseteq Fd
    BY <1>2, <1>4
  <2>4. asked' \in Seq(Address) /\ sock_arr' \in Seq(Fd \cup {0}) /\ Len(sock_arr') <= Len(asked')
    BY <1>2, <1>3
  <2>5. QED
    BY <1>2, <2>1, <2>2, <2>3, <2>4 DEF Inv, TypeOK
<1>6. CallOK' /\ SocketsOK' /\ TimeoutOK' /\ CallsSurvive'
  BY <1>1, <1>2, <1>3 DEF CallOK, SocketsOK, TimeoutOK, CallsSurvive, Calling
<1>7. Pooled(o)' = {} /\ \A p \in Object \ {o} : Pooled(p)' = Pooled(p)
  BY <1>2, <1>4 DEF Pooled
<1>8. PoolIsOpen'
  <2>1. \A p \in Object \ {o} : Pooled(p) \subseteq open /\ Pooled(p) \cap Pooled(o) = {}
    BY DEF Inv, PoolIsOpen
  <2>2. \A p \in Object \ {o} : \A f \in Pooled(p) : peer'[f] = peer[f] /\ f \in open'
    BY <1>2, <1>4, <2>1
  <2>3. QED
    BY <1>3, <1>7, <2>2 DEF Inv, PoolIsOpen
<1>9. FilledOK' /\ NullOK'
  BY <1>2, <1>4 DEF Inv, FilledOK, NullOK
<1>10. QED
  BY <1>1, <1>2, <1>5, <1>6, <1>8, <1>9 DEF Inv

-----------------------------------------------------------------------------
(* The invariant, and what the runs check of it. *)

LEMMA InvInit == "after_close" \notin Hazards /\ Init => Inv
<1> SUFFICES ASSUME "after_close" \notin Hazards, Init PROVE Inv
  OBVIOUS
<1>1. "after_close" \notin hazards /\ hazards \subseteq Hazards
  BY DEF Init
<1>2. TypeOK
  <2>1. <<>> \in Seq(Fd) /\ <<>> \in Seq(Address) /\ <<>> \in Seq(Fd \cup {0}) /\ Len(<<>>) <= Len(<<>>)
    OBVIOUS
  <2>2. QED
    BY <1>1, <2>1 DEF Init, TypeOK
<1>3. NullOK /\ CallOK /\ SocketsOK /\ TimeoutOK /\ FilledOK /\ CallsSurvive
  BY DEF Init, NullOK, CallOK, SocketsOK, TimeoutOK, FilledOK, CallsSurvive, Calling
<1>4. PoolIsOpen
  BY DEF Init, PoolIsOpen, Pooled
<1>5. QED
  BY <1>1, <1>2, <1>3, <1>4 DEF Inv

LEMMA InvStep == Inv /\ [Next]_vars => Inv'
<1> SUFFICES ASSUME Inv, [Next]_vars PROVE Inv'
  OBVIOUS
<1>1. ASSUME NEW o \in Object, NEW addresses \in Lists,
             \/ connectNsqd(o, addresses)
             \/ ConnectAgain(o, addresses) \/ ConnectAgainOverflows(o, addresses)
      PROVE  Inv'
  <2>1. CASE connectNsqd(o, addresses)
    BY <2>1, CallStep
  <2>2. CASE ConnectAgain(o, addresses) \/ ConnectAgainOverflows(o, addresses)
    BY <2>2, AgainStep
  <2>3. QED
    BY <1>1, <2>1, <2>2
<1>2. CASE Connected \/ Refused \/ TimesOut \/ Waits \/ KernelTimesOut \/ Unresolved \/ ConnectDone
  BY <1>2, ConnectedStep, FailedStep, PauseStep, DoneStep
<1>3. ASSUME NEW o \in Object, closeNsqdConnection(o) \/ publish(o) \/ Crash(o)
      PROVE  Inv'
  <2>1. CASE closeNsqdConnection(o)
    BY <2>1, CloseStep
  <2>2. CASE publish(o) \/ Crash(o)
    BY <2>2, UseStep
  <2>3. QED
    BY <1>3, <2>1, <2>2
<1>4. ASSUME NEW a \in Address, NsqdStops(a) \/ NsqdStarts(a)
      PROVE  Inv'
  BY <1>4, NsqdStep
<1>5. CASE UNCHANGED vars
  <2>1. UNCHANGED <<hazards, conn_timeout, fds, isnull, told, open, peer, live, up, pc, self, asked, sock_arr, timeout, result>>
    BY <1>5 DEF vars, given, property, descriptors, call
  <2>2. QED
    BY <2>1 DEF Inv, TypeOK, NullOK, CallOK, Calling, SocketsOK, TimeoutOK, FilledOK, PoolIsOpen, Pooled, Underway, CallsSurvive
<1>6. QED
  BY <1>1, <1>2, <1>3, <1>4, <1>5 DEF Next

LEMMA Invariant == "after_close" \notin Hazards => (Spec => []Inv)
<1> SUFFICES ASSUME "after_close" \notin Hazards PROVE Spec => []Inv
  OBVIOUS
<1>1. Init => Inv
  BY InvInit
<1>2. QED
  BY <1>1, InvStep, PTL DEF Spec

(* The types of the objects, the descriptors and the call. *)
THEOREM TypeCorrect == "after_close" \notin Hazards => (Spec => []TypeOK)
<1>1. Inv => TypeOK
  BY DEF Inv
<1>2. QED
  BY <1>1, Invariant, PTL

(* The sockets of a property are open, connected, and no other object's    *)
(* (pub.c:137-150, nsq.c:171-184).                                         *)
THEOREM SocketsAreOwn == "after_close" \notin Hazards => (Spec => []PoolIsOpen)
<1>1. Inv => PoolIsOpen
  BY DEF Inv
<1>2. QED
  BY <1>1, Invariant, PTL

(* With a conn_timeout, a connect() without one has another before it that *)
(* succeeded (pub.c:119-123).                                              *)
THEOREM OnlyLateWaits == "after_close" \notin Hazards => (Spec => []WaitsAreLate)
<1>1. Inv /\ (pc = "waiting" => ~timeout) => WaitsAreLate
  BY DEF Inv, TimeoutOK, WaitsAreLate, Calling
<1>2. Init => (pc = "waiting" => ~timeout)
  BY DEF Init
<1>3. Inv /\ (pc = "waiting" => ~timeout) /\ [Next]_vars => (pc = "waiting" => ~timeout)'
  <2> SUFFICES ASSUME Inv, pc = "waiting" => ~timeout, [Next]_vars, pc' = "waiting" PROVE ~timeout'
    OBVIOUS
  <2>1. CASE Waits
    BY <2>1 DEF Waits, call
  <2>2. CASE UNCHANGED vars
    BY <2>2 DEF vars, call
  <2>3. CASE Connected
    BY <2>3 DEF Connected, Connecting
  <2>4. CASE Refused \/ TimesOut \/ KernelTimesOut \/ Unresolved \/ ConnectDone
    BY <2>4 DEF Refused, TimesOut, KernelTimesOut, Unresolved, Failed, ConnectDone
  <2>5. ASSUME NEW o \in Object, NEW addresses \in Lists,
               \/ connectNsqd(o, addresses)
               \/ ConnectAgain(o, addresses) \/ ConnectAgainOverflows(o, addresses)
        PROVE  FALSE
    BY <2>5 DEF connectNsqd, ConnectAgain, ConnectAgainOverflows
  <2>6. ASSUME NEW o \in Object, closeNsqdConnection(o) \/ publish(o) \/ Crash(o)
        PROVE  FALSE
    BY <2>6 DEF closeNsqdConnection, Close, HasArray, Uses, publish, Crash
  <2>7. ASSUME NEW a \in Address, NsqdStops(a) \/ NsqdStarts(a)
        PROVE  FALSE
    BY <2>7 DEF NsqdStops, NsqdStarts
  <2>8. QED
    BY <2>1, <2>2, <2>3, <2>4, <2>5, <2>6, <2>7 DEF Next
<1>4. QED
  BY <1>1, <1>2, <1>3, Invariant, PTL DEF Spec

(* A script that calls publish() and closeNsqdConnection() only on objects *)
(* connectNsqd() has last returned true for, with no close since, neither  *)
(* crashes in them nor spins: whatever connects fail, on whatever object,  *)
(* and however often each is connected (nsq.c:137-249, pub.c:72-150).      *)
THEOREM ScriptsSurvive == "after_close" \notin Hazards => (Spec => []CallsSurvive)
<1>1. Inv => CallsSurvive
  BY DEF Inv
<1>2. QED
  BY <1>1, Invariant, PTL

-----------------------------------------------------------------------------
(* Connector implements NsqdPool. *)

Reached(o) == {peer[f] : f \in Pooled(o)}
Nsqds == [o \in Object |-> Reached(o)]

LEMMA SameNsqds ==
    ASSUME UNCHANGED <<fds, isnull, published>>,
           \A o \in Object : \A f \in Pooled(o) : peer'[f] = peer[f]
    PROVE  Nsqds' = Nsqds /\ published' = published
<1>1. \A o \in Object : Pooled(o)' = Pooled(o)
  BY DEF Pooled
<1>2. \A o \in Object : Reached(o)' = Reached(o)
  BY <1>1 DEF Reached
<1>3. QED
  BY <1>2 DEF Nsqds

(* The nsqds of a connectNsqd() that has not failed are those asked for.   *)
LEMMA AllAreReached ==
    ASSUME Inv, pc = "connect", Len(sock_arr) = Len(asked), \A i \in DOMAIN sock_arr : sock_arr[i] > 0
    PROVE  {peer[f] : f \in ToSet(sock_arr)} = ToSet(asked)
<1>1. /\ DOMAIN sock_arr = 1..Len(asked) /\ DOMAIN asked = 1..Len(asked) /\ Len(asked) \in Nat
  BY DEF Inv, TypeOK
<1>2. \A i \in 1..Len(asked) : peer[sock_arr[i]] = asked[Len(asked) + 1 - i]
  BY WholeSockets
<1>3. \A i \in 1..Len(asked) : Len(asked) + 1 - i \in 1..Len(asked) /\ Len(asked) + 1 - (Len(asked) + 1 - i) = i
  BY <1>1
<1>4. ASSUME NEW f \in ToSet(sock_arr) PROVE peer[f] \in ToSet(asked)
  <2>1. PICK i \in 1..Len(asked) : f = sock_arr[i]
    BY <1>1 DEF ToSet
  <2>2. peer[f] = asked[Len(asked) + 1 - i] /\ Len(asked) + 1 - i \in DOMAIN asked
    BY <1>1, <1>2, <1>3, <2>1
  <2>3. QED
    BY <2>2 DEF ToSet
<1>5. ASSUME NEW a \in ToSet(asked) PROVE \E f \in ToSet(sock_arr) : a = peer[f]
  <2>1. PICK j \in 1..Len(asked) : a = asked[j]
    BY <1>1 DEF ToSet
  <2>2. Len(asked) + 1 - j \in 1..Len(asked) /\ peer[sock_arr[Len(asked) + 1 - j]] = a
    BY <1>2, <1>3, <2>1
  <2>3. sock_arr[Len(asked) + 1 - j] \in ToSet(sock_arr)
    BY <1>1, <2>2 DEF ToSet
  <2>4. QED
    BY <2>2, <2>3
<1>6. QED
  BY <1>4, <1>5

LEMMA ConnectMaps ==
    ASSUME Inv, ConnectDone
    PROVE  \/ Nsqds' = Nsqds /\ published' = published
           \/ /\ self \in Object /\ asked \in Lists /\ Nsqds[self] = {}
              /\ Nsqds' = [Nsqds EXCEPT ![self] = ToSet(asked)] /\ published' = published
<1> DEFINE whole == \A i \in DOMAIN sock_arr : sock_arr[i] > 0
<1>1. /\ pc = "connect" /\ Len(sock_arr) = Len(asked)
      /\ fds' = IF whole THEN [fds EXCEPT ![self] = sock_arr] ELSE fds
      /\ isnull' = IF whole THEN [isnull EXCEPT ![self] = FALSE] ELSE isnull
      /\ peer' = peer /\ published' = published /\ self' = self
  BY DEF ConnectDone, descriptors
<1>2. self \in Object /\ isnull[self] /\ asked \in Lists
  BY <1>1 DEF Inv, CallOK, Calling
<1>3. fds \in [Object -> Seq(Fd)] /\ isnull \in [Object -> BOOLEAN]
  BY DEF Inv, TypeOK
<1>4. CASE whole
  <2>1. fds' = [fds EXCEPT ![self] = sock_arr] /\ isnull' = [isnull EXCEPT ![self] = FALSE]
    BY <1>1, <1>4
  <2>2. Pooled(self)' = ToSet(sock_arr) /\ Pooled(self) = {}
    <3>1. ~isnull'[self] /\ fds'[self] = sock_arr
      BY <1>2, <1>3, <2>1
    <3>2. QED
      BY <1>1, <1>2, <3>1 DEF Pooled
  <2>3. \A p \in Object \ {self} : Pooled(p)' = Pooled(p)
    BY <1>3, <2>1 DEF Pooled
  <2>4. Reached(self)' = ToSet(asked)
    BY <1>1, <1>4, <2>2, AllAreReached DEF Reached
  <2>5. \A p \in Object \ {self} : Reached(p)' = Reached(p)
    BY <1>1, <2>3 DEF Reached
  <2>6. Reached(self) = {}
    BY <2>2 DEF Reached
  <2>7. Nsqds' = [p \in Object |-> IF p = self THEN ToSet(asked) ELSE Reached(p)]
    <3>1. Nsqds' = [p \in Object |-> Reached(p)']
      BY DEF Nsqds
    <3>2. \A p \in Object : Reached(p)' = IF p = self THEN ToSet(asked) ELSE Reached(p)
      <4>1. TAKE p \in Object
      <4>2. CASE p = self
        BY <1>1, <2>4, <4>2
      <4>3. CASE p # self
        BY <2>5, <4>3
      <4>4. QED
        BY <4>2, <4>3
    <3>3. QED
      BY <3>1, <3>2
  <2>8. QED
    BY <1>1, <1>2, <2>6, <2>7 DEF Nsqds
<1>5. CASE ~whole
  BY <1>1, <1>5, SameNsqds
<1>6. QED
  BY <1>4, <1>5

LEMMA CloseMaps ==
    ASSUME Inv, NEW o \in Object, closeNsqdConnection(o)
    PROVE  Nsqds' = [Nsqds EXCEPT ![o] = {}] /\ published' = published
<1>1. /\ ~isnull[o]
      /\ peer' = [f \in Fd |-> IF f \in Pooled(o) THEN Nobody ELSE peer[f]]
      /\ isnull' = [isnull EXCEPT ![o] = TRUE]
      /\ fds' = [fds EXCEPT ![o] = <<>>] /\ published' = published
  BY DEF closeNsqdConnection, HasArray, Uses, Close, Pooled, Inv, NullOK
<1>2. fds \in [Object -> Seq(Fd)] /\ isnull \in [Object -> BOOLEAN] /\ open \subseteq Fd
  BY DEF Inv, TypeOK
<1>3. Pooled(o)' = {} /\ \A p \in Object \ {o} : Pooled(p)' = Pooled(p)
  BY <1>1, <1>2 DEF Pooled
<1>4. \A p \in Object \ {o} : Pooled(p) \subseteq Fd /\ Pooled(p) \cap Pooled(o) = {}
  BY <1>2 DEF Inv, PoolIsOpen
<1>5. \A p \in Object \ {o} : \A f \in Pooled(p) : peer'[f] = peer[f]
  BY <1>1, <1>4
<1>6. Reached(o)' = {} /\ \A p \in Object \ {o} : Reached(p)' = Reached(p)
  BY <1>3, <1>5 DEF Reached
<1>7. QED
  BY <1>1, <1>6 DEF Nsqds

LEMMA PublishMaps ==
    ASSUME Inv, NEW o \in Object, publish(o)
    PROVE  /\ Nsqds' = Nsqds
           /\ published' = published \/ \E a \in Nsqds[o] : a \in Address /\ published' = <<o, a>>
<1>1. Pooled(o) = ToSet(fds[o]) /\ Pooled(o) \subseteq open
  BY PublishMeetsOpen
<1>2. UNCHANGED <<fds, isnull, peer>>
  BY DEF publish, property, descriptors
<1>3. Nsqds' = Nsqds
  BY <1>2 DEF Nsqds, Reached, Pooled
<1>4. PICK f \in Pooled(o) : published' = <<o, peer[f]>> \/ published' = published
  BY <1>1 DEF publish
<1>5. peer[f] \in Address /\ peer[f] \in Nsqds[o]
  BY DEF Inv, PoolIsOpen, TypeOK, Nsqds, Reached
<1>6. QED
  BY <1>3, <1>4, <1>5

LEMMA OthersMap ==
    ASSUME Inv, [Next]_vars, ~ConnectDone,
           \A o \in Object : ~closeNsqdConnection(o) /\ ~publish(o)
    PROVE  Nsqds' = Nsqds /\ published' = published
<1>1. CASE Connected
  <2>1. UNCHANGED <<fds, isnull, published>> /\ peer' = [peer EXCEPT ![NewFd] = Here]
    BY <1>1 DEF Connected, property
  <2>2. NewFd \notin open
    BY <1>1, NewFdIsFree DEF Connected
  <2>3. \A o \in Object : \A f \in Pooled(o) : f \in open
    BY DEF Inv, PoolIsOpen
  <2>4. \A f \in open : peer'[f] = peer[f]
    BY <2>1, <2>2 DEF Inv, TypeOK
  <2>5. QED
    BY <2>1, <2>3, <2>4, SameNsqds
<1>2. ASSUME UNCHANGED <<fds, isnull, peer, published>>
      PROVE  Nsqds' = Nsqds /\ published' = published
  BY <1>2, SameNsqds
<1>3. CASE Refused \/ TimesOut \/ KernelTimesOut \/ Waits \/ Unresolved
  BY <1>2, <1>3 DEF Refused, TimesOut, KernelTimesOut, Waits, Unresolved, Failed, property, descriptors
<1>4. CASE \E o \in Object, addresses \in Lists :
            \/ connectNsqd(o, addresses)
            \/ ConnectAgain(o, addresses) \/ ConnectAgainOverflows(o, addresses)
  BY <1>2, <1>4 DEF connectNsqd, ConnectAgain, ConnectAgainOverflows, property, descriptors
<1>5. CASE \E o \in Object : Crash(o)
  BY <1>2, <1>5 DEF Crash, property, descriptors
<1>6. CASE \E a \in Address : NsqdStops(a) \/ NsqdStarts(a)
  BY <1>2, <1>6 DEF NsqdStops, NsqdStarts, property, descriptors
<1>7. CASE UNCHANGED vars
  BY <1>2, <1>7 DEF vars, property, descriptors
<1>8. QED
  BY <1>1, <1>3, <1>4, <1>5, <1>6, <1>7 DEF Next

LEMMA MappedStep == Inv /\ [Next]_vars => [Pool!Next]_(Pool!vars)
<1> SUFFICES ASSUME Inv, [Next]_vars PROVE [Pool!Next]_(Pool!vars)
  OBVIOUS
<1>1. Nsqds = [o \in Object |-> {peer[f] : f \in Pooled(o)}]
      /\ Nsqds' = [o \in Object |-> {peer[f] : f \in Pooled(o)}]'
  BY DEF Nsqds, Reached
<1>2. ASSUME Nsqds' = Nsqds, published' = published
      PROVE  UNCHANGED Pool!vars
  BY <1>1, <1>2 DEF Pool!vars
<1>3. CASE ConnectDone
  <2>1. CASE Nsqds' = Nsqds /\ published' = published
    BY <1>2, <2>1
  <2>2. CASE /\ self \in Object /\ asked \in Lists /\ Nsqds[self] = {}
             /\ Nsqds' = [Nsqds EXCEPT ![self] = ToSet(asked)] /\ published' = published
    <3>1. Pool!Connect(self, ToSet(asked))
      BY <1>1, <2>2 DEF Pool!Connect
    <3>2. ToSet(asked) \in {ToSet(addresses) : addresses \in Lists}
      BY <2>2
    <3>3. \E addresses \in {ToSet(addresses) : addresses \in Lists} : Pool!Connect(self, addresses)
      BY <1>1, <2>2, <3>2 DEF Pool!Connect
    <3>4. self \in Object
      BY <2>2
    <3>5. Pool!Next
      BY <3>3, <3>4, Zenon DEF Pool!Next
    <3>6. QED
      BY <3>5
  <2>3. QED
    BY <1>3, <2>1, <2>2, ConnectMaps
<1>4. ASSUME NEW o \in Object, closeNsqdConnection(o)
      PROVE  Pool!Next
  <2>1. Pool!Close(o)
    BY <1>1, <1>4, CloseMaps DEF Pool!Close
  <2>2. QED
    BY <2>1 DEF Pool!Next
<1>5. ASSUME NEW o \in Object, publish(o)
      PROVE  [Pool!Next]_(Pool!vars)
  <2>1. Nsqds' = Nsqds
    BY <1>5, PublishMaps
  <2>2. CASE published' = published
    BY <1>2, <2>1, <2>2
  <2>3. ASSUME NEW a \in Nsqds[o], a \in Address, published' = <<o, a>>
        PROVE  Pool!Next
    <3>1. Pool!Publish(o, a)
      BY <1>1, <2>1, <2>3 DEF Pool!Publish
    <3>2. QED
      BY <2>3, <3>1 DEF Pool!Next
  <2>4. QED
    BY <1>5, <2>2, <2>3, PublishMaps
<1>6. CASE ~ConnectDone /\ \A o \in Object : ~closeNsqdConnection(o) /\ ~publish(o)
  BY <1>2, <1>6, OthersMap
<1>7. QED
  BY <1>3, <1>4, <1>5, <1>6

(* connectNsqd() gives an object all the nsqds asked for or none, closing  *)
(* takes them away, and publish() reaches one of them: Connector           *)
(* implements NsqdPool (nsq.c:137-249, pub.c:72-150).                      *)
THEOREM Refinement == "after_close" \notin Hazards => (Spec => ImplementsNsqdPool)
<1>1. Init => Pool!Init
  BY DEF Init, Pool!Init, Pooled
<1>2. QED
  BY <1>1, MappedStep, Invariant, PTL DEF Spec, Pool!Spec, ImplementsNsqdPool

-----------------------------------------------------------------------------
(* Every socket can be closed, and true means connected: the counting.     *)

(* Whatever is asked for fits the process's descriptors, every nsqd is up  *)
(* and none is silent.                                                     *)
Good == Enough /\ hazards \cap {"nsqd_down", "silent"} = {}

(* A property holds as many sockets as some list has addresses. *)
PoolsFit == \A o \in Object : ~isnull[o] => \E addresses \in Lists : Len(fds[o]) = Len(addresses)

(* No socket is in the array of connectNsqd() twice. *)
Distinct ==
    \A i, j \in 1..Len(sock_arr) : sock_arr[i] # 0 /\ sock_arr[i] = sock_arr[j] => i = j

Steady ==
    /\ "nsqd_down" \notin hazards => up = Address
    /\ pc = "waiting" => "silent" \in hazards
    /\ Calling => result = "none"

(* Where nothing goes wrong no connect() fails. *)
NoneFailed == Good /\ Calling => \A i \in 1..Len(sock_arr) : sock_arr[i] # 0

Promise == PoolsFit /\ Distinct /\ Steady /\ NoneFailed /\ NoSocketLost /\ TrueMeansConnected

-----------------------------------------------------------------------------
(* Counting descriptors. *)

(* A sequence with no element twice has as many elements as its length says. *)
LEMMA DistinctCount ==
    ASSUME NEW S, NEW s \in Seq(S), \A i, j \in 1..Len(s) : s[i] = s[j] => i = j
    PROVE  IsFiniteSet(ToSet(s)) /\ Cardinality(ToSet(s)) = Len(s)
<1>1. Len(s) \in Nat /\ DOMAIN s = 1..Len(s) /\ s \in [1..Len(s) -> S]
  OBVIOUS
<1>2. IsFiniteSet(1..Len(s)) /\ Cardinality(1..Len(s)) = Len(s)
  BY <1>1, FS_Interval
<1>3. s \in Bijection(1..Len(s), ToSet(s))
  <2>1. \A i \in 1..Len(s) : s[i] \in ToSet(s)
    BY <1>1 DEF ToSet
  <2>2. s \in [1..Len(s) -> ToSet(s)]
    BY <1>1, <2>1
  <2>3. s \in Injection(1..Len(s), ToSet(s))
    BY <1>1, <2>2 DEF Injection, IsInjective
  <2>4. s \in Surjection(1..Len(s), ToSet(s))
    BY <1>1, <2>2 DEF Surjection, ToSet
  <2>5. QED
    BY <2>3, <2>4 DEF Bijection
<1>4. ExistsBijection(1..Len(s), ToSet(s))
  BY <1>3 DEF ExistsBijection
<1>5. QED
  BY <1>2, <1>4, FS_Bijection

(* One of the lists is the longest, as the process has room for each. *)
LEMMA LongestExists ==
    ASSUME Enough, NEW o \in Object, NEW asked_now \in Lists
    PROVE  \E L \in Nat : /\ \A addresses \in Lists : Len(addresses) <= L
                          /\ Cardinality(Object) * L <= MaxFd
<1>1. /\ MaxFd \in Nat /\ Cardinality(Object) \in Nat
      /\ \A addresses \in Lists : Len(addresses) \in Nat
  BY ConnectorAssumption, FS_CardinalityType
<1>2. Cardinality(Object) >= 1
  <2>1. Cardinality(Object) # 0
    BY ConnectorAssumption, FS_EmptySet
  <2>2. QED
    BY <1>1, <2>1
<1>3. ASSUME NEW addresses \in Lists PROVE Len(addresses) <= MaxFd
  <2>1. Cardinality(Object) * Len(addresses) <= MaxFd
    BY DEF Enough
  <2>2. Cardinality(Object) * Len(addresses) >= Len(addresses)
    BY <1>1, <1>2
  <2>3. QED
    BY <1>1, <2>1, <2>2
<1> DEFINE S == {MaxFd - Len(addresses) : addresses \in Lists}
<1>4. S \subseteq Nat /\ S # {}
  BY <1>1, <1>3
<1>5. PICK least \in S : \A g \in S : least <= g
  <2> HIDE DEF S
  <2> QED
    BY <1>4, LeastExists
<1>6. PICK longest \in Lists : least = MaxFd - Len(longest)
  OBVIOUS
<1>7. ASSUME NEW addresses \in Lists PROVE Len(addresses) <= Len(longest)
  <2>1. MaxFd - Len(addresses) \in S
    OBVIOUS
  <2>2. MaxFd - Len(longest) <= MaxFd - Len(addresses)
    BY <1>5, <1>6, <2>1
  <2>3. QED
    BY <1>1, <2>2
<1>8. QED
  BY <1>1, <1>7 DEF Enough

(* As long as a connectNsqd() has an address left, a descriptor is free:   *)
(* each one open is the i-th socket of an object, and the object that is   *)
(* connecting has not come to its last one.                                *)
LEMMA RoomForOne ==
    ASSUME Inv, PoolsFit, NoSocketLost, Good, Calling, Len(sock_arr) < Len(asked)
    PROVE  Free # {}
<1>1. /\ self \in Object /\ isnull[self] /\ asked \in Lists
      /\ fds \in [Object -> Seq(Fd)] /\ sock_arr \in Seq(Fd \cup {0}) /\ asked \in Seq(Address)
      /\ open \subseteq Fd
  BY DEF Inv, CallOK, TypeOK
<1>2. PICK L \in Nat : (\A addresses \in Lists : Len(addresses) <= L) /\ Cardinality(Object) * L <= MaxFd
  BY <1>1, LongestExists DEF Good
<1> DEFINE Slots == (Object \X (1..L)) \ {<<self, Len(asked)>>}
           Socket(slot) == IF slot[1] = self THEN sock_arr[slot[2]] ELSE fds[slot[1]][slot[2]]
           Sockets == {Socket(slot) : slot \in Slots}
<1>3. Len(asked) \in 1..L /\ Len(asked) <= L
  BY <1>1, <1>2
<1>4. IsFiniteSet(Slots) /\ Cardinality(Slots) = Cardinality(Object) * L - 1
  <2>1. IsFiniteSet(1..L) /\ Cardinality(1..L) = L
    <3>1. L \in Int /\ 1 \in Int /\ (IF 1 > L THEN 0 ELSE L - 1 + 1) = L
      BY <1>2
    <3>2. QED
      BY <3>1, FS_Interval
  <2>2. IsFiniteSet(Object \X (1..L)) /\ Cardinality(Object \X (1..L)) = Cardinality(Object) * L
    BY <2>1, FS_Product, ConnectorAssumption
  <2>3. <<self, Len(asked)>> \in Object \X (1..L)
    BY <1>1, <1>3
  <2>4. QED
    <3> DEFINE All == Object \X (1..L)
               slot == <<self, Len(asked)>>
    <3>1. IsFiniteSet(All) /\ slot \in All /\ Cardinality(All) = Cardinality(Object) * L
      BY <2>2, <2>3
    <3> HIDE DEF All, slot
    <3>2. IsFiniteSet(All \ {slot}) /\ Cardinality(All \ {slot}) = Cardinality(All) - 1
      BY <3>1, FS_RemoveElement
    <3>3. QED
      BY <3>1, <3>2 DEF All, slot
<1>5. open \subseteq Sockets
  <2>1. SUFFICES ASSUME NEW f \in open PROVE \E slot \in Slots : f = Socket(slot)
    OBVIOUS
  <2>2. f \in Underway \/ \E o \in Object : f \in Pooled(o)
    <3>1. open \subseteq Underway \cup UNION {Pooled(o) : o \in Object}
      BY DEF NoSocketLost, Good
    <3>2. QED
      BY <2>1, <3>1
  <2>3. CASE f \in Underway
    <3>1. PICK i \in 1..Len(sock_arr) : f = sock_arr[i]
      BY <1>1, <2>3 DEF Underway, ToSet
    <3>2. i \in 1..L /\ i # Len(asked)
      BY <1>1, <1>2, <1>3, <3>1
    <3>3. <<self, i>> \in Slots /\ f = Socket(<<self, i>>)
      BY <1>1, <3>1, <3>2
    <3>4. QED
      BY <3>3
  <2>4. ASSUME NEW o \in Object, f \in Pooled(o) PROVE \E slot \in Slots : f = Socket(slot)
    <3>1. ~isnull[o] /\ o # self /\ f \in ToSet(fds[o])
      BY <1>1, <2>4 DEF Pooled
    <3>2. fds[o] \in Seq(Fd)
      BY <1>1
    <3>3. PICK i \in 1..Len(fds[o]) : f = fds[o][i]
      BY <3>1, <3>2 DEF ToSet
    <3>4. PICK addresses \in Lists : Len(fds[o]) = Len(addresses)
      BY <3>1 DEF PoolsFit
    <3>5. i \in 1..L
      BY <1>2, <3>2, <3>3, <3>4
    <3>6. <<o, i>> \in Slots /\ f = Socket(<<o, i>>)
      BY <3>1, <3>3, <3>5
    <3>7. QED
      BY <3>6
  <2>5. QED
    BY <2>2, <2>3, <2>4
<1>6. IsFiniteSet(Sockets) /\ Cardinality(Sockets) <= Cardinality(Slots)
  <2> DEFINE g == [slot \in Slots |-> Socket(slot)]
  <2>1. g \in Surjection(Slots, Sockets)
    BY DEF Surjection
  <2> HIDE DEF g, Slots, Sockets
  <2>2. QED
    BY <1>4, <2>1, FS_Surjection
<1>7. Cardinality(open) <= Cardinality(Slots) /\ Cardinality(open) \in Nat
  <2> HIDE DEF Slots, Sockets
  <2>1. IsFiniteSet(open) /\ Cardinality(open) <= Cardinality(Sockets)
    BY <1>5, <1>6, FS_Subset
  <2>2. QED
    BY <1>4, <1>6, <2>1, FS_CardinalityType
<1>8. Cardinality(open) < MaxFd
  <2> HIDE DEF Slots
  <2> DEFINE product == Cardinality(Object) * L
  <2>1. product \in Nat /\ product <= MaxFd /\ Cardinality(Slots) = product - 1
    <3>1. Cardinality(Object) \in Nat
      BY ConnectorAssumption, FS_CardinalityType
    <3>2. QED
      BY <1>2, <1>4, <3>1
  <2> HIDE DEF product
  <2>2. QED
    BY <1>7, <2>1, ConnectorAssumption
<1>9. Cardinality(Fd) = MaxFd
  BY ConnectorAssumption, FS_Interval DEF Fd
<1>10. open # Fd
  BY <1>7, <1>8, <1>9, ConnectorAssumption
<1>11. QED
  BY <1>1, <1>10 DEF Free

-----------------------------------------------------------------------------
(* Each step keeps the promise. *)

(* Outside connectNsqd(), as long as properties and descriptors stay.      *)
LEMMA PromiseIdle ==
    ASSUME Inv, Promise, pc = "idle", pc' \in {"idle", "overrun", "crashed", "looping"},
           UNCHANGED <<hazards, fds, isnull, open, sock_arr>>,
           "nsqd_down" \notin hazards => up' = up,
           result' = "none" \/ "reconnect" \in hazards
    PROVE  Promise'
<1>1. ~Calling'
  BY DEF Calling
<1>2. PoolsFit' /\ Distinct' /\ Steady' /\ NoneFailed'
  BY <1>1 DEF Promise, PoolsFit, Distinct, Steady, NoneFailed
<1>3. NoSocketLost'
  BY DEF Promise, NoSocketLost, Pooled, Underway
<1>4. TrueMeansConnected'
  BY DEF TrueMeansConnected
<1>5. QED
  BY <1>2, <1>3, <1>4 DEF Promise

LEMMA PromiseUse ==
    ASSUME Inv, Promise, NEW o \in Object, publish(o) \/ Crash(o)
    PROVE  Promise'
<1>1. CASE publish(o)
  <2>1. pc = "idle" /\ pc' = "idle"
    BY <1>1, PublishMeetsOpen
  <2>2. QED
    BY <1>1, <2>1, PromiseIdle DEF publish, NextCall, given, property, descriptors
<1>2. CASE Crash(o)
  BY <1>2, PromiseIdle DEF Crash, Uses, NextCall, given, property, descriptors
<1>3. QED
  BY <1>1, <1>2

LEMMA PromiseNsqd ==
    ASSUME Inv, Promise, NEW a \in Address, NsqdStops(a) \/ NsqdStarts(a)
    PROVE  Promise'
<1>1. CASE NsqdStops(a)
  BY <1>1, PromiseIdle DEF NsqdStops, NextCall, given, property
<1>2. CASE NsqdStarts(a)
  <2>1. "nsqd_down" \in hazards
    BY <1>2 DEF NsqdStarts, Promise, Steady
  <2>2. QED
    BY <1>2, <2>1, PromiseIdle DEF NsqdStarts, NextCall, given, property, descriptors
<1>3. QED
  BY <1>1, <1>2

LEMMA PromiseCall ==
    ASSUME Inv, Promise, NEW o \in Object, NEW addresses \in Lists, connectNsqd(o, addresses)
    PROVE  Promise'
<1>1. /\ pc = "idle" /\ pc' = "connect" /\ result' = "none" /\ sock_arr' = <<>>
      /\ UNCHANGED <<hazards, fds, isnull, open, up>>
  BY DEF connectNsqd, given, property, descriptors
<1>2. PoolsFit' /\ Distinct' /\ Steady' /\ NoneFailed'
  BY <1>1 DEF Promise, PoolsFit, Distinct, Steady, NoneFailed
<1>3. Underway = {} /\ Underway' = {}
  BY <1>1 DEF Underway, ToSet, Inv, CallOK
<1>4. NoSocketLost'
  BY <1>1, <1>3 DEF Promise, NoSocketLost, Pooled
<1>5. TrueMeansConnected'
  BY <1>1 DEF TrueMeansConnected
<1>6. QED
  BY <1>2, <1>4, <1>5 DEF Promise

LEMMA PromisePause ==
    ASSUME Inv, Promise, Waits \/ Unresolved
    PROVE  Promise'
<1>1. /\ pc = "connect" /\ pc' \in {"waiting", "exited"}
      /\ (pc' = "waiting" => "silent" \in hazards)
      /\ UNCHANGED <<hazards, fds, isnull, open, up, sock_arr, result>>
  BY DEF Waits, Unresolved, Connecting, given, property, descriptors, call
<1>2. Calling /\ result' = "none"
  BY <1>1 DEF Calling, Promise, Steady
<1>3. PoolsFit' /\ Distinct'
  BY <1>1 DEF Promise, PoolsFit, Distinct
<1>4. Steady'
  BY <1>1, <1>2 DEF Promise, Steady
<1>5. NoneFailed'
  BY <1>1, <1>2 DEF Promise, NoneFailed, Good
<1>6. NoSocketLost'
  BY <1>1 DEF Promise, NoSocketLost, Pooled, Underway
<1>7. TrueMeansConnected'
  BY <1>2 DEF TrueMeansConnected
<1>8. QED
  BY <1>3, <1>4, <1>5, <1>6, <1>7 DEF Promise

LEMMA PromiseConnected ==
    ASSUME Inv, Promise, Connected
    PROVE  Promise'
<1>1. /\ pc = "connect" /\ pc' = pc /\ Len(sock_arr) < Len(asked)
      /\ open' = open \cup {NewFd} /\ sock_arr' = Append(sock_arr, NewFd)
      /\ UNCHANGED <<hazards, fds, isnull, up, result>>
  BY DEF Connected, Connecting, given, property
<1>2. NewFd \in Fd /\ NewFd \notin open /\ NewFd # 0
  BY NewFdIsFree, ConnectorAssumption DEF Connected, Fd
<1>3. /\ Len(sock_arr') = Len(sock_arr) + 1 /\ Len(sock_arr) \in Nat
      /\ \A i \in 1..Len(sock_arr) : sock_arr'[i] = sock_arr[i]
      /\ sock_arr'[Len(sock_arr) + 1] = NewFd
      /\ Underway' = Underway \cup {NewFd}
  BY <1>1, <1>2, OneMore DEF Inv, TypeOK
<1>4. \A i \in 1..Len(sock_arr') : i \in 1..Len(sock_arr) \/ i = Len(sock_arr) + 1
  BY <1>3
<1>5. \A i \in 1..Len(sock_arr) : sock_arr[i] # NewFd
  BY <1>2 DEF Inv, SocketsOK
<1>6. Distinct'
  <2>1. SUFFICES ASSUME NEW i \in 1..Len(sock_arr'), NEW j \in 1..Len(sock_arr'),
                        sock_arr'[i] # 0, sock_arr'[i] = sock_arr'[j]
                 PROVE  i = j
    BY DEF Distinct
  <2>2. CASE i \in 1..Len(sock_arr) /\ j \in 1..Len(sock_arr)
    BY <1>3, <2>1, <2>2 DEF Promise, Distinct
  <2>3. CASE i = Len(sock_arr) + 1 \/ j = Len(sock_arr) + 1
    BY <1>3, <1>4, <1>5, <2>1, <2>3
  <2>4. QED
    BY <1>4, <2>2, <2>3
<1>7. PoolsFit' /\ Steady'
  BY <1>1 DEF Promise, PoolsFit, Steady, Calling
<1>8. NoneFailed'
  <2>1. SUFFICES ASSUME Good, NEW i \in 1..Len(sock_arr') PROVE sock_arr'[i] # 0
    BY <1>1 DEF NoneFailed, Good
  <2>2. Calling
    BY <1>1 DEF Calling
  <2>3. QED
    BY <1>2, <1>3, <1>4, <2>1, <2>2 DEF Promise, NoneFailed
<1>9. NoSocketLost'
  <2>1. \A o \in Object : Pooled(o)' = Pooled(o)
    BY <1>1 DEF Pooled
  <2>2. QED
    BY <1>1, <1>3, <2>1 DEF Promise, NoSocketLost
<1>10. TrueMeansConnected'
  BY <1>1 DEF TrueMeansConnected, Promise, Steady, Calling
<1>11. QED
  BY <1>6, <1>7, <1>8, <1>9, <1>10 DEF Promise

LEMMA PromiseFailed ==
    ASSUME Inv, Promise, Refused \/ TimesOut \/ KernelTimesOut
    PROVE  Promise'
<1>1. /\ Calling /\ pc' = "connect" /\ Len(sock_arr) < Len(asked)
      /\ sock_arr' = Append(sock_arr, 0)
      /\ UNCHANGED <<hazards, fds, isnull, up, result>>
  BY DEF Refused, TimesOut, KernelTimesOut, Connecting, Failed, given, property, Calling, Inv, CallOK
<1>2. ~Good
  <2>1. CASE Refused
    <3>1. asked \in Seq(Address) /\ sock_arr \in Seq(Fd \cup {0}) /\ up \subseteq Address
      BY DEF Inv, TypeOK
    <3>2. Here \in Address
      BY <1>1, <3>1 DEF Here
    <3>3. Good => Here \in up /\ Free # {}
      BY <1>1, <3>2, RoomForOne DEF Good, Promise, Steady
    <3>4. QED
      BY <2>1, <3>3 DEF Refused
  <2>2. CASE TimesOut \/ KernelTimesOut
    BY <2>2 DEF TimesOut, KernelTimesOut, Promise, Steady, Good
  <2>3. QED
    BY <2>1, <2>2
<1>3. /\ Len(sock_arr') = Len(sock_arr) + 1 /\ Len(sock_arr) \in Nat
      /\ \A i \in 1..Len(sock_arr) : sock_arr'[i] = sock_arr[i]
      /\ sock_arr'[Len(sock_arr) + 1] = 0
  BY <1>1, OneMore DEF Inv, TypeOK
<1>4. \A i \in 1..Len(sock_arr') : sock_arr'[i] # 0 => i \in 1..Len(sock_arr)
  BY <1>3
<1>5. Distinct'
  <2>1. SUFFICES ASSUME NEW i \in 1..Len(sock_arr'), NEW j \in 1..Len(sock_arr'),
                        sock_arr'[i] # 0, sock_arr'[i] = sock_arr'[j]
                 PROVE  i = j
    BY DEF Distinct
  <2>2. i \in 1..Len(sock_arr) /\ j \in 1..Len(sock_arr)
    BY <1>4, <2>1
  <2>3. QED
    BY <1>3, <2>1, <2>2 DEF Promise, Distinct
<1>6. PoolsFit' /\ Steady'
  BY <1>1 DEF Promise, PoolsFit, Steady, Calling
<1>7. ~Good'
  BY <1>1, <1>2 DEF Good
<1>8. NoneFailed' /\ NoSocketLost'
  BY <1>7 DEF NoneFailed, NoSocketLost, Good
<1>9. TrueMeansConnected'
  BY <1>1 DEF TrueMeansConnected, Promise, Steady
<1>10. QED
  BY <1>5, <1>6, <1>8, <1>9 DEF Promise

LEMMA PromiseDone ==
    ASSUME Inv, Promise, ConnectDone
    PROVE  Promise'
<1> DEFINE whole == \A i \in DOMAIN sock_arr : sock_arr[i] > 0
<1>1. /\ pc = "connect" /\ pc' = "idle" /\ Len(sock_arr) = Len(asked) /\ sock_arr' = <<>>
      /\ fds' = (IF whole THEN [fds EXCEPT ![self] = sock_arr] ELSE fds)
      /\ isnull' = (IF whole THEN [isnull EXCEPT ![self] = FALSE] ELSE isnull)
      /\ result' = Bool(whole)
      /\ UNCHANGED <<hazards, open, peer, up, self, asked>>
  BY DEF ConnectDone, given, descriptors
<1>2. Calling /\ ~Calling' /\ self \in Object /\ asked \in Lists
  BY <1>1 DEF Inv, CallOK, Calling
<1>3. /\ fds \in [Object -> Seq(Fd)] /\ isnull \in [Object -> BOOLEAN]
      /\ sock_arr \in Seq(Fd \cup {0}) /\ asked \in Seq(Address)
  BY DEF Inv, TypeOK
<1>4. Distinct' /\ Steady' /\ NoneFailed'
  <2>1. Distinct'
    BY <1>1 DEF Distinct
  <2>2. Steady' /\ NoneFailed'
    BY <1>1, <1>2 DEF Promise, Steady, NoneFailed
  <2>3. QED
    BY <2>1, <2>2
<1>5. Underway' = {}
  BY <1>1 DEF Underway, ToSet
<1>6. CASE whole
  <2>1. fds' = [fds EXCEPT ![self] = sock_arr] /\ isnull' = [isnull EXCEPT ![self] = FALSE]
    BY <1>1, <1>6
  <2>2. fds'[self] = sock_arr /\ ~isnull'[self]
    BY <1>2, <1>3, <2>1
  <2>3. \A o \in Object \ {self} : fds'[o] = fds[o] /\ isnull'[o] = isnull[o]
    BY <1>3, <2>1
  <2>4. sock_arr \in Seq(Fd) /\ Underway = ToSet(sock_arr)
    BY <1>1, <1>6, WholeSockets
  <2>5. Pooled(self)' = ToSet(sock_arr) /\ \A o \in Object \ {self} : Pooled(o)' = Pooled(o)
    <3>1. Pooled(self)' = ToSet(sock_arr)
      BY <1>1, <2>2 DEF Pooled
    <3>2. QED
      BY <2>3, <3>1 DEF Pooled
  <2>6. PoolsFit'
    <3>1. SUFFICES ASSUME NEW o \in Object, ~isnull'[o]
                   PROVE  \E addresses \in Lists : Len(fds'[o]) = Len(addresses)
      BY DEF PoolsFit
    <3>2. CASE o = self
      BY <1>1, <1>2, <2>2, <3>2
    <3>3. CASE o # self
      BY <2>3, <3>1, <3>3 DEF Promise, PoolsFit
    <3>4. QED
      BY <3>2, <3>3
  <2>7. NoSocketLost'
    <3>1. SUFFICES ASSUME Good, NEW f \in open PROVE \E o \in Object : f \in Pooled(o)'
      BY <1>1 DEF NoSocketLost, Good
    <3>2. open \subseteq Underway \cup UNION {Pooled(o) : o \in Object}
      BY <3>1 DEF Promise, NoSocketLost, Good
    <3>3. CASE f \in Underway
      <4>1. PICK o \in Object : o = self
        BY <1>2
      <4>2. Pooled(o)' = ToSet(sock_arr)
        BY <1>1, <2>5, <4>1
      <4>3. QED
        BY <2>4, <3>3, <4>2
    <3>4. ASSUME NEW o \in Object, f \in Pooled(o) PROVE o # self
      BY <1>1, <1>2, <3>4 DEF Pooled, Inv, CallOK
    <3>5. QED
      BY <2>5, <3>2, <3>3, <3>4
  <2>8. TrueMeansConnected'
    <3>1. {peer[f] : f \in ToSet(sock_arr)} = ToSet(asked)
      BY <1>1, <1>6, AllAreReached
    <3>2. \A i \in 1..Len(sock_arr) : sock_arr[i] # 0
      BY <1>3, <1>6
    <3>3. \A i, j \in 1..Len(sock_arr) : sock_arr[i] = sock_arr[j] => i = j
      BY <3>2 DEF Promise, Distinct
    <3>4. Cardinality(ToSet(sock_arr)) = Len(asked)
      BY <1>1, <2>4, <3>3, DistinctCount
    <3>5. PICK o \in Object : o = self
      BY <1>2
    <3>6. Pooled(o)' = ToSet(sock_arr)
      BY <1>1, <2>5, <3>5
    <3>7. {peer'[f] : f \in Pooled(o)'} = ToSet(asked') /\ Cardinality(Pooled(o)') = Len(asked')
      BY <1>1, <3>1, <3>4, <3>6
    <3>8. self' = o
      BY <1>1, <3>5
    <3>9. QED
      BY <3>7, <3>8 DEF TrueMeansConnected, Pooled
  <2>9. QED
    BY <1>4, <2>6, <2>7, <2>8 DEF Promise
<1>7. CASE ~whole
  <2>1. UNCHANGED <<fds, isnull>> /\ result' = "false"
    BY <1>1, <1>7 DEF Bool
  <2>2. ~Good
    <3>1. Good => whole
      <4>1. SUFFICES ASSUME Good, NEW i \in DOMAIN sock_arr PROVE sock_arr[i] > 0
        OBVIOUS
      <4>2. i \in 1..Len(sock_arr) /\ sock_arr[i] \in Fd \cup {0}
        BY <1>3, <4>1
      <4>3. sock_arr[i] # 0
        BY <1>2, <4>1, <4>2 DEF Promise, NoneFailed
      <4>4. QED
        BY <4>2, <4>3, ConnectorAssumption DEF Fd
    <3>2. QED
      BY <1>7, <3>1
  <2>3. NoSocketLost' /\ TrueMeansConnected'
    BY <1>1, <2>1, <2>2 DEF NoSocketLost, TrueMeansConnected, Good
  <2>4. PoolsFit'
    BY <2>1 DEF Promise, PoolsFit
  <2>5. QED
    BY <1>4, <2>3, <2>4 DEF Promise
<1>8. QED
  BY <1>6, <1>7

LEMMA PromiseClose ==
    ASSUME Inv, Promise, NEW o \in Object, closeNsqdConnection(o)
    PROVE  Promise'
<1>1. pc = "idle" /\ ~isnull[o] /\ "after_close" \notin hazards
  BY DEF closeNsqdConnection, HasArray, Uses, Inv, NullOK
<1>2. /\ open' = open \ Pooled(o)
      /\ isnull' = [isnull EXCEPT ![o] = TRUE]
      /\ fds' = [fds EXCEPT ![o] = <<>>]
      /\ result' = "none"
      /\ UNCHANGED <<sock_arr, hazards, up, pc>>
  BY <1>1 DEF closeNsqdConnection, Close, NextCall, Pooled, given
<1>3. ~Calling /\ ~Calling'
  BY <1>1, <1>2 DEF Calling
<1>4. fds \in [Object -> Seq(Fd)] /\ isnull \in [Object -> BOOLEAN]
  BY DEF Inv, TypeOK
<1>5. Distinct' /\ Steady' /\ NoneFailed' /\ TrueMeansConnected'
  BY <1>1, <1>2, <1>3 DEF Promise, Distinct, Steady, NoneFailed, TrueMeansConnected
<1>6. PoolsFit'
  BY <1>2, <1>4 DEF Promise, PoolsFit
<1>7. Underway' = Underway /\ \A p \in Object \ {o} : Pooled(p)' = Pooled(p)
  BY <1>2, <1>4 DEF Pooled, Underway
<1>8. NoSocketLost'
  <2>1. SUFFICES ASSUME Good, NEW f \in open', f \notin Underway PROVE \E p \in Object : f \in Pooled(p)'
    BY <1>2, <1>7 DEF NoSocketLost, Good
  <2>2. open \subseteq Underway \cup UNION {Pooled(p) : p \in Object}
    BY <2>1 DEF Promise, NoSocketLost, Good
  <2>3. PICK p \in Object : f \in Pooled(p)
    BY <1>2, <2>1, <2>2
  <2>4. QED
    BY <1>2, <1>7, <2>1, <2>3
<1>9. QED
  BY <1>5, <1>6, <1>8 DEF Promise

LEMMA PromiseInit == Init => Promise
<1> SUFFICES ASSUME Init PROVE Promise
  OBVIOUS
<1>1. PoolsFit /\ Distinct /\ Steady /\ NoneFailed /\ TrueMeansConnected
  BY DEF Init, PoolsFit, Distinct, Steady, NoneFailed, TrueMeansConnected, Calling
<1>2. NoSocketLost
  BY DEF Init, NoSocketLost
<1>3. QED
  BY <1>1, <1>2 DEF Promise

LEMMA PromiseStep == Inv /\ Promise /\ [Next]_vars => Promise'
<1> SUFFICES ASSUME Inv, Promise, [Next]_vars PROVE Promise'
  OBVIOUS
<1>1. ASSUME NEW o \in Object, NEW addresses \in Lists,
             \/ connectNsqd(o, addresses)
             \/ ConnectAgain(o, addresses) \/ ConnectAgainOverflows(o, addresses)
      PROVE  Promise'
  <2>1. CASE connectNsqd(o, addresses)
    BY <2>1, PromiseCall
  <2>2. CASE ConnectAgain(o, addresses) \/ ConnectAgainOverflows(o, addresses)
    BY <2>2, PromiseIdle DEF ConnectAgain, ConnectAgainOverflows, NextCall, given, property, descriptors
  <2>3. QED
    BY <1>1, <2>1, <2>2
<1>2. CASE Connected \/ Refused \/ TimesOut \/ Waits \/ KernelTimesOut \/ Unresolved \/ ConnectDone
  BY <1>2, PromiseConnected, PromiseFailed, PromisePause, PromiseDone
<1>3. ASSUME NEW o \in Object, closeNsqdConnection(o) \/ publish(o) \/ Crash(o)
      PROVE  Promise'
  <2>1. CASE closeNsqdConnection(o)
    BY <2>1, PromiseClose
  <2>2. CASE publish(o) \/ Crash(o)
    BY <2>2, PromiseUse
  <2>3. QED
    BY <1>3, <2>1, <2>2
<1>4. ASSUME NEW a \in Address, NsqdStops(a) \/ NsqdStarts(a)
      PROVE  Promise'
  BY <1>4, PromiseNsqd
<1>5. CASE UNCHANGED vars
  <2>1. UNCHANGED <<hazards, fds, isnull, open, peer, up, pc, self, asked, sock_arr, result>>
    BY <1>5 DEF vars, given, property, descriptors, call
  <2>2. PoolsFit' /\ Distinct' /\ Steady' /\ NoneFailed'
    BY <2>1 DEF Promise, PoolsFit, Distinct, Steady, NoneFailed, Good, Calling
  <2>3. NoSocketLost' /\ TrueMeansConnected'
    BY <2>1 DEF Promise, NoSocketLost, TrueMeansConnected, Pooled, Underway
  <2>4. QED
    BY <2>2, <2>3 DEF Promise
<1>6. QED
  BY <1>1, <1>2, <1>3, <1>4, <1>5 DEF Next

LEMMA PromiseKept == "after_close" \notin Hazards => (Spec => []Promise)
<1> SUFFICES ASSUME "after_close" \notin Hazards PROVE Spec => []Promise
  OBVIOUS
<1>1. QED
  BY Invariant, PromiseInit, PromiseStep, PTL DEF Spec

(* As long as every nsqd is up and answers and the process has descriptors *)
(* for every list, each socket open is in an object's property, or         *)
(* connectNsqd() is about to put it there: closeNsqdConnection() can reach *)
(* it (nsq.c:137-184, pub.c:72-135).                                       *)
THEOREM SocketsStayInReach == "after_close" \notin Hazards => (Spec => []NoSocketLost)
<1>1. Promise => NoSocketLost
  BY DEF Promise
<1>2. QED
  BY <1>1, PromiseKept, PTL

(* true from connectNsqd() means a socket of its own for each address that *)
(* it was given, connected to it, whatever has failed before (nsq.c:149-   *)
(* 184).                                                                   *)
THEOREM TrueIsConnected == "after_close" \notin Hazards => (Spec => []TrueMeansConnected)
<1>1. Promise => TrueMeansConnected
  BY DEF Promise
<1>2. QED
  BY <1>1, PromiseKept, PTL
==============================================================================
