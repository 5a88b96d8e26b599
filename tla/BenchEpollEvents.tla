-------------------------- MODULE BenchEpollEvents --------------------------
(***************************************************************************)
(* The second layer of bench_epoll's inductive invariant, on top of Core:  *)
(* no wake-up is lost, active_fds is the number of registrations, and      *)
(* every attempt goes through the protocol in order.                       *)
(***************************************************************************)
EXTENDS BenchEpollProofs

USE ConnectionAssumption, FdsAssumption DEF handlerVars, historyVars, socketVars, epollVars, loopVars

\* What Core says of the types of the bench's variables.
LEMMA CoreTypes ==
    ASSUME Core
    PROVE  /\ HandlersTypeOK /\ conn \in [Conns -> ConnectionRecord]
           /\ ready \in [Fds -> SUBSET Conditions] /\ wire \in [Conns -> Wire] /\ ctx \in BOOLEAN
           /\ interest \in [Fds -> SUBSET {"IN", "OUT"}] /\ data \in [Fds -> Conns \cup {-1}]
           /\ events \in [Conns -> SUBSET Bits] /\ phase \in Phases /\ i \in Nat /\ active \in Nat
           /\ open \subseteq Fds
           /\ phase \in {"init", "setup", "report"} => i \in Conns
BY DEF Core, TypeOK, HandlersTypeOK, SocketsTypeOK, Bookkeeping

\* A registered descriptor is one of a connection that waits.
LEMMA RegisteredWaits ==
    ASSUME Core, NEW fd \in Fds, Registered(fd)
    PROVE  /\ data[fd] \in Conns /\ Fd(data[fd]) = fd /\ conn[data[fd]].state \in Waiting
           /\ fd \in open
BY DEF Core, InterestMatchesState, DescriptorOwnership, Waiting

-----------------------------------------------------------------------------
(* No lost wake-up.                                                         *)

\* What a step that arms nothing has to keep of every registered socket that is
\* ready, for no wake-up to be lost.
LEMMA WakeupsKept ==
    ASSUME Wakeups,
           \A fd \in Fds : Registered(fd)' /\ ready'[fd] # {} =>
              /\ ready'[fd] = ready[fd] /\ interest'[fd] = interest[fd] /\ data'[fd] = data[fd]
              /\ fd \in armed => fd \in armed'
              /\ events'[data[fd]] = events[data[fd]],
           phase' \notin {"handle", "exit"} => events' = NoEvents
    PROVE  Wakeups'
BY DEF Wakeups, NoLostWakeup, Registered, Mask

LEMMA HandlerWakeups ==
    ASSUME Core, Wakeups, NEW c \in Conns, Handle(c)
    PROVE  Wakeups'
<1>1. HandlerStep(c)
  BY HandleIsHandlerStep
<1>2. /\ events' = [events EXCEPT ![c] = {}]
      /\ phase' = IF \A d \in Conns \ {c} : events[d] = {} THEN "loop" ELSE "handle"
      /\ \A fd \in Fds : /\ interest'[fd] = IF fd = Fd(c) THEN {} ELSE interest[fd]
                         /\ data'[fd] = IF fd = Fd(c) THEN -1 ELSE data[fd]
      /\ armed' = armed \ {Fd(c)}
      /\ \A fd \in Fds \ {Fd(c)} : ready'[fd] = ready[fd]
  BY <1>1 DEF HandlerStep, Settled, OnSocketOf, Handled, Deregister, Forget
<1>3. ASSUME NEW fd \in Fds, Registered(fd)'
      PROVE  /\ ready'[fd] = ready[fd] /\ interest'[fd] = interest[fd] /\ data'[fd] = data[fd]
             /\ fd \in armed => fd \in armed'
             /\ events'[data[fd]] = events[data[fd]]
  <2>1. fd # Fd(c) /\ interest'[fd] = interest[fd] /\ data'[fd] = data[fd] /\ Registered(fd)
    BY <1>2, <1>3 DEF Registered
  <2>2. data[fd] \in Conns /\ data[fd] # c
    BY <2>1, RegisteredWaits
  <2> QED BY <1>2, <2>1, <2>2, CoreTypes
<1>4. phase' \notin {"handle", "exit"} => events' = NoEvents
  BY <1>2, CoreTypes DEF NoEvents
<1> QED BY <1>3, <1>4, WakeupsKept

\* What epoll_wait reports leaves the ready list for the hands of a handler.
LEMMA WaitWakeups ==
    ASSUME Core, Wakeups, Wait
    PROVE  Wakeups'
<1>1. PICK S \in SUBSET Fds :
         /\ Report(S, active)
         /\ events' = [c \in Conns |-> UNION {Mask(fd) : fd \in {f \in S : data[f] = c}}]
         /\ phase' = IF S = {} THEN "loop" ELSE "handle"
  BY DEF Wait
<1>2. UNCHANGED <<ready, interest, data>> /\ events = NoEvents
  BY <1>1 DEF Wait, Report, Wakeups
<1>3. ASSUME NEW fd \in Fds, Registered(fd), Mask(fd) # {}
      PROVE  fd \in armed' \/ events'[data[fd]] # {}
  <2>1. data[fd] \in Conns
    BY <1>3, RegisteredWaits
  <2>2. fd \in armed
    BY <1>2, <1>3, <2>1 DEF Wakeups, NoLostWakeup, NoEvents
  <2>3. fd \in Deliverable
    BY <1>3, <2>2 DEF Deliverable
  <2>4. CASE fd \in S
    BY <1>1, <1>3, <2>1, <2>4
  <2>5. CASE fd \notin S
    BY <1>1, <2>2, <2>3, <2>5 DEF Report
  <2> QED BY <2>4, <2>5
<1>4. NoLostWakeup'
  BY <1>2, <1>3 DEF NoLostWakeup, Registered, Mask
<1>5. phase' \notin {"handle", "exit"} => events' = NoEvents
  <2>1. S = {} => events' = [c \in Conns |-> {}]
    BY <1>1
  <2> QED BY <1>1, <2>1 DEF NoEvents
<1> QED BY <1>4, <1>5 DEF Wakeups

LEMMA NextWakeups ==
    ASSUME Core, Wakeups, [Next]_vars
    PROVE  Wakeups'
<1>1. CASE InitConnection
  <2>1. /\ phase = "init" /\ phase' \in {"init", "create"}
        /\ UNCHANGED <<interest, data, armed, events>>
    BY <1>1 DEF InitConnection, Next0
  <2>2. ready' = ready \/ \E fd \in Fds : ready' = [ready EXCEPT ![fd] = {}]
    BY <1>1 DEF InitConnection, FirstDial, OpenSocket
  <2>3. \A fd \in Fds : ready'[fd] # {} => ready'[fd] = ready[fd]
    BY <2>2, CoreTypes
  <2> QED BY <2>1, <2>3, WakeupsKept DEF Wakeups
<1>2. CASE /\ UNCHANGED <<ready, interest, data, armed, events>>
           /\ phase' \in {"handle", "exit"} \/ phase \notin {"handle", "exit"}
  BY <1>2, WakeupsKept DEF Wakeups, Registered
<1>3. CASE SetupRestart
  <2>1. /\ phase = "setup" /\ events' = events
        /\ \A fd \in Fds : /\ interest'[fd] = IF fd = Fd(i) THEN {} ELSE interest[fd]
                           /\ data'[fd] = IF fd = Fd(i) THEN -1 ELSE data[fd]
        /\ armed' = armed \ {Fd(i)}
    BY <1>3 DEF SetupRestart, Forget
  <2>2. \A fd \in Fds : ready'[fd] # {} => ready'[fd] = ready[fd]
    BY <1>3 DEF SetupRestart, Redialled, CloseSocket, ReopenSocket
  <2> QED BY <2>1, <2>2, WakeupsKept DEF Wakeups, Registered
<1>4. CASE SetupRegister
  <2>1. phase = "setup" /\ events' = events /\ ready' = ready /\ i \in Conns
    BY <1>4, CoreTypes DEF SetupRegister
  <2>2. CASE Registered(Fd(i))
    BY <1>4, <2>1, <2>2, WakeupsKept DEF SetupRegister, Register, Add, Wakeups
  <2>3. CASE ~Registered(Fd(i))
    <3>1. /\ interest' = [interest EXCEPT ![Fd(i)] = Interest(conn[i].state)]
          /\ data' = [data EXCEPT ![Fd(i)] = i]
          /\ armed' = IF ready[Fd(i)] \cap (Interest(conn[i].state) \cup {"ERR"}) # {}
                      THEN armed \cup {Fd(i)} ELSE armed
      BY <1>4, <2>3 DEF SetupRegister, Register, Add
    <3>2. ASSUME NEW fd \in Fds, Registered(fd)', Mask(fd)' # {}
          PROVE  fd \in armed' \/ events'[data'[fd]] # {}
      <4>1. CASE fd = Fd(i)
        BY <2>1, <3>1, <3>2, <4>1, CoreTypes DEF Mask
      <4>2. CASE fd # Fd(i)
        <5>1. /\ interest'[fd] = interest[fd] /\ data'[fd] = data[fd]
              /\ fd \in armed => fd \in armed'
          BY <3>1, <4>2, CoreTypes
        <5> QED BY <2>1, <3>1, <3>2, <4>2, <5>1, CoreTypes
                DEF Wakeups, NoLostWakeup, Mask, Registered
      <4> QED BY <4>1, <4>2
    <3> QED BY <2>1, <3>2 DEF Wakeups, NoLostWakeup, Registered, Mask
  <2> QED BY <2>2, <2>3
<1>5. CASE Wait
  BY <1>5, WaitWakeups
<1>6. ASSUME NEW c \in Conns, Handle(c) PROVE Wakeups'
  BY <1>6, HandlerWakeups
<1>7. CASE ReportConnection
  <2>1. /\ phase = "report" /\ events' = events
        /\ \/ /\ \A fd \in Fds : /\ interest'[fd] = IF fd = Fd(i) THEN {} ELSE interest[fd]
                                 /\ data'[fd] = IF fd = Fd(i) THEN -1 ELSE data[fd]
                                 /\ ready'[fd] = IF fd = Fd(i) THEN {} ELSE ready[fd]
              /\ armed' = armed \ {Fd(i)}
           \/ UNCHANGED <<ready, interest, data, armed>>
    BY <1>7 DEF ReportConnection, Forget, CloseSocket
  <2> QED BY <2>1, WakeupsKept DEF Wakeups, Registered
<1>8. ASSUME NEW c \in Conns, Network(c) PROVE Wakeups'
  <2>1. PICK bits \in {{"OUT"}, {"IN"}, Bits} : Arrival(Fd(c), bits) /\ Arm(Fd(c), bits)
    BY <1>8 DEF Network, PeerActs
  <2>2. UNCHANGED <<interest, data, events, phase>>
    BY <1>8, <2>1 DEF Network, Arm
  <2>3. /\ ready' = [ready EXCEPT ![Fd(c)] = @ \cup bits]
        /\ armed' = IF Registered(Fd(c)) /\ bits \cap (interest[Fd(c)] \cup {"ERR"}) # {}
                    THEN armed \cup {Fd(c)} ELSE armed
    BY <2>1 DEF Arrival, Arm
  <2>4. ASSUME NEW fd \in Fds, Registered(fd), Mask(fd)' # {}
        PROVE  fd \in armed' \/ events[data[fd]] # {}
    <3>1. CASE Mask(fd) # {}
      BY <2>3, <2>4, <3>1 DEF Wakeups, NoLostWakeup
    <3>2. CASE Mask(fd) = {}
      <4>1. ready'[fd] # ready[fd] /\ ready' = [ready EXCEPT ![Fd(c)] = @ \cup bits]
        BY <2>2, <2>3, <2>4, <3>2 DEF Mask
      <4>2. fd = Fd(c)
        BY <4>1, CoreTypes
      <4>3. ready'[fd] = ready[fd] \cup bits
        BY <4>1, <4>2, CoreTypes
      <4>4. bits \cap (interest[fd] \cup {"ERR"}) # {}
        BY <2>2, <2>4, <3>2, <4>3 DEF Mask
      <4> QED BY <2>3, <2>4, <4>2, <4>4
    <3> QED BY <3>1, <3>2
  <2> QED BY <2>2, <2>4 DEF Wakeups, NoLostWakeup, Registered
<1>9. ASSUME NEW c \in Conns, SigPipe(c) PROVE Wakeups'
  BY <1>2, <1>9 DEF SigPipe
<1> QED
  BY <1>1, <1>2, <1>3, <1>4, <1>5, <1>6, <1>7, <1>8, <1>9
     DEF Next, Bench, Terminated, vars, CreateEpoll, LoopHead, AfterHead, SetupIdle, SetupAddFails,
         WaitFails, Tick, NextSetup, Next0

-----------------------------------------------------------------------------
(* active_fds.                                                              *)

\* The registrations of the connections before n.
RegisteredBefore(n) == {fd \in Fds : Registered(fd) /\ data[fd] < n}

\* Only descriptors of connections are registered, so these are finitely many.
LEMMA RegisteredFinite ==
    ASSUME Core, NEW n
    PROVE  IsFiniteSet(RegisteredBefore(n))
<1> DEFINE T == {Fd(c) : c \in Conns}
           f == [c \in Conns |-> Fd(c)]
<1>1. f \in Surjection(Conns, T)
  BY DEF Surjection
<1>2. IsFiniteSet(T)
  BY <1>1, ConnsFinite, FS_Surjection
<1>3. RegisteredBefore(n) \in SUBSET T
  BY RegisteredWaits DEF RegisteredBefore
<1> QED BY <1>2, <1>3, FS_Subset

\* The loop over the connections passes connection i: active_fds stays the count
\* of the registrations behind it, and is that of all of them at the end.
LEMMA CountingStep ==
    ASSUME Core, Counting, phase = "setup", NEW counted \in {0, 1}, NextSetup(counted),
           RegisteredBefore(i)' =
              IF counted = 1 THEN RegisteredBefore(i) \cup {Fd(i)} ELSE RegisteredBefore(i),
           counted = 1 => Fd(i) \notin RegisteredBefore(i),
           Core'
    PROVE  Counting'
<1>1. /\ i \in Conns /\ i \in Nat /\ active \in Nat /\ active <= i
      /\ active = Cardinality(RegisteredBefore(i))
      /\ NumConnections \in Nat \ {0} /\ NumConnections <= Clients
  BY CoreTypes, ConnsNonEmpty DEF Counting, RegisteredBefore, Conns, NumConnections
<1>2. active' = Cardinality(RegisteredBefore(i)')
  <2>1. CASE counted = 0
    BY <1>1, <2>1 DEF NextSetup
  <2>2. CASE counted = 1
    <3>1. IsFiniteSet(RegisteredBefore(i))
      BY RegisteredFinite
    <3>2. Cardinality(RegisteredBefore(i) \cup {Fd(i)}) = Cardinality(RegisteredBefore(i)) + 1
      BY <2>2, <3>1, FS_AddElement
    <3> QED BY <1>1, <2>2, <3>2 DEF NextSetup
  <2> QED BY <2>1, <2>2
<1>3. i' = i + 1 /\ active' \in Nat /\ active' <= i + 1
  BY <1>1 DEF NextSetup
<1>4. CASE phase' = "setup"
  BY <1>2, <1>3, <1>4 DEF Counting, ActiveIsRegistered, RegisteredBefore
<1>5. CASE phase' = "wait"
  <2>1. i + 1 = NumConnections /\ active' # 0
    BY <1>5 DEF NextSetup, Next0
  <2>2. active' \in 1 .. Clients
    BY <1>1, <1>3, <2>1
  <2>3. RegisteredBefore(i)' = {fd \in Fds : Registered(fd)'}
    <3>1. ASSUME NEW fd \in Fds, Registered(fd)' PROVE data'[fd] < i + 1
      BY <1>1, <2>1, <3>1 DEF Core, InterestMatchesState, Conns
    <3> QED BY <1>3, <3>1 DEF RegisteredBefore
  <2> QED BY <1>2, <1>5, <2>2, <2>3 DEF Counting, ActiveIsRegistered, Registered
<1>6. CASE phase' = "loop"
  BY <1>6 DEF Counting, ActiveIsRegistered
<1> QED BY <1>4, <1>5, <1>6 DEF NextSetup, Next0

LEMMA NextCounting ==
    ASSUME Core, Core', Counting, [Next]_vars
    PROVE  Counting'
<1> USE DEF Counting, ActiveIsRegistered
<1>1. CASE phase' \notin {"setup", "wait"}
  BY <1>1
<1>2. CASE UNCHANGED <<interest, data, active, i, phase>>
  BY <1>2 DEF Registered
<1>3. CASE LoopHead
  <2>1. i' = 0 /\ active' = 0 /\ phase' # "wait" /\ UNCHANGED <<interest, data>>
    BY <1>3 DEF LoopHead, AfterHead
  <2>2. {fd \in Fds : Registered(fd)' /\ data'[fd] < 0} = {}
    <3>1. ASSUME NEW fd \in Fds, Registered(fd) PROVE ~(data[fd] < 0)
      BY <3>1, RegisteredWaits DEF Conns
    <3> QED BY <2>1, <3>1 DEF Registered
  <2> QED BY <2>1, <2>2, FS_EmptySet DEF Registered
<1>4. CASE SetupIdle
  <2>1. /\ phase = "setup" /\ NextSetup(0) /\ i' = i + 1 /\ UNCHANGED <<interest, data>>
        /\ i \in Conns /\ conn[i].state \notin Waiting
    BY <1>4, CoreTypes DEF SetupIdle, NextSetup, Waiting
  <2>2. RegisteredBefore(i)' = RegisteredBefore(i)
    <3>1. ASSUME NEW fd \in Fds, Registered(fd) PROVE data[fd] < i + 1 <=> data[fd] < i
      BY <2>1, <3>1, RegisteredWaits DEF Conns
    <3> QED BY <2>1, <3>1 DEF RegisteredBefore, Registered
  <2> QED BY <2>1, <2>2, CountingStep
<1>5. CASE SetupRestart
  <2>1. /\ phase = "setup" /\ NextSetup(0) /\ i' = i + 1 /\ i \in Conns /\ conn[i].state \notin Waiting
        /\ \A fd \in Fds : /\ interest'[fd] = IF fd = Fd(i) THEN {} ELSE interest[fd]
                           /\ data'[fd] = IF fd = Fd(i) THEN -1 ELSE data[fd]
    BY <1>5, CoreTypes DEF SetupRestart, NextSetup, Forget, Waiting, Over
  <2>2. RegisteredBefore(i)' = RegisteredBefore(i)
    <3>1. ASSUME NEW fd \in Fds, Registered(fd)
          PROVE  data[fd] < i + 1 <=> data[fd] < i
      BY <2>1, <3>1, RegisteredWaits DEF Conns
    <3>2. ASSUME NEW fd \in Fds, Registered(fd) PROVE fd # Fd(i)
      <4>1. data[fd] \in Conns /\ Fd(data[fd]) = fd /\ data[fd] # i
        BY <2>1, <3>2, RegisteredWaits
      <4>2. Fd(data[fd]) = Fd(i) => Fd(i) = NoFd
        BY <2>1, <4>1 DEF Core, DescriptorOwnership
      <4> QED BY <4>1, <4>2 DEF NoFd
    <3> QED BY <2>1, <3>1, <3>2 DEF RegisteredBefore, Registered
  <2> QED BY <2>1, <2>2, CountingStep
<1>6. CASE SetupRegister
  <2>1. /\ phase = "setup" /\ NextSetup(1) /\ i' = i + 1 /\ Register(i) /\ i \in Conns
        /\ conn[i].state \in Waiting
    BY <1>6, CoreTypes DEF SetupRegister, NextSetup
  <2>2. Fd(i) \in Fds /\ Interest(conn[i].state) # {}
    BY <2>1, CoreTypes
       DEF Core, DescriptorOwnership, Waiting, Interest, ReadStates, WriteStates
  <2>3. ASSUME NEW fd \in Fds, Registered(fd)
        PROVE  data[fd] < i + 1 <=> data[fd] < i \/ fd = Fd(i)
    <3>1. data[fd] \in Conns /\ Fd(data[fd]) = fd
      BY <2>3, RegisteredWaits
    <3>2. fd = Fd(i) => data[fd] = i
      BY <2>1, <2>2, <3>1 DEF Core, DescriptorOwnership, NoFd
    <3> QED BY <2>1, <3>1, <3>2 DEF Conns
  <2>4. Fd(i) \notin RegisteredBefore(i)
    <3>1. ASSUME Registered(Fd(i)) PROVE data[Fd(i)] = i
      <4>1. data[Fd(i)] \in Conns /\ Fd(data[Fd(i)]) = Fd(i)
        BY <2>2, <3>1, RegisteredWaits
      <4> QED BY <2>1, <2>2, <4>1 DEF Core, DescriptorOwnership, NoFd
    <3> QED BY <2>1, <3>1 DEF RegisteredBefore, Conns
  <2>5. RegisteredBefore(i)' = RegisteredBefore(i) \cup {Fd(i)}
    <3>1. CASE Registered(Fd(i))
      <4>1. UNCHANGED <<interest, data>>
        BY <2>1, <3>1 DEF Register, Add
      <4> QED BY <2>1, <2>2, <2>3, <3>1, <4>1 DEF RegisteredBefore, Registered
    <3>2. CASE ~Registered(Fd(i))
      <4>1. \A fd \in Fds : /\ interest'[fd] = IF fd = Fd(i) THEN Interest(conn[i].state)
                                              ELSE interest[fd]
                            /\ data'[fd] = IF fd = Fd(i) THEN i ELSE data[fd]
        BY <2>1, <2>2, <3>2, CoreTypes DEF Register, Add
      <4>2. i < i + 1 /\ i \in Int
        BY <2>1 DEF Conns
      <4> QED BY <2>1, <2>2, <2>3, <4>1, <4>2 DEF RegisteredBefore, Registered
    <3> QED BY <3>1, <3>2
  <2> QED BY <2>1, <2>4, <2>5, CountingStep
<1> QED
  BY <1>1, <1>2, <1>3, <1>4, <1>5, <1>6
     DEF Next, Bench, Terminated, vars, InitConnection, CreateEpoll, SetupAddFails, Next0, Wait,
         WaitFails, Handle, HandleError, HandleConnecting, HandleProxyConnect,
         HandleProxyResponse, HandleHandshake, HandleSending, HandleReceiving, HandleIgnored,
         Handling, Handled, SigPipe, ReportConnection, Tick, Network, PeerActs, Arm

-----------------------------------------------------------------------------
(* The order of an attempt, and what the report leaves.                     *)

\* What send_proxy_connect leaves of the record, whatever it adds to its counter.
LEMMA TunnelSentRecord ==
    ASSUME NEW k \in ConnectionRecord, k.state = "PROXY_CONNECT", NEW n \in Int,
           NEW m, m = TunnelSent(k, n)
    PROVE  /\ m.state = "PROXY_CONNECT" \/ (m.state = "PROXY_RESPONSE" /\ m.bytes_sent = 0)
           /\ m.ssl = k.ssl
<1> DEFINE sent == (k.bytes_sent + n + SizeMod) % SizeMod
<1>1. sent \in Nat
  BY BenchEpollAssumption, ConnectionAssumption DEF ConnectionRecord
<1>2. \/ m = [k EXCEPT !.state = "PROXY_RESPONSE", !.bytes_sent = 0]
      \/ m = [k EXCEPT !.bytes_sent = sent]
  BY Zenon DEF TunnelSent
<1> HIDE DEF sent
<1> QED BY <1>1, <1>2 DEF ConnectionRecord

\* send_proxy_connect counts what it sent modulo 2^64, also an error, but it
\* resets the counter before the answer is awaited.
LEMMA ProxyConnectInOrder ==
    ASSUME NEW c \in Conns, Waits(c), InOrder(c), HandleProxyConnect(c)
    PROVE  InOrder(c)'
<1> DEFINE k == conn[c]
<1>1. k \in ConnectionRecord /\ k.state = "PROXY_CONNECT"
  BY WaitsTypes DEF HandleProxyConnect, Handling
<1>2. CASE Erroneous(c)
  BY <1>2, WaitsTypes, DroppedInOrder DEF Erroneous
<1>3. ASSUME NEW n \in SendResults(Fd(c), ConnectLen - k.bytes_sent), TunnelChunk(c, n),
             Becomes(c, TunnelSent(k, IF n = 0 THEN -1 ELSE n))
      PROVE  InOrder(c)'
  <2> DEFINE m == TunnelSent(k, IF n = 0 THEN -1 ELSE n)
  <2>1. n \in Int
    BY WaitsTypes DEF SendResults
  <2>2. /\ m.state = "PROXY_CONNECT" \/ (m.state = "PROXY_RESPONSE" /\ m.bytes_sent = 0)
        /\ m.ssl = k.ssl
    BY <1>1, <2>1, TunnelSentRecord
  <2> QED BY <1>1, <1>3, <2>1, <2>2, TunnelSentInOrder
<1> QED BY <1>2, <1>3 DEF HandleProxyConnect

LEMMA HandlerInOrder ==
    ASSUME Core, AttemptsInOrder, NEW c \in Conns, Handle(c)
    PROVE  AttemptsInOrder'
<1>1. HandlerStep(c)
  BY HandleIsHandlerStep
<1>2. Waits(c) /\ InOrder(c)
  BY <1>1, PendingWaits, AllInOrder DEF HandlerStep
<1>3. /\ ctx => ctx'
      /\ \A d \in Conns \ {c} : conn'[d] = conn[d] /\ wire'[d] = wire[d]
  BY <1>1, CoreTypes DEF HandlerStep, Settled, OnWireOf, KeepsContext, Becomes
<1>4. InOrder(c)'
  <2>1. CASE HandleError(c) \/ HandleIgnored(c)
    BY <1>2, <2>1, WaitsTypes, DroppedInOrder DEF HandleError, HandleIgnored, Dropped, Erroneous
  <2>2. CASE HandleConnecting(c)
    BY <1>2, <2>2, ConnectingInOrder DEF HandleConnecting, Handling
  <2>3. CASE HandleProxyConnect(c)
    BY <1>2, <2>3, ProxyConnectInOrder
  <2>4. CASE HandleProxyResponse(c)
    BY <1>2, <2>4, AwaitingTunnelInOrder DEF HandleProxyResponse, Handling
  <2>5. CASE HandleHandshake(c)
    BY <1>2, <2>5, HandshakingInOrder DEF HandleHandshake, Handling
  <2>6. CASE HandleSending(c)
    BY <1>2, <2>6, SendingInOrder DEF HandleSending, Handling
  <2>7. CASE HandleReceiving(c)
    BY <1>2, <2>7, ReceivingInOrder DEF HandleReceiving, Handling
  <2> QED BY <2>1, <2>2, <2>3, <2>4, <2>5, <2>6, <2>7 DEF Handle
<1> QED BY <1>3, <1>4, OthersInOrder

\* free_ssl_lib runs when every connection has been cleaned up.
LEMMA ReportInOrder ==
    ASSUME Core, AttemptsInOrder, CleanedUp, ReportConnection
    PROVE  AttemptsInOrder' /\ CleanedUp'
<1>1. /\ i \in Conns /\ i' = i + 1 /\ wire' = wire /\ Owned
      /\ conn'[i] = Cleaned(conn[i]) /\ \A c \in Conns \ {i} : conn'[c] = conn[c]
      /\ ctx' = (ctx /\ i + 1 # NumConnections)
      /\ phase' = IF i + 1 = NumConnections THEN "done" ELSE "report"
      /\ \A c \in Conns : c < i => conn[c].state = "IDLE"
  BY CoreTypes DEF ReportConnection, Becomes, Next0, CleanedUp, Owned, Core
<1>2. AttemptsInOrder' /\ \A c \in Conns : c < i + 1 => conn'[c].state = "IDLE"
  BY <1>1, ReportedInOrder
<1> QED BY <1>1, <1>2 DEF CleanedUp

LEMMA NextInOrder ==
    ASSUME Core, AttemptsInOrder, CleanedUp, [Next]_vars
    PROVE  AttemptsInOrder' /\ CleanedUp'
<1>1. CASE InitConnection
  <2>1. i \in Conns /\ HandlersTypeOK /\ FirstDial(i) /\ phase' \in {"init", "create"}
    BY <1>1, CoreTypes DEF InitConnection, Next0
  <2> QED BY <2>1, FirstDialInOrder DEF CleanedUp
<1>2. CASE SetupRestart
  <2>1. i \in Conns /\ HandlersTypeOK /\ Redialled(i) /\ phase' \notin {"report", "done"}
    BY <1>2, CoreTypes DEF SetupRestart, NextSetup, Next0
  <2> QED BY <2>1, RedialledInOrder DEF CleanedUp
<1>3. ASSUME NEW c \in Conns, Handle(c) PROVE AttemptsInOrder' /\ CleanedUp'
  <2>1. phase' \notin {"report", "done"}
    BY <1>3, HandleIsHandlerStep DEF HandlerStep, Handled
  <2> QED BY <1>3, <2>1, HandlerInOrder DEF CleanedUp
<1>4. CASE ReportConnection
  BY <1>4, ReportInOrder
<1>5. CASE /\ UNCHANGED <<conn, ctx, wire>>
           /\ \/ phase' \notin {"report", "done"}
              \/ phase' = "report" /\ i' = 0
              \/ UNCHANGED <<phase, i>>
  <2>1. \A c \in Conns : ~(c < 0)
    BY DEF Conns
  <2> QED BY <1>5, <2>1, QuietInOrder DEF CleanedUp
<1> QED
  BY <1>1, <1>2, <1>3, <1>4, <1>5
     DEF Next, Bench, Terminated, vars, CreateEpoll, LoopHead, AfterHead, SetupIdle,
         SetupRegister, SetupAddFails, NextSetup, Next0, Wait, WaitFails, SigPipe, Tick, Network,
         PeerActs

-----------------------------------------------------------------------------
(* The buffer and the counted bytes.                                        *)

LEMMA HandlerAnswersFit ==
    ASSUME Core, AnswersFitBuffer, NEW c \in Conns, Handle(c)
    PROVE  AnswersFitBuffer'
<1>1. HandlerStep(c)
  BY HandleIsHandlerStep
<1>2. /\ Waits(c) /\ AnswersFit(conn[c]) /\ conn[c] \in ConnectionRecord
      /\ \A m : Becomes(c, m) => conn'[c] = m
      /\ \A d \in Conns \ {c} : conn'[d] = conn[d]
  BY <1>1, PendingWaits, AllAnswersFit, CoreTypes DEF HandlerStep, Settled, Becomes
<1>3. CASE HandleProxyConnect(c)
  <2>1. ASSUME NEW n \in Int PROVE AnswersFit(TunnelSent(conn[c], n))
    <3> DEFINE sent == (conn[c].bytes_sent + n + SizeMod) % SizeMod
    <3>1. sent \in Int
      BY <1>2, BenchEpollAssumption, ConnectionAssumption DEF ConnectionRecord
    <3>2. \/ TunnelSent(conn[c], n) = [conn[c] EXCEPT !.state = "PROXY_RESPONSE", !.bytes_sent = 0]
          \/ TunnelSent(conn[c], n) = [conn[c] EXCEPT !.bytes_sent = sent]
      BY Zenon DEF TunnelSent
    <3> HIDE DEF sent
    <3>3. /\ AnswersFit([conn[c] EXCEPT !.state = "PROXY_RESPONSE", !.bytes_sent = 0])
          /\ AnswersFit([conn[c] EXCEPT !.bytes_sent = sent])
      BY <1>2, <3>1, AnswerOps
    <3> QED BY <3>2, <3>3
  <2>2. Erroneous(c) \/ \E n \in Int : Becomes(c, TunnelSent(conn[c], n))
    BY <1>2, <1>3, WaitsTypes DEF HandleProxyConnect, SendResults
  <2>3. AnswersFit(conn'[c])
    BY <1>2, <2>1, <2>2, CasesAnswersFit
  <2> QED BY <1>2, <2>3, CoreTypes, AnswersFitBy
<1>4. CASE ~HandleProxyConnect(c)
  <2>1. AnswersFit(conn'[c])
    BY <1>2, <1>4, CasesAnswersFit
       DEF Handle, HandleError, HandleIgnored, HandleConnecting, HandleProxyResponse,
           HandleHandshake, HandleSending, HandleReceiving
  <2> QED BY <1>2, <2>1, CoreTypes, AnswersFitBy
<1> QED BY <1>3, <1>4

LEMMA NextAnswersFit ==
    ASSUME Core, AnswersFitBuffer, [Next]_vars
    PROVE  AnswersFitBuffer'
<1>1. CASE InitConnection \/ SetupRestart \/ ReportConnection
  <2>1. /\ i \in Conns /\ HandlersTypeOK
        /\ FirstDial(i) \/ Redialled(i) \/ Becomes(i, Cleaned(conn[i]))
    BY <1>1, CoreTypes DEF InitConnection, SetupRestart, ReportConnection, NextSetup, Next0
  <2>2. /\ \A d \in Conns \ {i} : conn'[d] = conn[d]
        /\ Becomes(i, Cleaned(conn[i])) => conn'[i] = Cleaned(conn[i])
    BY <2>1 DEF FirstDial, Redialled, Becomes, HandlersTypeOK
  <2> QED BY <2>1, <2>2, AnswersFitBy
<1>2. ASSUME NEW c \in Conns, Handle(c) PROVE AnswersFitBuffer'
  BY <1>2, HandlerAnswersFit
<1>3. CASE UNCHANGED conn
  BY <1>3 DEF AnswersFitBuffer
<1> QED
  BY <1>1, <1>2, <1>3
     DEF Next, Bench, Terminated, vars, handlerVars, CreateEpoll, LoopHead, AfterHead, SetupIdle,
         SetupRegister, SetupAddFails, Wait, WaitFails, SigPipe, Tick, Network, PeerActs

-----------------------------------------------------------------------------
(* The sums of the report.                                                  *)

LEMMA ReportConnectionReported ==
    ASSUME Core, Reported, ReportConnection
    PROVE  Reported'
<1>1. PICK c \in Conns : c = i
  BY CoreTypes DEF ReportConnection
<1>2. /\ i' = c + 1 /\ phase' \in {"report", "done"}
      /\ conn \in [Conns -> ConnectionRecord]
      /\ conn'[c] = Cleaned(conn[c]) /\ \A d \in Conns \ {c} : conn'[d] = conn[d]
      /\ totals' = Added(totals, conn[c]) /\ totals = EarnedBy({d \in Conns : d < c})
  BY <1>1, CoreTypes DEF ReportConnection, Becomes, Next0, Reported
<1>3. EarnedBy({d \in Conns : d < c + 1})' = totals'
  BY <1>2, EarnedAdds
<1> QED BY <1>2, <1>3 DEF Reported, EarnedBy

LEMMA NextReported ==
    ASSUME Core, Reported, [Next]_vars
    PROVE  Reported'
<1>1. CASE ReportConnection
  BY <1>1, ReportConnectionReported
<1>2. CASE /\ phase \notin {"report", "done", "exit"} /\ totals' = totals
           /\ phase' \notin {"report", "done"} \/ (phase' = "report" /\ i' = 0)
  <2>1. totals' = NoTotals
    BY <1>2 DEF Reported
  <2>2. EarnedBy({c \in Conns : c < 0})' = NoTotals
    BY EarnedByNobody
  <2> QED BY <1>2, <2>1, <2>2 DEF Reported, EarnedBy
<1>3. CASE phase' = "exit"
  BY <1>3 DEF Reported
<1>4. CASE UNCHANGED <<phase, i, conn, totals>>
  BY <1>4 DEF Reported, EarnedBy
<1>5. ASSUME NEW c \in Conns, Handle(c) PROVE Reported'
  <2>1. /\ phase = "handle" /\ phase' \in {"loop", "handle"} /\ totals' = totals
    BY <1>5, HandleIsHandlerStep DEF HandlerStep, Pending, Handled
  <2> QED BY <1>2, <2>1
<1> QED
  BY <1>1, <1>2, <1>3, <1>4, <1>5
     DEF Next, Bench, Terminated, vars, InitConnection, CreateEpoll, LoopHead, AfterHead,
         SetupIdle, SetupRestart, SetupRegister, SetupAddFails, NextSetup, Next0, Wait, WaitFails,
         SigPipe, Tick, Network, PeerActs

-----------------------------------------------------------------------------
(* The theorems.                                                            *)

LEMMA InitInductive == Init => Inductive
<1> SUFFICES ASSUME Init PROVE Inductive
  OBVIOUS
<1>1. Wakeups /\ Counting
  BY DEF Init, EpollInit, Wakeups, NoLostWakeup, Registered, Counting, ActiveIsRegistered
<1>2. AttemptsInOrder
  <2> SUFFICES ASSUME NEW c \in Conns PROVE InOrder(c)
    BY AllInOrder
  <2> QED BY FreshInOrder DEF Init, HandlersInit, InOrder
<1>3. CleanedUp
  BY DEF Init, CleanedUp
<1>4. Reported
  BY DEF Init, Reported
<1>5. AnswersFitBuffer
  BY FreshAnswersFit, AllAnswersFit DEF Init, HandlersInit
<1> QED BY <1>1, <1>2, <1>3, <1>4, <1>5, InitCore DEF Inductive

LEMMA NextInductive == Inductive /\ [Next]_vars => Inductive'
BY NextCore, NextWakeups, NextCounting, NextInOrder, NextAnswersFit, NextReported
   DEF Inductive

\* In every behaviour of bench_epoll.c the whole inductive invariant holds.
THEOREM InductiveInvariant == Spec => []Inductive
<1>1. Init => Inductive
  BY InitInductive
<1>2. Inductive /\ [Next]_vars => Inductive'
  BY NextInductive
<1> QED BY <1>1, <1>2, PTL DEF Spec

\* Edge-triggered registrations: no socket that is registered and ready waits for
\* an edge that has already happened.
THEOREM WakeupTheorem == Spec => []NoLostWakeup
<1>1. Inductive => NoLostWakeup
  BY DEF Inductive, Wakeups
<1> QED BY <1>1, InductiveInvariant, PTL

\* epoll_wait is told of as many events as there are registered descriptors, at
\* least one and never more than the events array has room for.
THEOREM ActiveTheorem == Spec => []ActiveIsRegistered
<1>1. Inductive => ActiveIsRegistered
  BY DEF Inductive, Counting
<1> QED BY <1>1, InductiveInvariant, PTL

\* SSL_connect, SSL_write and SSL_read of bench_epoll run over an object made for
\* the current socket while the global context exists.
THEOREM TlsTheorem == Spec => []TlsLifecycle
<1>1. Inductive => TlsLifecycle
  BY DEF Inductive, AttemptsInOrder
<1> QED BY <1>1, InductiveInvariant, PTL

\* bench_epoll awaits an answer only to a request that went out whole, each byte once.
THEOREM RequestTheorem == Spec => []RequestOnWire
<1>1. Inductive => RequestOnWire
  BY DEF Inductive, AttemptsInOrder
<1> QED BY <1>1, InductiveInvariant, PTL

\* No answer overruns received_response, and the bytes bench_epoll counts are those
\* of its answers.
THEOREM AnswersTheorem == Spec => []AnswersFitBuffer
<1>1. Inductive => AnswersFitBuffer
  BY DEF Inductive
<1> QED BY <1>1, InductiveInvariant, PTL

\* What a bench that ends regularly reports is the sum over all clients, and it
\* has closed every socket, freed every TLS object and the context.
THEOREM ReportTheorem == Spec => []ReportComplete
<1>1. Inductive => ReportComplete
  <2> SUFFICES ASSUME Inductive, phase = "done"
               PROVE  /\ totals = Earned
                      /\ open = {} /\ ~ctx /\ \A c \in Conns : conn[c].ssl = "NULL"
    BY DEF ReportComplete
  <2>1. ~ctx /\ i = NumConnections /\ \A c \in Conns : conn[c].state = "IDLE"
    BY ConnsNonEmpty DEF Inductive, CleanedUp, Conns
  <2>2. {c \in Conns : c < i} = Conns
    BY <2>1, ConnsNonEmpty DEF Conns
  <2>3. totals = Earned
    BY <2>2 DEF Inductive, Reported, Earned
  <2> QED BY <2>1, <2>3
          DEF Inductive, Core, DescriptorOwnership, AttemptsInOrder, TlsLifecycle, Over
<1> QED BY <1>1, InductiveInvariant, PTL
=============================================================================
