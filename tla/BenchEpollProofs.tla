-------------------------- MODULE BenchEpollProofs --------------------------
(***************************************************************************)
(* Theorems about bench_epoll for every number of clients, every set of    *)
(* descriptors and every value of the other constants.                     *)
(***************************************************************************)
EXTENDS BenchEpoll, HandlersProofs

USE FdsAssumption

-----------------------------------------------------------------------------
(* handle_ready_connection.                                                *)

HandlerStep(c) == Pending(c) /\ Handled(c) /\ Settled(c)

\* A pending event is one of a registered connection that waits for something.
LEMMA PendingWaits ==
    ASSUME Core, NEW c \in Conns, Pending(c)
    PROVE  Waits(c) /\ Registered(Fd(c)) /\ wire[c] \in Wire
<1>1. Fd(c) \in Fds /\ Registered(Fd(c)) /\ data[Fd(c)] = c
  BY DEF Core, EventsCurrent
<1>2. conn[c].state \in Waiting
  BY <1>1 DEF Core, InterestMatchesState
<1>3. HandlersTypeOK /\ wire[c] \in Wire
  BY DEF Core, TypeOK, HandlersTypeOK
<1>4. Forced => conn[c].state # "RECEIVING"
  BY Zenon DEF Core, Bookkeeping
<1> QED BY <1>1, <1>2, <1>3, <1>4 DEF Waits

\* send_proxy_connect: even a failed send() only moves the connection on.
LEMMA ProxyConnectSettles ==
    ASSUME NEW c \in Conns, Waits(c), HandleProxyConnect(c)
    PROVE  Settled(c)
<1> DEFINE k == conn[c]
<1>1. CASE Erroneous(c)
  BY <1>1, DroppedSettles
<1>2. ASSUME NEW n \in SendResults(Fd(c), ConnectLen - k.bytes_sent), TunnelChunk(c, n),
             Becomes(c, TunnelSent(k, IF n = 0 THEN -1 ELSE n))
      PROVE  Settled(c)
  <2>1. n \in Int /\ n >= -1
    BY WaitsTypes DEF SendResults
  <2>2. OnSocketOf(c) /\ KeepsContext /\ errno' \in Errno
    BY <1>2, WaitsTypes, DrainType, ErrnoType DEF TunnelChunk
  <2>3. OnWireOf(c)
    BY <1>2, <2>1, WaitsTypes, WireGrows DEF TunnelChunk
  <2>4. ASSUME NEW m \in Int, m >= -1 PROVE Outcome(k, TunnelSent(k, m))
    <3>1. (k.bytes_sent + m + SizeMod) % SizeMod \in Nat
      BY <2>4, WaitsTypes, BenchEpollAssumption, ConnectionAssumption
    <3> QED BY <3>1, WaitsTypes, OutcomeOps DEF TunnelSent, SslState
  <2>5. Outcome(k, TunnelSent(k, IF n = 0 THEN -1 ELSE n))
    BY <2>1, <2>4
  <2> QED BY <1>2, <2>2, <2>3, <2>5, SettledBy
<1> QED BY <1>1, <1>2 DEF HandleProxyConnect

\* Every call of handle_ready_connection settles or advances the connection its
\* event belongs to and no other.
LEMMA HandleIsHandlerStep ==
    ASSUME Core, NEW c \in Conns, Handle(c)
    PROVE  HandlerStep(c)
<1>1. Pending(c) /\ Handled(c)
  BY DEF Handle, HandleError, HandleConnecting, HandleProxyConnect, HandleProxyResponse,
         HandleHandshake, HandleSending, HandleReceiving, HandleIgnored, Handling
<1> SUFFICES Settled(c)
  BY <1>1 DEF HandlerStep
<1>2. Waits(c)
  BY <1>1, PendingWaits
<1>3. CASE HandleError(c) \/ HandleIgnored(c)
  BY <1>2, <1>3, DroppedSettles DEF HandleError, HandleIgnored
<1>4. CASE HandleConnecting(c)
  BY <1>2, <1>4, ConnectingSettles DEF HandleConnecting
<1>5. CASE HandleProxyConnect(c)
  BY <1>2, <1>5, ProxyConnectSettles
<1>6. CASE HandleProxyResponse(c)
  BY <1>2, <1>6, AwaitingTunnelSettles DEF HandleProxyResponse
<1>7. CASE HandleHandshake(c)
  BY <1>2, <1>7, HandshakingSettles DEF HandleHandshake
<1>8. CASE HandleSending(c)
  BY <1>2, <1>8, SendingSettles DEF HandleSending
<1>9. CASE HandleReceiving(c)
  <2>1. ~Forced
    BY <1>2, <1>9, WaitsTypes DEF HandleReceiving, Handling
  <2> QED BY <1>2, <1>9, <2>1, ReceivingSettles DEF HandleReceiving
<1> QED BY <1>3, <1>4, <1>5, <1>6, <1>7, <1>8, <1>9 DEF Handle

-----------------------------------------------------------------------------
(* The inductive invariant.                                                *)

LEMMA InitCore == Init => Core
<1> SUFFICES ASSUME Init PROVE Core
  OBVIOUS
<1>1. TypeOK
  BY RecordOps, ConnsNonEmpty
     DEF Init, HandlersInit, TypeOK, HandlersTypeOK, SocketsInit, SocketsTypeOK, EpollInit, NoEvents,
         Totals, NoTotals, Wire, NothingSent, Phases, Fresh, ConnectionRecord, ConnectionState,
         SslState, NoFd, Errno
<1>2. DescriptorOwnership
  BY DEF Init, HandlersInit, SocketsInit, DescriptorOwnership, Fresh, Fd
<1>3. InterestMatchesState /\ EventsCurrent
  BY DEF Init, EpollInit, InterestMatchesState, EventsCurrent, Registered, Pending
<1>4. Bookkeeping
  BY ConnsNonEmpty DEF Init, HandlersInit, EpollInit, Bookkeeping, Fresh
<1> QED BY <1>1, <1>2, <1>3, <1>4 DEF Core

\* A step that moves the program counter only.
LEMMA QuietStep ==
    ASSUME Core,
           UNCHANGED <<conn, open, ready, interest, data, armed, attempts, wire, events, totals>>,
           ctx' \in BOOLEAN, errno' \in Errno, expired' \in BOOLEAN, active' \in Nat, i' \in Nat,
           phase' \in Phases,
           phase' = "handle" => phase = "handle",
           phase' = "init" => phase = "init" /\ i' = i,
           phase' \in {"init", "setup", "report"} => i' \in Conns
    PROVE  Core'
<1>1. TypeOK'
  BY DEF Core, TypeOK, HandlersTypeOK, SocketsTypeOK
<1>2. DescriptorOwnership'
  BY DEF Core, DescriptorOwnership, Fd
<1>3. InterestMatchesState'
  BY DEF Core, InterestMatchesState, Registered, Fd
<1>4. EventsCurrent'
  BY DEF Core, EventsCurrent, Registered, Fd, Pending
<1>5. Bookkeeping'
  BY DEF Core, Bookkeeping, Registered
<1> QED BY <1>1, <1>2, <1>3, <1>4, <1>5 DEF Core

\* The loop over the connections goes on to another one or leaves its phase.
LEMMA NextSetupType ==
    ASSUME Core, phase = "setup", NEW counted \in {0, 1}, NextSetup(counted)
    PROVE  /\ active' \in Nat /\ i' \in Nat /\ phase' \in {"setup", "loop", "wait"}
           /\ phase' = "setup" => i' \in Conns
BY ConnsNonEmpty DEF NextSetup, Next0, Core, TypeOK, HandlersTypeOK, Bookkeeping, Conns

\* start-up
LEMMA InitConnectionCore ==
    ASSUME Core, InitConnection
    PROVE  Core'
<1>1. /\ i \in Conns /\ conn[i] = Fresh
      /\ i' \in Nat /\ phase' \in {"init", "create"}
      /\ phase' = "init" => i' \in Conns
  BY ConnsNonEmpty DEF InitConnection, Core, Bookkeeping, TypeOK, HandlersTypeOK, Next0, Conns
<1>2. PICK k \in ConnectionRecord :
         /\ conn' = [conn EXCEPT ![i] = k]
         /\ \/ /\ k = Fresh /\ open' = open /\ ready' = ready
            \/ \E fd \in Fds : OpenSocket(fd) /\ k = Opened(Fresh, fd)
  <2>1. Fresh \in ConnectionRecord /\ \A fd \in Fds : Opened(Fresh, fd) \in ConnectionRecord
    BY FreshOps, OpenedOps
  <2> QED BY <2>1 DEF InitConnection, FirstDial, Becomes, socketVars
<1>3. /\ conn \in [Conns -> ConnectionRecord]
      /\ \A c \in Conns : conn'[c] = IF c = i THEN k ELSE conn[c]
  BY <1>2 DEF Core, TypeOK, HandlersTypeOK
<1>4. TypeOK'
  <2>1. conn' \in [Conns -> ConnectionRecord]
    BY <1>2, <1>3
  <2>2. /\ attempts' \in [Conns -> Nat] /\ wire' \in [Conns -> Wire]
        /\ ctx' \in BOOLEAN /\ errno' \in Errno
    <3>1. NewAttempt(i) /\ ctx' = ctx
      BY DEF InitConnection, FirstDial
    <3>2. attempts \in [Conns -> Nat] /\ wire \in [Conns -> Wire] /\ ctx \in BOOLEAN
      BY DEF Core, TypeOK, HandlersTypeOK
    <3>3. errno' \in Errno
      BY ErrnoType DEF InitConnection, FirstDial, Core, TypeOK, HandlersTypeOK
    <3> QED BY <1>1, <3>1, <3>2, <3>3, NewAttemptType
  <2>3. open' \subseteq Fds /\ ready' \in [Fds -> SUBSET Conditions]
    BY <1>2 DEF Core, TypeOK, HandlersTypeOK, SocketsTypeOK, OpenSocket
  <2>4. UNCHANGED <<active, events, totals, expired, epollVars>>
    BY DEF InitConnection
  <2>5. HandlersTypeOK'
    BY <2>1, <2>2, <2>3 DEF HandlersTypeOK, SocketsTypeOK
  <2> QED BY <1>1, <2>4, <2>5 DEF Core, TypeOK, epollVars, Phases
<1>5. DescriptorOwnership'
  <2>1. CASE k = Fresh /\ open' = open
    BY <1>1, <1>3, <2>1, FreshOps DEF Core, DescriptorOwnership, Fd
  <2>2. ASSUME NEW fd \in Fds, OpenSocket(fd), k = Opened(Fresh, fd)
        PROVE  DescriptorOwnership'
    <3>1. open' = open \cup {fd} /\ fd \notin open /\ fd # NoFd
      BY <2>2 DEF OpenSocket, Lowest, NoFd
    <3>2. k.sockfd = fd /\ k.state = "CONNECTING"
      BY <2>2, FreshOps, OpenedOps
    <3>3. conn[i].state = "IDLE" /\ conn[i].sockfd = NoFd
      BY <1>1, FreshOps
    <3>4. \A c \in Conns : conn[c].sockfd # fd
      BY <3>1 DEF Core, DescriptorOwnership, Fd
    <3> QED BY <1>1, <1>3, <3>1, <3>2, <3>3, <3>4 DEF Core, DescriptorOwnership, Fd
  <2> QED BY <1>2, <2>1, <2>2
<1>6. InterestMatchesState'
  <2>1. interest' = interest /\ data' = data
    BY DEF InitConnection, epollVars
  <2>2. conn[i].state \notin Waiting
    BY <1>1, FreshOps DEF Waiting
  <2> QED BY <1>3, <2>1, <2>2 DEF Core, InterestMatchesState, Registered, Fd
<1>7. EventsCurrent'
  BY <1>1 DEF EventsCurrent, Pending
<1>8. Bookkeeping'
  <2>1. interest' = interest /\ armed' = armed /\ i' = i + 1 /\ phase = "init"
    BY DEF InitConnection, epollVars
  <2>2. k.state # "RECEIVING"
    <3>1. Fresh.state = "IDLE" /\ \A fd \in Fds : Opened(Fresh, fd).state = "CONNECTING"
      BY FreshOps, OpenedOps
    <3> QED BY <3>1, <1>2
  <2>3. \A c \in Conns : c >= i' => c # i /\ c >= i
    BY <1>1, <2>1 DEF Conns
  <2>4. phase' = "init" => \A c \in Conns : c >= i' => conn'[c] = Fresh
    BY <1>3, <2>1, <2>3 DEF Core, Bookkeeping
  <2> QED BY <1>1, <1>3, <2>1, <2>2, <2>4 DEF Core, Bookkeeping, Registered
<1> QED BY <1>4, <1>5, <1>6, <1>7, <1>8 DEF Core

\* cleanup_connection and allocate_socket on a finished connection
LEMMA SetupRestartCore ==
    ASSUME Core, SetupRestart
    PROVE  Core'
<1> DEFINE old == Fd(i)
<1>1. /\ i \in Conns /\ conn[i] \in ConnectionRecord /\ conn[i].state \in Over
      /\ phase = "setup" /\ i' \in Nat /\ active' \in Nat
      /\ phase' \in {"setup", "loop", "wait"} /\ (phase' = "setup" => i' \in Conns)
  BY NextSetupType DEF SetupRestart, Core, TypeOK, HandlersTypeOK, Bookkeeping
<1>2. /\ conn[i].state # "IDLE" /\ old \in open /\ old \in Fds /\ old # NoFd
      /\ \A c \in Conns \ {i} : Fd(c) # old
  BY <1>1 DEF Core, DescriptorOwnership, Over, TypeOK, HandlersTypeOK, SocketsTypeOK
<1>3. PICK k \in ConnectionRecord :
         /\ conn' = [conn EXCEPT ![i] = k]
         /\ k.state # "RECEIVING"
         /\ \/ CloseSocket(old) /\ k.state = "IDLE" /\ k.sockfd = NoFd
            \/ \E new \in Fds : /\ ReopenSocket(old, new)
                                /\ k.state = "CONNECTING" /\ k.sockfd = new
  <2>1. Cleaned(conn[i]) \in ConnectionRecord
    BY <1>1, RecordOps DEF SslState
  <2>2. \A fd \in Fds : Opened(Cleaned(conn[i]), fd) \in ConnectionRecord
    BY <2>1, RecordOps DEF SslState
  <2>3. Cleaned(conn[i]).state = "IDLE" /\ Cleaned(conn[i]).sockfd = NoFd
    BY <1>1 DEF Cleaned, ConnectionRecord
  <2>4. \A fd \in Fds : /\ Opened(Cleaned(conn[i]), fd).state = "CONNECTING"
                        /\ Opened(Cleaned(conn[i]), fd).sockfd = fd
    BY <2>1 DEF Opened, ConnectionRecord
  <2> QED BY <2>1, <2>2, <2>3, <2>4 DEF SetupRestart, Redialled, Becomes
<1>4. /\ conn \in [Conns -> ConnectionRecord]
      /\ \A c \in Conns : conn'[c] = IF c = i THEN k ELSE conn[c]
  BY <1>3 DEF Core, TypeOK, HandlersTypeOK
<1>5. /\ \A fd \in Fds : /\ interest'[fd] = IF fd = old THEN {} ELSE interest[fd]
                         /\ data'[fd] = IF fd = old THEN -1 ELSE data[fd]
      /\ armed' = armed \ {old}
  BY DEF SetupRestart, Forget
<1>6. TypeOK'
  <2>1. conn' \in [Conns -> ConnectionRecord]
    BY <1>3, <1>4
  <2>2. attempts' \in [Conns -> Nat] /\ wire' \in [Conns -> Wire]
    BY <1>1, NewAttemptType DEF SetupRestart, Redialled, Core, TypeOK, HandlersTypeOK
  <2>3. open' \subseteq Fds /\ ready' \in [Fds -> SUBSET Conditions]
    BY <1>3 DEF Core, TypeOK, HandlersTypeOK, SocketsTypeOK, CloseSocket, ReopenSocket
  <2>4. /\ interest' \in [Fds -> SUBSET {"IN", "OUT"}] /\ data' \in [Fds -> Conns \cup {-1}]
        /\ armed' \subseteq Fds
    BY DEF SetupRestart, Forget, Core, TypeOK, HandlersTypeOK
  <2>5. errno' \in Errno
    BY ErrnoType DEF SetupRestart, Redialled, Core, TypeOK, HandlersTypeOK
  <2> QED BY <1>1, <2>1, <2>2, <2>3, <2>4, <2>5
          DEF SetupRestart, Redialled, Core, TypeOK, HandlersTypeOK, SocketsTypeOK, Phases
<1>7. DescriptorOwnership'
  <2>1. CASE CloseSocket(old) /\ k.state = "IDLE" /\ k.sockfd = NoFd
    BY <1>1, <1>2, <1>4, <2>1 DEF Core, DescriptorOwnership, Fd, CloseSocket
  <2>2. ASSUME NEW new \in Fds, ReopenSocket(old, new), k.state = "CONNECTING", k.sockfd = new
        PROVE  DescriptorOwnership'
    <3>1. open' = (open \ {old}) \cup {new} /\ new # NoFd /\ (new = old \/ new \notin open)
      BY <2>2 DEF ReopenSocket, NoFd
    <3>2. \A c \in Conns \ {i} : conn[c].sockfd # new
      BY <1>2, <3>1 DEF Core, DescriptorOwnership, Fd
    <3> QED BY <1>1, <1>2, <1>4, <2>2, <3>1, <3>2 DEF Core, DescriptorOwnership, Fd
  <2> QED BY <1>3, <2>1, <2>2
<1>8. InterestMatchesState'
  <2>1. conn[i].state \notin Waiting
    BY <1>1 DEF Over, Waiting
  <2> QED BY <1>2, <1>4, <1>5, <2>1 DEF Core, InterestMatchesState, Registered, Fd
<1>9. EventsCurrent'
  BY <1>1 DEF EventsCurrent, Pending
<1>10. Bookkeeping'
  BY <1>1, <1>3, <1>4, <1>5 DEF Core, Bookkeeping, Registered, TypeOK, HandlersTypeOK
<1> QED BY <1>6, <1>7, <1>8, <1>9, <1>10 DEF Core

\* epoll_ctl(EPOLL_CTL_ADD)
LEMMA SetupRegisterCore ==
    ASSUME Core, SetupRegister
    PROVE  Core'
<1>1. /\ i \in Conns /\ conn[i].state \in Waiting
      /\ phase = "setup" /\ i' \in Nat /\ active' \in Nat
      /\ phase' \in {"setup", "loop", "wait"} /\ (phase' = "setup" => i' \in Conns)
  BY NextSetupType DEF SetupRegister, Core, TypeOK, HandlersTypeOK, Bookkeeping
<1>2. Fd(i) \in Fds
  BY <1>1 DEF Core, DescriptorOwnership, Waiting, TypeOK, HandlersTypeOK, SocketsTypeOK
<1>3. UNCHANGED <<conn, open, ready, attempts, wire, ctx, events, totals, expired>>
  BY DEF SetupRegister
<1>3a. errno' \in Errno
  BY ErrnoType DEF SetupRegister, Core, TypeOK, HandlersTypeOK
<1>4. Interest(conn[i].state) \in SUBSET {"IN", "OUT"} /\ Interest(conn[i].state) # {}
  BY <1>1 DEF Interest, Waiting, ReadStates, WriteStates
<1>5. CASE Registered(Fd(i))
  <2>1. UNCHANGED <<interest, data, armed>>
    BY <1>5 DEF SetupRegister, Register, Add, epollVars
  <2> QED BY <1>1, <1>3, <1>3a, <2>1, QuietStep DEF Core, TypeOK, HandlersTypeOK, Phases
<1>6. CASE ~Registered(Fd(i))
  <2>1. /\ interest' = [interest EXCEPT ![Fd(i)] = Interest(conn[i].state)]
        /\ data' = [data EXCEPT ![Fd(i)] = i]
        /\ armed' \in {armed, armed \cup {Fd(i)}}
    BY <1>6 DEF SetupRegister, Register, Add
  <2>2. TypeOK'
    BY <1>1, <1>2, <1>3, <1>3a, <1>4, <2>1 DEF Core, TypeOK, HandlersTypeOK, SocketsTypeOK, Phases
  <2>3. DescriptorOwnership'
    BY <1>3 DEF Core, DescriptorOwnership, Fd
  <2>4. \A fd \in Fds : /\ interest'[fd] = IF fd = Fd(i) THEN Interest(conn[i].state)
                                          ELSE interest[fd]
                        /\ data'[fd] = IF fd = Fd(i) THEN i ELSE data[fd]
    BY <2>1 DEF Core, TypeOK, HandlersTypeOK
  <2>5. InterestMatchesState'
    BY <1>1, <1>3, <2>4 DEF Core, InterestMatchesState, Registered, Fd
  <2>6. EventsCurrent'
    BY <1>1 DEF EventsCurrent, Pending
  <2>7. Bookkeeping'
    BY <1>1, <1>2, <1>3, <1>4, <2>1, <2>4 DEF Core, Bookkeeping, Registered, TypeOK, HandlersTypeOK
  <2> QED BY <2>2, <2>3, <2>5, <2>6, <2>7 DEF Core
<1> QED BY <1>5, <1>6

\* epoll_wait
LEMMA WaitCore ==
    ASSUME Core, Wait
    PROVE  Core'
<1>1. PICK S \in SUBSET Fds :
         /\ Report(S, active)
         /\ events' = [c \in Conns |-> UNION {Mask(fd) : fd \in {f \in S : data[f] = c}}]
         /\ phase' = IF S = {} THEN "loop" ELSE "handle"
  BY DEF Wait
<1>2. /\ UNCHANGED <<i, conn, ctx, active, totals, expired, open, ready, attempts, wire>>
      /\ UNCHANGED <<errno, interest, data>> /\ armed' \subseteq armed
      /\ phase' \in {"loop", "handle"}
  BY <1>1 DEF Wait, Report, handlerVars
<1>3. \A fd \in S : Registered(fd)
  BY <1>1 DEF Report, Deliverable, Core, Bookkeeping
<1>4. TypeOK'
  <2>0. \A fd \in S : Mask(fd) \subseteq Bits
    BY DEF Mask, Bits, Core, TypeOK
  <2>1. events' \in [Conns -> SUBSET Bits]
    BY <1>1, <2>0
  <2> QED BY <1>2, <2>1 DEF Core, TypeOK, HandlersTypeOK, SocketsTypeOK, Phases
<1>5. DescriptorOwnership'
  BY <1>2 DEF Core, DescriptorOwnership, Fd
<1>6. InterestMatchesState'
  BY <1>2 DEF Core, InterestMatchesState, Registered, Fd
<1>7. EventsCurrent'
  <2> SUFFICES ASSUME NEW c \in Conns, events'[c] # {}
               PROVE  Fd(c) \in Fds /\ Registered(Fd(c)) /\ data[Fd(c)] = c
    BY <1>2 DEF EventsCurrent, Pending, Fd, Registered
  <2>1. PICK fd \in S : data[fd] = c
    BY <1>1
  <2> QED BY <1>3, <2>1 DEF Core, InterestMatchesState
<1>8. Bookkeeping'
  BY <1>2 DEF Core, Bookkeeping, Registered
<1> QED BY <1>4, <1>5, <1>6, <1>7, <1>8 DEF Core

\* handle_ready_connection
LEMMA HandlerStepCore ==
    ASSUME Core, NEW c \in Conns, HandlerStep(c)
    PROVE  Core'
<1>1. PICK k \in ConnectionRecord : Outcome(conn[c], k) /\ Becomes(c, k)
  BY DEF HandlerStep, Settled
<1>2. /\ phase = "handle" /\ phase' \in {"loop", "handle"} /\ Pending(c)
      /\ UNCHANGED <<i, active, totals, expired, attempts, open>>
      /\ ready' \in [Fds -> SUBSET Conditions] /\ wire' \in [Conns -> Wire] /\ ctx' \in BOOLEAN
      /\ errno' \in Errno
      /\ conn' = [conn EXCEPT ![c] = k] /\ events' = [events EXCEPT ![c] = {}]
  BY <1>1 DEF HandlerStep, Settled, OnSocketOf, OnWireOf, KeepsContext, Handled, Pending, Becomes
<1>3. /\ conn \in [Conns -> ConnectionRecord] /\ events \in [Conns -> SUBSET Bits]
      /\ \A d \in Conns : conn'[d] = IF d = c THEN k ELSE conn[d]
      /\ \A d \in Conns : events'[d] = IF d = c THEN {} ELSE events[d]
  BY <1>2 DEF Core, TypeOK, HandlersTypeOK
<1>4. /\ conn[c].state \in Waiting /\ Fd(c) \in Fds /\ Fd(c) # NoFd
      /\ \A d \in Conns \ {c} : Fd(d) # Fd(c)
  BY <1>2, PendingWaits DEF Core, DescriptorOwnership, NoFd, Waits
<1>5. /\ k.sockfd = conn[c].sockfd
      /\ k.state \in Waiting \cup Over /\ k.state # "IDLE" /\ conn[c].state # "IDLE"
      /\ Forced => k.state # "RECEIVING"
  BY <1>1, <1>4 DEF Outcome, Waiting, Over
<1>6. /\ \A fd \in Fds : /\ interest'[fd] = IF fd = Fd(c) THEN {} ELSE interest[fd]
                         /\ data'[fd] = IF fd = Fd(c) THEN -1 ELSE data[fd]
      /\ armed' = armed \ {Fd(c)}
  BY DEF HandlerStep, Handled, Deregister, Forget
<1>7. TypeOK'
  <2>1. /\ interest' \in [Fds -> SUBSET {"IN", "OUT"}] /\ data' \in [Fds -> Conns \cup {-1}]
        /\ armed' \subseteq Fds
    BY DEF HandlerStep, Handled, Deregister, Forget, Core, TypeOK, HandlersTypeOK
  <2> QED BY <1>2, <1>3, <2>1 DEF Core, TypeOK, HandlersTypeOK, SocketsTypeOK, Phases
<1>8. DescriptorOwnership'
  BY <1>2, <1>3, <1>5 DEF Core, DescriptorOwnership, Fd
<1>9. InterestMatchesState'
  <2> SUFFICES ASSUME NEW fd \in Fds, interest'[fd] # {}
               PROVE  \E d \in Conns : /\ conn'[d].sockfd = fd /\ data'[fd] = d
                                        /\ conn'[d].state \in Waiting
                                        /\ interest'[fd] = Interest(conn'[d].state)
    BY DEF InterestMatchesState, Registered, Fd
  <2>1. fd # Fd(c) /\ interest'[fd] = interest[fd] /\ data'[fd] = data[fd]
    BY <1>6
  <2>2. PICK d \in Conns : /\ Fd(d) = fd /\ data[fd] = d /\ conn[d].state \in Waiting
                           /\ interest[fd] = Interest(conn[d].state)
    BY <2>1 DEF Core, InterestMatchesState, Registered
  <2>3. conn'[d] = conn[d]
    BY <1>3, <2>1, <2>2
  <2> QED BY <2>1, <2>2, <2>3 DEF Fd
<1>10. EventsCurrent'
  <2> SUFFICES ASSUME NEW d \in Conns, d # c, Pending(d)
               PROVE  Fd(d)' \in Fds /\ Registered(Fd(d))' /\ data'[Fd(d)'] = d
    BY <1>2, <1>3 DEF EventsCurrent, Pending
  <2>1. Fd(d) \in Fds /\ Registered(Fd(d)) /\ data[Fd(d)] = d /\ Fd(d) # Fd(c)
    BY <1>4 DEF Core, EventsCurrent
  <2> QED BY <2>1, <1>3, <1>6 DEF Fd, Registered
<1>11. Bookkeeping'
  BY <1>2, <1>3, <1>5, <1>6 DEF Core, Bookkeeping, Registered, TypeOK, HandlersTypeOK
<1> QED BY <1>7, <1>8, <1>9, <1>10, <1>11 DEF Core

\* the report and cleanup loop
LEMMA ReportCore ==
    ASSUME Core, ReportConnection
    PROVE  Core'
<1>1. /\ i \in Conns /\ conn[i] \in ConnectionRecord /\ phase = "report"
      /\ i' \in Nat /\ phase' \in {"report", "done"} /\ (phase' = "report" => i' \in Conns)
  BY ConnsNonEmpty DEF ReportConnection, Becomes, Core, TypeOK, HandlersTypeOK, Bookkeeping, Next0, Conns
<1>2. /\ Cleaned(conn[i]) \in ConnectionRecord
      /\ Cleaned(conn[i]).state = "IDLE" /\ Cleaned(conn[i]).sockfd = NoFd
  BY <1>1, CleanedOps
<1>3. /\ conn \in [Conns -> ConnectionRecord] /\ conn' = [conn EXCEPT ![i] = Cleaned(@)]
      /\ \A c \in Conns : conn'[c] = IF c = i THEN Cleaned(conn[i]) ELSE conn[c]
  BY DEF ReportConnection, Becomes, Core, TypeOK, HandlersTypeOK
<1>4. /\ open' = open \ {Fd(i)} /\ armed' = armed \ {Fd(i)}
      /\ \A fd \in Fds : /\ interest'[fd] = IF fd = Fd(i) THEN {} ELSE interest[fd]
                         /\ data'[fd] = IF fd = Fd(i) THEN -1 ELSE data[fd]
      /\ ready' \in [Fds -> SUBSET Conditions]
      /\ interest' \in [Fds -> SUBSET {"IN", "OUT"}] /\ data' \in [Fds -> Conns \cup {-1}]
  <2>1. CASE Fd(i) > 0
    BY <2>1 DEF ReportConnection, CloseSocket, Forget, Core, TypeOK, HandlersTypeOK, SocketsTypeOK
  <2>2. CASE ~(Fd(i) > 0)
    <3>1. Fd(i) \notin Fds
      BY <2>2, <1>1 DEF Fd, ConnectionRecord, NoFd
    <3> QED BY <2>2, <3>1
            DEF ReportConnection, socketVars, epollVars, Core, TypeOK, HandlersTypeOK, SocketsTypeOK
  <2> QED BY <2>1, <2>2
<1>5. TypeOK'
  <2>1. totals' \in Totals
    <3>1. Added(totals, conn[i]) \in Totals
      BY <1>1, AddedType DEF Core, TypeOK
    <3> QED BY <3>1 DEF ReportConnection
  <2>2. conn' \in [Conns -> ConnectionRecord] /\ ctx' \in BOOLEAN
    BY <1>2, <1>3 DEF ReportConnection
  <2>3. UNCHANGED <<active, events, expired, errno, attempts, wire>>
    BY DEF ReportConnection, historyVars
  <2> QED BY <1>1, <1>4, <2>1, <2>2, <2>3 DEF Core, TypeOK, HandlersTypeOK, SocketsTypeOK, Phases
<1>6. DescriptorOwnership'
  BY <1>1, <1>2, <1>3, <1>4 DEF Core, DescriptorOwnership, Fd
<1>7. InterestMatchesState'
  <2>1. ASSUME NEW fd \in Fds, interest'[fd] # {}
        PROVE  \E c \in Conns : /\ conn'[c].sockfd = fd /\ data'[fd] = c
                               /\ conn'[c].state \in Waiting
                               /\ interest'[fd] = Interest(conn'[c].state)
    <3>1. fd # Fd(i) /\ interest[fd] # {}
      BY <1>4, <2>1
    <3> QED BY <1>3, <1>4, <3>1 DEF Core, InterestMatchesState, Registered, Fd
  <2> QED BY <2>1 DEF InterestMatchesState, Registered, Fd
<1>8. EventsCurrent'
  BY <1>1 DEF EventsCurrent, Pending
<1>9. Bookkeeping'
  BY <1>1, <1>2, <1>3, <1>4 DEF Core, Bookkeeping, Registered, TypeOK, HandlersTypeOK
<1> QED BY <1>5, <1>6, <1>7, <1>8, <1>9 DEF Core

LEMMA NextCore == Core /\ [Next]_vars => Core'
<1> SUFFICES ASSUME Core, [Next]_vars PROVE Core'
  OBVIOUS
<1> USE DEF handlerVars, historyVars, epollVars, loopVars
<1>0. /\ phase \in Phases /\ i \in Nat /\ active \in Nat /\ ctx \in BOOLEAN /\ expired \in BOOLEAN
      /\ errno \in Errno
      /\ phase \in {"init", "setup", "report"} => i \in Conns
  BY DEF Core, TypeOK, HandlersTypeOK, Bookkeeping
<1>1. CASE InitConnection
  BY <1>1, InitConnectionCore
<1>2. CASE CreateEpoll
  BY <1>0, <1>2, QuietStep DEF CreateEpoll, Phases
<1>3. CASE LoopHead
  BY <1>0, <1>3, QuietStep, ConnsNonEmpty DEF LoopHead, AfterHead, Phases
<1>4. CASE SetupIdle
  BY <1>0, <1>4, QuietStep, NextSetupType DEF SetupIdle, Phases
<1>5. CASE SetupRestart
  BY <1>5, SetupRestartCore
<1>6. CASE SetupRegister
  BY <1>6, SetupRegisterCore
<1>7. CASE SetupAddFails
  BY <1>0, <1>7, QuietStep DEF SetupAddFails, Phases
<1>8. CASE Wait
  BY <1>8, WaitCore
<1>9. CASE WaitFails
  BY <1>0, <1>9, QuietStep, ConnsNonEmpty DEF WaitFails, Phases
<1>10. ASSUME NEW c \in Conns, Handle(c) PROVE Core'
  BY <1>10, HandleIsHandlerStep, HandlerStepCore
<1>11. ASSUME NEW c \in Conns, SigPipe(c) PROVE Core'
  BY <1>0, <1>11, QuietStep DEF SigPipe, Phases
<1>12. CASE ReportConnection
  BY <1>12, ReportCore
<1>13. ASSUME NEW c \in Conns, Network(c) PROVE Core'
  <2>1. /\ UNCHANGED <<phase, i, conn, ctx, errno, active, events, totals, open, attempts, wire, expired>>
        /\ UNCHANGED <<interest, data>>
        /\ ready' \in [Fds -> SUBSET Conditions]
        /\ armed' \subseteq Fds /\ \A fd \in armed' : Registered(fd)
    <3>1. PICK bits \in {{"OUT"}, {"IN"}, Bits} : Arrival(Fd(c), bits) /\ Arm(Fd(c), bits)
      BY <1>13 DEF Network, PeerActs
    <3>2. Fd(c) \in Fds
      BY <3>1 DEF Arrival, Core, TypeOK, HandlersTypeOK, SocketsTypeOK
    <3>3. ready' \in [Fds -> SUBSET Conditions]
      BY <3>1, <3>2 DEF Arrival, Core, TypeOK, HandlersTypeOK, SocketsTypeOK, Bits, Conditions
    <3>4. armed' \subseteq Fds /\ \A fd \in armed' : Registered(fd)
      BY <3>1, <3>2 DEF Arm, Core, TypeOK, HandlersTypeOK, Bookkeeping
    <3> QED BY <1>13, <3>1, <3>3, <3>4 DEF Network, PeerActs, Arm
  <2>2. TypeOK'
    BY <2>1 DEF Core, TypeOK, HandlersTypeOK, SocketsTypeOK
  <2>3. DescriptorOwnership' /\ InterestMatchesState' /\ EventsCurrent'
    BY <2>1 DEF Core, DescriptorOwnership, InterestMatchesState, EventsCurrent, Registered,
                Fd, Pending
  <2>4. Bookkeeping'
    BY <2>1 DEF Core, Bookkeeping, Registered
  <2> QED BY <2>2, <2>3, <2>4 DEF Core
<1>14. CASE Tick
  BY <1>0, <1>14, QuietStep DEF Tick
<1>15. CASE UNCHANGED vars
  BY <1>0, <1>15, QuietStep DEF vars
<1> QED
  BY <1>1, <1>2, <1>3, <1>4, <1>5, <1>6, <1>7, <1>8, <1>9, <1>10, <1>11, <1>12, <1>13,
     <1>14, <1>15 DEF Next, Bench, Terminated

\* In every behaviour of bench_epoll.c the inductive invariant holds.
THEOREM CoreInvariant == Spec => []Core
<1>1. Init => Core
  BY InitCore
<1>2. Core /\ [Next]_vars => Core'
  BY NextCore
<1> QED BY <1>1, <1>2, PTL DEF Spec

\* Every variable keeps its type: the connection records stay records through
\* every handler, restart and cleanup, in every configuration.
THEOREM TypeCorrect == Spec => []TypeOK
<1>1. Core => TypeOK
  BY DEF Core
<1> QED BY <1>1, CoreInvariant, PTL

\* allocate_socket and cleanup_connection neither leak nor share a descriptor.
THEOREM OwnershipTheorem == Spec => []DescriptorOwnership
<1>1. Core => DescriptorOwnership
  BY DEF Core
<1> QED BY <1>1, CoreInvariant, PTL

\* Taking EEXIST for success is right: a registration is never out of date.
THEOREM InterestTheorem == Spec => []InterestMatchesState
<1>1. Core => InterestMatchesState
  BY DEF Core
<1> QED BY <1>1, CoreInvariant, PTL

\* Every event handled belongs to the registered connection its pointer names.
THEOREM EventsTheorem == Spec => []EventsCurrent
<1>1. Core => EventsCurrent
  BY DEF Core
<1> QED BY <1>1, CoreInvariant, PTL

-----------------------------------------------------------------------------
(* The refinement: the initial state maps to the abstract one, every step  *)
(* to an abstract step or a stutter.                                       *)

\* The clients' slots, counts and report as functions of the epoll bench's state.
SlotMap == [c \in Conns |-> Slot(c)]
CountMap == [c \in Conns |-> [good |-> conn[c].speed, bad |-> conn[c].failed]]
ClosedMap == IF phase \in {"report", "done"} THEN 0 .. i - 1 ELSE {}
TotalMap == IF phase = "exit" THEN [good |-> 0, bad |-> 0]
            ELSE [good |-> totals.speed, bad |-> totals.failed]

LEMMA InitRefines == Init => Promise!ClientsInit
BY DEF Init, HandlersInit, NoTotals, Promise!ClientsInit, Promise!NoCount, Stage, Slot, Fresh

\* A step that changes no connection, no total and no stage is a stutter.
LEMMA Stutter ==
    ASSUME Core, conn' = conn, totals' = totals, ClosedMap' = ClosedMap,
           Stage' = Stage, phase' = "exit" <=> phase = "exit"
    PROVE  UNCHANGED Promise!clientVars
BY DEF Promise!clientVars, Slot, ClosedMap, TotalMap

\* Leaving the bench at any stage discards the report.
LEMMA ExitRefines ==
    ASSUME Core, conn' = conn, phase # "exit", phase' = "exit"
    PROVE  Promise!Abort
BY DEF Promise!Abort, Promise!NoCount, Stage, Slot, Core, TypeOK, HandlersTypeOK, Phases

\* epoll_create1 succeeded, or the loop ended: the next stage begins.
LEMMA AdvanceRefines ==
    ASSUME Core, conn' = conn, totals' = totals,
           \/ phase = "create" /\ phase' = "loop"
           \/ phase \in {"loop", "wait"} /\ phase' = "report" /\ i' = 0
    PROVE  Promise!Advance
BY DEF Promise!Advance, Stage, Slot

LEMMA InitConnectionRefines ==
    ASSUME Core, InitConnection
    PROVE  (\E c \in Conns : Promise!Dial(c)) \/ UNCHANGED Promise!clientVars
<1>1. /\ i \in Conns /\ conn[i] = Fresh /\ phase = "init" /\ phase' \in {"init", "create"}
      /\ totals' = totals /\ conn \in [Conns -> ConnectionRecord]
  BY ConnsNonEmpty DEF InitConnection, Core, Bookkeeping, TypeOK, HandlersTypeOK, Next0, Conns
<1>2. Stage = "starting" /\ Stage' = "starting" /\ ClosedMap = {} /\ ClosedMap' = {}
  BY <1>1 DEF Stage, ClosedMap
<1>3. CASE conn' = [conn EXCEPT ![i] = Fresh]
  <2>1. conn' = conn
    BY <1>1, <1>3
  <2> QED BY <1>1, <1>2, <2>1, Stutter
<1>4. ASSUME NEW fd \in Fds, conn' = [conn EXCEPT ![i] = Opened(Fresh, fd)]
      PROVE  Promise!Dial(i)
  <2>1. /\ Opened(Fresh, fd).state = "CONNECTING"
        /\ Opened(Fresh, fd).speed = Fresh.speed /\ Opened(Fresh, fd).failed = Fresh.failed
        /\ Fresh.state = "IDLE"
    BY DEF Opened, Fresh
  <2>2. \A c \in Conns : conn'[c] = IF c = i THEN Opened(Fresh, fd) ELSE conn[c]
    BY <1>1, <1>4
  <2>3. SlotMap[i] = "free" /\ SlotMap' = [SlotMap EXCEPT ![i] = "busy"]
    BY <1>1, <2>1, <2>2 DEF SlotMap, Slot, Over
  <2>4. CountMap' = CountMap
    BY <1>1, <2>1, <2>2 DEF CountMap
  <2> QED BY <1>1, <1>2, <2>3, <2>4
          DEF Promise!Dial, SlotMap, CountMap, ClosedMap
<1> QED BY <1>1, <1>3, <1>4 DEF InitConnection, FirstDial, Becomes

LEMMA RestartRefines ==
    ASSUME Core, SetupRestart
    PROVE  Promise!Redial(i)
<1>1. /\ i \in Conns /\ conn[i] \in ConnectionRecord /\ conn[i].state \in Over
      /\ phase = "setup" /\ phase' \in {"setup", "loop", "wait"} /\ totals' = totals
      /\ conn \in [Conns -> ConnectionRecord]
  BY NextSetupType DEF SetupRestart, Core, TypeOK, HandlersTypeOK, Bookkeeping
<1>2. PICK k \in ConnectionRecord :
         /\ conn' = [conn EXCEPT ![i] = k]
         /\ k.state \in {"IDLE", "CONNECTING"}
         /\ k.speed = conn[i].speed /\ k.failed = conn[i].failed
  <2>1. /\ Cleaned(conn[i]) \in ConnectionRecord
        /\ \A fd \in Fds : Opened(Cleaned(conn[i]), fd) \in ConnectionRecord
    BY <1>1, RecordOps DEF SslState
  <2>2. /\ Cleaned(conn[i]).state = "IDLE"
        /\ Cleaned(conn[i]).speed = conn[i].speed /\ Cleaned(conn[i]).failed = conn[i].failed
    BY <1>1 DEF Cleaned, ConnectionRecord
  <2>3. \A fd \in Fds : /\ Opened(Cleaned(conn[i]), fd).state = "CONNECTING"
                        /\ Opened(Cleaned(conn[i]), fd).speed = Cleaned(conn[i]).speed
                        /\ Opened(Cleaned(conn[i]), fd).failed = Cleaned(conn[i]).failed
    BY <2>1 DEF Opened, ConnectionRecord
  <2> QED BY <2>1, <2>2, <2>3 DEF SetupRestart, Redialled, Becomes
<1>3. \A c \in Conns : conn'[c] = IF c = i THEN k ELSE conn[c]
  BY <1>1, <1>2
<1>4. \E s \in {"busy", "free"} : SlotMap' = [SlotMap EXCEPT ![i] = s]
  BY <1>1, <1>2, <1>3 DEF SlotMap, Slot, Over
<1>5. SlotMap[i] = "over"
  BY <1>1 DEF SlotMap, Slot, Over
<1>6. CountMap' = CountMap
  BY <1>1, <1>2, <1>3 DEF CountMap
<1>7. Stage = "running" /\ Stage' = "running" /\ ClosedMap = {} /\ ClosedMap' = {}
  BY <1>1 DEF Stage, ClosedMap
<1> QED BY <1>1, <1>4, <1>5, <1>6, <1>7 DEF Promise!Redial, SlotMap, CountMap, ClosedMap

LEMMA HandlerRefines ==
    ASSUME Core, NEW c \in Conns, HandlerStep(c)
    PROVE  Promise!Settle(c) \/ UNCHANGED Promise!clientVars
<1>1. PICK k \in ConnectionRecord : Outcome(conn[c], k) /\ Becomes(c, k)
  BY DEF HandlerStep, Settled
<1>2. /\ phase = "handle" /\ phase' \in {"loop", "handle"} /\ totals' = totals
      /\ conn \in [Conns -> ConnectionRecord] /\ conn[c].state \in Waiting
      /\ Forced \in BOOLEAN
  BY <1>1, PendingWaits, ConnectionAssumption
     DEF HandlerStep, Pending, Handled, Waits, Core, TypeOK, HandlersTypeOK
<1>3. \A d \in Conns : conn'[d] = IF d = c THEN k ELSE conn[d]
  BY <1>1, <1>2 DEF Becomes
<1>4. Stage = "running" /\ Stage' = "running" /\ ClosedMap = {} /\ ClosedMap' = {}
  BY <1>2 DEF Stage, ClosedMap
<1>5. SlotMap[c] = "busy"
  BY <1>2 DEF SlotMap, Slot, Waiting, Over
<1>6. CASE k.state \in Waiting /\ k.speed = conn[c].speed /\ k.failed = conn[c].failed
  <2>1. SlotMap' = SlotMap
    BY <1>2, <1>3, <1>6 DEF SlotMap, Slot, Waiting, Over
  <2>2. CountMap' = CountMap
    BY <1>2, <1>3, <1>6 DEF CountMap
  <2> QED BY <1>2, <1>4, <2>1, <2>2 DEF Promise!clientVars, SlotMap, CountMap, ClosedMap
<1>7. CASE k.state \in Over /\ ~(k.state \in Waiting)
  <2>1. SlotMap' = [SlotMap EXCEPT ![c] = "over"]
    BY <1>2, <1>3, <1>7 DEF SlotMap, Slot, Over
  <2>2. \/ CountMap' = [CountMap EXCEPT ![c].bad = @ + 1]
        \/ CountMap' = IF Forced THEN CountMap ELSE [CountMap EXCEPT ![c].good = @ + 1]
    <3>1. CASE k.state = "ERROR" /\ k.speed = conn[c].speed /\ k.failed = conn[c].failed + 1
      BY <1>3, <3>1 DEF CountMap
    <3>2. CASE k.state = "COMPLETED" /\ k.failed = conn[c].failed /\ k.speed = conn[c].speed /\ Forced
      BY <1>3, <3>2 DEF CountMap
    <3>3. CASE k.state = "COMPLETED" /\ k.failed = conn[c].failed /\ k.speed = conn[c].speed + 1 /\ ~Forced
      BY <1>3, <3>3 DEF CountMap
    <3> QED BY <1>1, <1>2, <1>7, <3>1, <3>2, <3>3 DEF Outcome
  <2> QED BY <1>2, <1>4, <1>5, <2>1, <2>2 DEF Promise!Settle, SlotMap, CountMap, ClosedMap
<1> QED BY <1>1, <1>6, <1>7 DEF Outcome, Waiting, Over

LEMMA ReportRefines ==
    ASSUME Core, ReportConnection
    PROVE  Promise!Close(i)
<1>1. /\ i \in Conns /\ conn[i] \in ConnectionRecord /\ phase = "report"
      /\ phase' \in {"report", "done"} /\ i' = i + 1 /\ i \in Nat
      /\ conn \in [Conns -> ConnectionRecord] /\ conn' = [conn EXCEPT ![i] = Cleaned(@)]
      /\ totals'.speed = totals.speed + conn[i].speed
      /\ totals'.failed = totals.failed + conn[i].failed
  BY DEF ReportConnection, Becomes, Added, Core, TypeOK, HandlersTypeOK, Bookkeeping, Next0
<1>2. /\ Cleaned(conn[i]).state = "IDLE"
      /\ Cleaned(conn[i]).speed = conn[i].speed /\ Cleaned(conn[i]).failed = conn[i].failed
  BY <1>1 DEF Cleaned, ConnectionRecord
<1>3. \A c \in Conns : conn'[c] = IF c = i THEN Cleaned(conn[i]) ELSE conn[c]
  BY <1>1
<1>4. Stage = "closing" /\ Stage' = "closing"
  BY <1>1 DEF Stage
<1>5. SlotMap' = [SlotMap EXCEPT ![i] = "free"]
  BY <1>1, <1>2, <1>3 DEF SlotMap, Slot
<1>6. CountMap' = CountMap
  BY <1>1, <1>2, <1>3 DEF CountMap
<1>7. i \notin ClosedMap /\ ClosedMap' = ClosedMap \cup {i}
  BY <1>1 DEF ClosedMap
<1>8. TotalMap' = [good |-> TotalMap.good + CountMap[i].good, bad |-> TotalMap.bad + CountMap[i].bad]
  BY <1>1 DEF TotalMap, CountMap
<1> QED BY <1>4, <1>5, <1>6, <1>7, <1>8
        DEF Promise!Close, SlotMap, CountMap, ClosedMap, TotalMap

LEMMA StepRefines == Core /\ [Next]_vars => [Promise!ClientsNext]_(Promise!clientVars)
<1> SUFFICES ASSUME Core, [Next]_vars
             PROVE  Promise!ClientsNext \/ UNCHANGED Promise!clientVars
  OBVIOUS
<1> USE DEF handlerVars, historyVars, epollVars, loopVars
<1>0. phase \in Phases /\ (phase \in {"init", "setup", "report"} => i \in Conns)
  BY DEF Core, TypeOK, HandlersTypeOK, Bookkeeping
<1>1. CASE InitConnection
  BY <1>1, InitConnectionRefines DEF Promise!ClientsNext
<1>2. CASE CreateEpoll
  <2>1. CASE phase' = "loop"
    BY <1>2, <2>1, AdvanceRefines DEF CreateEpoll, Promise!ClientsNext
  <2>2. CASE phase' = "exit"
    BY <1>2, <2>2, ExitRefines DEF CreateEpoll, Promise!ClientsNext
  <2> QED BY <1>2, <2>1, <2>2 DEF CreateEpoll
<1>3. CASE LoopHead
  <2>1. CASE phase' = "report"
    BY <1>3, <2>1, AdvanceRefines DEF LoopHead, AfterHead, Promise!ClientsNext
  <2>2. CASE phase' = "exit"
    BY <1>3, <2>2, ExitRefines DEF LoopHead, AfterHead, Promise!ClientsNext
  <2>3. CASE phase' = "setup"
    BY <1>3, <2>3, Stutter DEF LoopHead, AfterHead, Stage, ClosedMap
  <2> QED BY <1>3, <2>1, <2>2, <2>3 DEF LoopHead, AfterHead
<1>4. CASE SetupIdle
  BY <1>4, NextSetupType, Stutter DEF SetupIdle, Stage, ClosedMap
<1>5. CASE SetupRestart
  BY <1>0, <1>5, RestartRefines DEF SetupRestart, Promise!ClientsNext
<1>6. CASE SetupRegister
  BY <1>6, NextSetupType, Stutter DEF SetupRegister, Stage, ClosedMap
<1>7. CASE SetupAddFails
  BY <1>7, ExitRefines DEF SetupAddFails, Promise!ClientsNext
<1>8. CASE Wait
  BY <1>8, Stutter DEF Wait, Stage, ClosedMap
<1>9. CASE WaitFails
  BY <1>9, AdvanceRefines DEF WaitFails, Promise!ClientsNext
<1>10. ASSUME NEW c \in Conns, Handle(c)
       PROVE  Promise!ClientsNext \/ UNCHANGED Promise!clientVars
  BY <1>10, HandleIsHandlerStep, HandlerRefines DEF Promise!ClientsNext
<1>11. ASSUME NEW c \in Conns, SigPipe(c)
       PROVE  Promise!ClientsNext
  BY <1>11, ExitRefines DEF SigPipe, Writing, Pending, Promise!ClientsNext
<1>12. CASE ReportConnection
  BY <1>0, <1>12, ReportRefines DEF ReportConnection, Promise!ClientsNext
<1>13. ASSUME NEW c \in Conns, Network(c)
       PROVE  UNCHANGED Promise!clientVars
  BY <1>13, Stutter DEF Network, PeerActs, Stage, ClosedMap
<1>14. CASE Tick
  BY <1>14, Stutter DEF Tick, Stage, ClosedMap
<1>15. CASE UNCHANGED vars
  BY <1>15, Stutter DEF vars, Stage, ClosedMap
<1> QED
  BY <1>1, <1>2, <1>3, <1>4, <1>5, <1>6, <1>7, <1>8, <1>9, <1>10, <1>11, <1>12, <1>13,
     <1>14, <1>15 DEF Next, Bench, Terminated

\* bench_epoll settles every attempt of a client by exactly one count, never
\* revives a client it could not dial, and reports every client exactly once.
THEOREM Implementation == Spec => ImplementsClients
<1>1. Init => Promise!ClientsInit
  BY InitRefines
<1>2. Core /\ [Next]_vars => [Promise!ClientsNext]_(Promise!clientVars)
  BY StepRefines
<1>3. Spec => []Core
  BY CoreInvariant
<1> QED BY <1>1, <1>2, <1>3, PTL DEF Spec, ImplementsClients, Promise!ClientsSpec
=============================================================================
