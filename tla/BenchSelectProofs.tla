------------------------- MODULE BenchSelectProofs --------------------------
(***************************************************************************)
(* Theorems about bench_select for every number of clients, every set of   *)
(* descriptors and every size of the descriptor sets: what is set for a    *)
(* socket, the order of an attempt, the report, and, without a tunnel, the *)
(* refinement of BenchClients.                                             *)
(***************************************************************************)
EXTENDS BenchSelect, HandlersProofs

USE ConnectionAssumption, FdsAssumption

-----------------------------------------------------------------------------
(* handle_ready_connection.                                                 *)

LEMMA CoreTypes ==
    ASSUME Core
    PROVE  /\ Owned /\ HandlersTypeOK /\ conn \in [Conns -> ConnectionRecord]
           /\ phase \in Phases /\ i \in Nat /\ reads \subseteq Fds /\ writes \subseteq Fds
           /\ max_fd \in Fds \cup {0}
           /\ totals \in Totals /\ expired \in BOOLEAN
           /\ phase \in {"init", "setup", "handle", "report"} => i \in Conns
           /\ \A c \in Conns : Forced => conn[c].state # "RECEIVING"
BY DEF Core, TypeOK, HandlersTypeOK, Bookkeeping, Owned

\* The handlers only reach connections that still wait.
LEMMA HandledWaits ==
    ASSUME Core, phase = "handle"
    PROVE  i \in Conns /\ Waits(i)
<1>1. i \in Conns /\ i >= i
  BY CoreTypes DEF Conns
<1>2. conn[i].state \in Waiting
  BY <1>1 DEF Core, Bookkeeping
<1> QED BY <1>1, <1>2, CoreTypes, OwnedWaits

\* send_proxy_connect: whatever part of the CONNECT request went out.
LEMMA ProxyConnectSettles ==
    ASSUME NEW c \in Conns, Waits(c), NEW n \in SendResults(Fd(c), ConnectLen),
           TunnelChunk(c, n), Becomes(c, TunnelSent(conn[c], n))
    PROVE  Settled(c)
<1> DEFINE k == conn[c]
           m == [k EXCEPT !.state = "PROXY_RESPONSE"]
<1>1. n \in Int /\ k \in ConnectionRecord
  BY WaitsTypes DEF SendResults
<1>2. OnSocketOf(c) /\ KeepsContext /\ errno' \in Errno
  BY WaitsTypes, DrainType, ErrnoType DEF TunnelChunk
<1>3. OnWireOf(c)
  BY <1>1, WaitsTypes, WireGrows DEF TunnelChunk
<1>4. Outcome(k, m)
  <2>1. m \in ConnectionRecord
    BY <1>1 DEF ConnectionRecord, ConnectionState, Waiting
  <2> QED BY <1>1, <2>1 DEF Outcome, ConnectionRecord, Waiting
<1>5. Outcome(k, TunnelSent(k, n))
  BY <1>4, WaitsTypes, OutcomeOps DEF SslState, TunnelSent
<1> QED BY <1>2, <1>3, <1>5, SettledBy

\* The one way out of an attempt that bench_select.c:427 does not count.
GivenUp(c) ==
    /\ conn[c].state = "PROXY_RESPONSE" /\ Becomes(c, Abandoned(conn[c]))
    /\ OnSocketOf(c) /\ UNCHANGED wire /\ KeepsContext /\ ~ctx'
    /\ errno' \in Errno

LEMMA ProxyResponseSettles ==
    ASSUME NEW c \in Conns, c = i, Waits(c), HandleProxyResponse
    PROVE  Settled(c) \/ GivenUp(c)
<1> DEFINE k == conn[c]
<1>1. k.state = "PROXY_RESPONSE" /\ UNCHANGED wire /\ OnWireOf(c)
  BY WaitsTypes DEF HandleProxyResponse, Handling
<1>2. ASSUME NEW n, TunnelRecv(c, n)
      PROVE  Settled(c)
  BY <1>1, <1>2, TunnelRecvSettles
<1>3. ASSUME MayDrain(Fd(c), {"IN"}), Becomes(c, Failed(k)), UNCHANGED <<ctx, errno>>
      PROVE  Settled(c)
  <2>1. Outcome(k, Failed(k))
    BY WaitsTypes, OutcomeOps DEF SslState
  <2>2. OnSocketOf(c)
    BY <1>3, WaitsTypes, DrainType
  <2> QED BY <1>1, <1>3, <2>1, <2>2, WaitsTypes, SettledBy
<1>4. ASSUME NEW ssl \in SslState, MayDrain(Fd(c), {"IN"}),
             SetupSsl(ssl), errno' \in {errno, "other"},
             Becomes(c, IF ctx' THEN WithSsl(k, ssl) ELSE Abandoned(k))
      PROVE  Settled(c) \/ GivenUp(c)
  <2>1. Outcome(k, WithSsl(k, ssl))
    BY WaitsTypes, OutcomeOps
  <2>2. OnSocketOf(c) /\ errno' \in Errno /\ KeepsContext
    BY <1>4, WaitsTypes, DrainType DEF SetupSsl, KeepsContext, Errno
  <2>3. CASE ctx'
    BY <1>1, <1>4, <2>1, <2>2, <2>3, SettledBy
  <2>4. CASE ~ctx'
    BY <1>1, <1>4, <2>2, <2>4 DEF GivenUp
  <2> QED BY <2>3, <2>4
<1> QED BY <1>2, <1>3, <1>4 DEF HandleProxyResponse

\* A full buffer is an answer, or a part of one is received.
LEMMA AnswerSettles ==
    ASSUME NEW c \in Conns, c = i, Waits(c), HandleReceiving
    PROVE  Settled(c)
<1> DEFINE k == conn[c]
           m == AnsweredUncounted(k)
<1>1. ~Forced /\ k \in ConnectionRecord
  BY WaitsTypes DEF HandleReceiving, Handling
<1>2. CASE Receiving(c)
  BY <1>1, <1>2, ReceivingSettles
<1>3. CASE Becomes(c, m) /\ UNCHANGED <<ctx, errno, ready, wire>>
  <2>1. k.speed + 1 \in Nat
    BY <1>1 DEF ConnectionRecord
  <2>2. /\ m \in ConnectionRecord /\ m.state = "COMPLETED" /\ m.sockfd = k.sockfd
        /\ m.failed = k.failed /\ m.speed = k.speed + 1
    BY <1>1, <2>1 DEF AnsweredUncounted, ConnectionRecord, ConnectionState, Over
  <2>3. Outcome(k, m)
    BY <1>1, <2>2 DEF Outcome
  <2> QED BY <1>3, <2>3, WaitsTypes, SettledBy
<1> QED BY <1>2, <1>3 DEF HandleReceiving

\* Every call of handle_ready_connection settles, advances or gives up connection i.
LEMMA HandleSettles ==
    ASSUME Core, NEW c \in Conns, c = i, Handle
    PROVE  Handled /\ Waits(c) /\ (Settled(c) \/ GivenUp(c))
<1>1. Handled
  BY DEF Handle, HandleConnecting, HandleProxyConnect, HandleProxyResponse,
         HandleHandshake, HandleSending, HandleReceiving, HandleIgnored, HandleStray, Handling
<1>2. Waits(c)
  BY <1>1, HandledWaits DEF Handled
<1> SUFFICES Settled(c) \/ GivenUp(c)
  BY <1>1, <1>2
<1>3. CASE HandleIgnored
  BY <1>2, <1>3, DroppedSettles DEF HandleIgnored
<1>4. CASE HandleConnecting
  BY <1>2, <1>4, ConnectingSettles DEF HandleConnecting
<1>5. CASE HandleProxyConnect
  BY <1>2, <1>5, ProxyConnectSettles, DroppedSettles DEF HandleProxyConnect
<1>6. CASE HandleProxyResponse
  BY <1>2, <1>6, ProxyResponseSettles
<1>7. CASE HandleHandshake
  BY <1>2, <1>7, HandshakingSettles DEF HandleHandshake
<1>8. CASE HandleSending
  BY <1>2, <1>8, SendingSettles DEF HandleSending
<1>9. CASE HandleReceiving
  BY <1>2, <1>9, AnswerSettles
<1>10. CASE HandleStray
  <2>1. errno' \in Errno /\ conn[c] \in ConnectionRecord
    BY <1>2, <1>10, WaitsTypes DEF HandleStray, SetsErrno, Errno
  <2>2. Outcome(conn[c], conn[c])
    BY <1>2, WaitsTypes, OutcomeOps DEF SslState
  <2> QED BY <1>2, <1>10, <2>1, <2>2, WaitsTypes, SettledBy DEF HandleStray
<1> QED BY <1>3, <1>4, <1>5, <1>6, <1>7, <1>8, <1>9, <1>10 DEF Handle

\* What a handler leaves of the bench.
LEMMA HandleOwned ==
    ASSUME Core, Handle
    PROVE  /\ i \in Conns /\ Waits(i) /\ Handled /\ Owned'
           /\ \A d \in Conns \ {i} : conn'[d] = conn[d] /\ wire'[d] = wire[d]
           /\ ctx => ctx'
           /\ Outcome(conn[i], conn'[i]) \/ (GivenUp(i) /\ conn'[i] = Abandoned(conn[i]))
           /\ Forced => conn'[i].state # "RECEIVING"
<1>1. phase = "handle"
  BY DEF Handle, HandleConnecting, HandleProxyConnect, HandleProxyResponse,
         HandleHandshake, HandleSending, HandleReceiving, HandleIgnored, HandleStray, Handling, Handled
<1>2. PICK c \in Conns : c = i
  BY <1>1, HandledWaits
<1>3. /\ Handled /\ Waits(c) /\ (Settled(c) \/ GivenUp(c)) /\ Owned
      /\ UNCHANGED <<attempts, open>>
      /\ conn[c].state \in Waiting /\ conn[c] \in ConnectionRecord /\ conn[c].state # "IDLE"
  BY <1>2, CoreTypes, HandleSettles, WaitsTypes DEF Handled, Waiting
<1>4. CASE Settled(c)
  <2>1. Owned' /\ Outcome(conn[c], conn'[c]) /\ \A d \in Conns \ {c} : conn'[d] = conn[d]
    BY <1>3, <1>4, SettledOwned
  <2>2. (\A d \in Conns \ {c} : wire'[d] = wire[d]) /\ (ctx => ctx')
    BY <1>4 DEF Settled, OnWireOf, KeepsContext
  <2> QED BY <1>2, <1>3, <2>1, <2>2 DEF Outcome
<1>5. CASE GivenUp(c)
  <2> DEFINE m == Abandoned(conn[c])
  <2>1. m \in ConnectionRecord /\ m.state = "ERROR" /\ m.sockfd = conn[c].sockfd
    BY <1>3 DEF Abandoned, ConnectionRecord, ConnectionState, Over
  <2>2. OnSocketOf(c) /\ OnWireOf(c) /\ ctx' \in BOOLEAN /\ errno' \in Errno /\ Becomes(c, m)
    BY <1>3, <1>5, WaitsTypes DEF GivenUp, KeepsContext
  <2>3. Owned' /\ conn'[c] = m /\ \A d \in Conns \ {c} : conn'[d] = conn[d]
    BY <1>3, <2>1, <2>2, MovedOwned
  <2>4. wire' = wire /\ (ctx => ctx')
    BY <1>5 DEF GivenUp, KeepsContext
  <2> QED BY <1>2, <1>3, <1>5, <2>1, <2>3, <2>4
<1> QED BY <1>3, <1>4, <1>5

-----------------------------------------------------------------------------
(* The descriptor sets.                                                     *)

LoopTypes ==
    /\ phase \in Phases /\ i \in Nat /\ reads \subseteq Fds /\ writes \subseteq Fds
    /\ max_fd \in Fds \cup {0}
    /\ totals \in Totals /\ expired \in BOOLEAN

\* A step that leaves the sets.
LEMMA LeavesSets ==
    ASSUME Owned', LoopTypes', phase' \notin {"setup", "select", "handle"}, Bookkeeping'
    PROVE  Core'
BY DEF Core, Owned, LoopTypes, TypeOK, SetsFilled

\* A descriptor that no connection before the present one has is in neither set.
LEMMA FreshBit ==
    ASSUME NEW c \in Conns, Filled(c), NEW fd,
           \A d \in Conns : d < c => Fd(d) # fd
    PROVE  fd \notin reads /\ fd \notin writes
BY DEF Filled

\* max_fd only grows, and it is a descriptor.
LEMMA MarkedGrows ==
    ASSUME NEW k, Marked(k), k.sockfd \in Fds, max_fd \in Fds \cup {0}
    PROVE  max_fd' \in Fds \cup {0} /\ max_fd \in Nat /\ max_fd' \in Nat /\ max_fd <= max_fd'
<1>1. max_fd' = IF k.sockfd > max_fd THEN k.sockfd ELSE max_fd
  BY DEF Marked
<1>2. max_fd \in Nat /\ k.sockfd \in Nat
  <2>1. \A fd : fd \in Fds => fd \in Nat
    BY Zenon
  <2>2. \A fd : fd \in Fds \cup {0} => fd \in Nat
    BY <2>1
  <2> QED BY <2>1, <2>2, Zenon
<1> QED BY <1>1, <1>2

\* FD_SET of one socket for what its connection waits for.
LEMMA MarkedSets ==
    ASSUME NEW k, Marked(k), k.sockfd \notin reads, k.sockfd \notin writes
    PROVE  /\ reads \subseteq reads' /\ reads' \subseteq reads \cup {k.sockfd}
           /\ writes \subseteq writes' /\ writes' \subseteq writes \cup {k.sockfd}
           /\ k.sockfd \in reads' <=> "IN" \in WaitsFor(k)
           /\ k.sockfd \in writes' <=> "OUT" \in WaitsFor(k)
BY DEF Marked, FdSet

\* setup_connection_fdsets, once it has seen to one connection more.
LEMMA NextFilled ==
    ASSUME Core, NEW c \in Conns, Filled(c), Owned', InSets',
           \A d \in Conns \ {c} : conn'[d] = conn[d],
           conn'[c].state # "IDLE", \A d \in Conns : conn[d].state # "IDLE",
           Marked(conn'[c])
    PROVE  Filled(c + 1)'
<1> DEFINE fd == conn'[c].sockfd
<1>1. \A d \in Conns \ {c} : conn'[d].sockfd # fd
  <2>1. conn'[c].sockfd # NoFd
    BY DEF Owned, DescriptorOwnership, Fd
  <2> QED BY <2>1 DEF Owned, DescriptorOwnership, Fd
<1>2. fd \notin reads /\ fd \notin writes
  <2>1. \A d \in Conns : d < c => Fd(d) # fd
    BY <1>1 DEF Fd, Conns
  <2> QED BY <2>1, FreshBit
<1>3. /\ reads \subseteq reads' /\ reads' \subseteq reads \cup {fd}
      /\ writes \subseteq writes' /\ writes' \subseteq writes \cup {fd}
      /\ fd \in reads' <=> "IN" \in WaitsFor(conn'[c])
      /\ fd \in writes' <=> "OUT" \in WaitsFor(conn'[c])
  BY <1>2, MarkedSets
<1>4. \A d \in Conns : d < c + 1 <=> d < c \/ d = c
  BY DEF Conns
<1>5. (reads \cup writes)' \subseteq {Fd(d)' : d \in {e \in Conns : e < c + 1}}
  <2>1. ASSUME NEW f \in reads \cup writes
        PROVE  \E d \in Conns : d < c + 1 /\ Fd(d)' = f
    <3>1. PICK d \in Conns : d < c /\ Fd(d) = f
      BY <2>1 DEF Filled
    <3>2. d # c
      BY <3>1 DEF Conns
    <3> QED BY <1>4, <3>1, <3>2 DEF Fd
  <2>2. Fd(c)' = fd /\ c < c + 1
    BY <1>4 DEF Fd
  <2> QED BY <1>3, <2>1, <2>2
<1>6. ASSUME NEW d \in Conns, d < c + 1 PROVE MarkedSoundly(d)' /\ MarkedFully(d)'
  <2>1. CASE d = c
    BY <1>3, <2>1 DEF MarkedSoundly, MarkedFully, Fd
  <2>2. CASE d # c
    <3>1. MarkedSoundly(d) /\ MarkedFully(d) /\ conn'[d] = conn[d] /\ conn'[d].sockfd # fd
      BY <1>1, <1>4, <1>6, <2>2 DEF Filled
    <3> QED BY <1>3, <3>1 DEF MarkedSoundly, MarkedFully, Fd
  <2> QED BY <2>1, <2>2
<1> QED BY <1>5, <1>6 DEF Filled

-----------------------------------------------------------------------------
(* The invariant of the loop, action by action.                             *)

\* The for loop of setup_connection_fdsets, once connection i has been seen to.
LEMMA NextSetupCore ==
    ASSUME Core, phase = "setup", NEW c \in Conns, c = i, Owned',
           i' = i + 1, phase' = LastOr("select"), UNCHANGED <<totals, expired>>,
           \A d \in Conns \ {c} : conn'[d] = conn[d],
           conn'[c].state \in Waiting, Forced => conn'[c].state # "RECEIVING",
           Marked(conn'[c]), conn'[c].sockfd \in Fds
    PROVE  Core'
<1>0. /\ reads' \subseteq Fds /\ writes' \subseteq Fds /\ max_fd' \in Fds \cup {0}
      /\ InSets' => InSets
  <2>1. reads' \subseteq Fds /\ writes' \subseteq Fds
    BY CoreTypes DEF Marked, FdSet
  <2>2. FdSetSize \in Int
    BY DEF FdSetSize
  <2>3. max_fd' \in Fds \cup {0} /\ max_fd \in Nat /\ max_fd' \in Nat /\ max_fd <= max_fd'
    BY CoreTypes, MarkedGrows
  <2> QED BY <2>1, <2>2, <2>3 DEF InSets
<1>1. /\ InSets => Filled(c)
      /\ \A d \in Conns : conn[d].state # "IDLE"
      /\ \A d \in Conns : d < c => conn[d].state \in Waiting
  BY DEF Core, SetsFilled, Bookkeeping
<1>2. conn'[c].state # "IDLE"
  BY DEF Waiting
<1>3. InSets' => Filled(c + 1)'
  BY <1>0, <1>1, <1>2, NextFilled
<1>4. /\ i' = c + 1 /\ phase' \in {"setup", "select"}
      /\ phase' = "select" <=> c + 1 = NumConnections
      /\ phase' = "setup" => i' \in Conns
  BY ConnsNonEmpty DEF LastOr, Conns
<1>5. TypeOK' /\ DescriptorOwnership'
  BY <1>0, <1>4, CoreTypes DEF Owned, TypeOK, Phases
<1>6. \A d \in Conns : d < c + 1 => conn'[d].state \in Waiting
  <2>1. \A d \in Conns : d < c + 1 => d < c \/ d = c
    BY DEF Conns
  <2> QED BY <1>1, <2>1
<1>7. Bookkeeping'
  <2>1. phase' = "select" => \A d \in Conns : d < c + 1
    BY <1>4, ConnsNonEmpty DEF Conns
  <2>2. \A d \in Conns : conn'[d].state # "IDLE"
    BY <1>1, <1>2
  <2>3. Forced => \A d \in Conns : conn'[d].state # "RECEIVING"
    BY CoreTypes
  <2> QED BY <1>4, <1>6, <2>1, <2>2, <2>3 DEF Bookkeeping
<1>8. SetsFilled'
  <2>1. InSets' => Filled(i)' /\ (c + 1 = NumConnections => Filled(NumConnections)')
    BY <1>3, <1>4 DEF Filled, MarkedSoundly, MarkedFully
  <2> QED BY <1>4, <2>1 DEF SetsFilled
<1> QED BY <1>5, <1>7, <1>8 DEF Core

LEMMA SetupWaitingCore ==
    ASSUME Core, SetupWaiting
    PROVE  Core'
<1>1. PICK c \in Conns : c = i
  BY CoreTypes DEF SetupWaiting
<1>2. Owned' /\ conn' = conn
  BY CoreTypes, QuietOwned DEF SetupWaiting
<1>3. conn[c].state \in Waiting /\ Fd(c) \in Fds
  BY <1>1, CoreTypes, OwnedWaits, WaitsTypes DEF SetupWaiting
<1> QED BY <1>1, <1>2, <1>3, CoreTypes, NextSetupCore DEF SetupWaiting, Fd

LEMMA SetupRestartCore ==
    ASSUME Core, SetupRestart
    PROVE  Core'
<1>1. PICK c \in Conns : c = i
  BY CoreTypes DEF SetupRestart
<1>2. /\ Owned' /\ \A d \in Conns \ {c} : conn'[d] = conn[d]
      /\ conn'[c].state = "CONNECTING"
  BY <1>1, CoreTypes, RedialledOwned DEF SetupRestart
<1>3. conn'[c].sockfd \in Fds
  BY <1>2 DEF Owned, DescriptorOwnership, Fd, HandlersTypeOK, SocketsTypeOK
<1>4. conn'[c].state \in Waiting /\ conn'[c].state # "RECEIVING"
  BY <1>2 DEF Waiting
<1> QED BY <1>1, <1>2, <1>3, <1>4, NextSetupCore DEF SetupRestart

\* Nothing is ready that was not asked for, within the sets.
LEMMA SelectCore ==
    ASSUME Core, Select
    PROVE  Core'
<1>1. /\ phase = "select" /\ i' = 0 /\ phase' \in {"loop", "handle"}
      /\ InSets => reads' \subseteq reads /\ writes' \subseteq writes
      /\ reads' \subseteq Fds /\ writes' \subseteq Fds
      /\ UNCHANGED <<max_fd, totals, expired>>
  BY CoreTypes DEF Select, Ready
<1>2. Owned' /\ conn' = conn
  BY CoreTypes, QuietOwned DEF Select
<1>3. TypeOK' /\ DescriptorOwnership'
  BY <1>1, <1>2, CoreTypes DEF Owned, TypeOK, Phases
<1>4. Bookkeeping'
  BY <1>1, <1>2, ConnsNonEmpty DEF Core, Bookkeeping
<1>5. ASSUME NEW c \in Conns, InSets PROVE MarkedSoundly(c)'
  <2>1. MarkedSoundly(c)
    BY <1>1, <1>5, ConnsNonEmpty DEF Core, SetsFilled, Filled, Conns
  <2> QED BY <1>1, <1>2, <1>5, <2>1 DEF MarkedSoundly, Fd
<1>6. SetsFilled'
  BY <1>1, <1>5 DEF SetsFilled, InSets
<1> QED BY <1>3, <1>4, <1>6 DEF Core

LEMMA HandleCore ==
    ASSUME Core, Handle
    PROVE  Core'
<1>1. PICK c \in Conns : c = i
  BY HandleOwned
<1>2. /\ Owned' /\ \A d \in Conns \ {c} : conn'[d] = conn[d]
      /\ Forced => conn'[c].state # "RECEIVING"
      /\ conn'[c].state # "IDLE"
      /\ phase = "handle" /\ i' = c + 1 /\ phase' = LastOr("loop")
      /\ UNCHANGED <<reads, writes, max_fd, totals, expired>>
  <2>1. Abandoned(conn[c]).state # "IDLE"
    BY CoreTypes DEF Abandoned, ConnectionRecord
  <2>2. Outcome(conn[c], conn'[c]) => conn'[c].state # "IDLE"
    BY DEF Outcome, Waiting
  <2> QED BY <1>1, <2>1, <2>2, HandleOwned DEF Handled
<1>3. /\ phase' \in {"handle", "loop"}
      /\ phase' = "handle" => c + 1 \in Conns
      /\ \A d \in Conns : d >= c + 1 => d >= c /\ d # c
  BY <1>1, <1>2, ConnsNonEmpty DEF LastOr, Conns
<1>4. TypeOK' /\ DescriptorOwnership'
  BY <1>2, <1>3, CoreTypes DEF Owned, TypeOK, Phases, Conns
<1>5. Bookkeeping'
  <2>1. \A d \in Conns : conn'[d].state # "IDLE"
    BY <1>2 DEF Core, Bookkeeping
  <2>2. \A d \in Conns : d >= c + 1 => conn'[d].state \in Waiting
    BY <1>1, <1>2, <1>3 DEF Core, Bookkeeping
  <2>3. Forced => \A d \in Conns : conn'[d].state # "RECEIVING"
    BY <1>2, CoreTypes
  <2> QED BY <1>2, <1>3, <2>1, <2>2, <2>3 DEF Bookkeeping
<1>6. SetsFilled'
  <2>1. ASSUME NEW d \in Conns, d >= c + 1, InSets PROVE MarkedSoundly(d)'
    <3>1. MarkedSoundly(d) /\ conn'[d] = conn[d]
      BY <1>1, <1>2, <1>3, <2>1 DEF Core, SetsFilled
    <3> QED BY <1>2, <3>1 DEF MarkedSoundly, Fd
  <2> QED BY <1>2, <1>3, <2>1 DEF SetsFilled, InSets
<1> QED BY <1>4, <1>5, <1>6 DEF Core

LEMMA InitConnectionCore ==
    ASSUME Core, InitConnection
    PROVE  Core'
<1>1. PICK c \in Conns : c = i
  BY CoreTypes DEF InitConnection
<1>2. /\ conn[c] = Fresh /\ phase = "init" /\ i' = c + 1 /\ phase' \in {"init", "start"}
      /\ phase' = "start" <=> c + 1 = NumConnections
      /\ conn'[c].state # "IDLE"
      /\ \A d \in Conns : IF d >= c THEN conn[d] = Fresh ELSE conn[d].state # "IDLE"
      /\ UNCHANGED <<reads, writes, max_fd, totals, expired>>
  BY <1>1 DEF InitConnection, LastOr, Core, Bookkeeping, Conns
<1>3. /\ Owned' /\ \A d \in Conns \ {c} : conn'[d] = conn[d]
      /\ conn'[c].state # "RECEIVING"
  BY <1>1, <1>2, CoreTypes, FirstDialOwned DEF InitConnection
<1>4. /\ c + 1 # NumConnections => c + 1 \in Conns
      /\ c + 1 = NumConnections => \A d \in Conns : ~(d >= c + 1)
      /\ \A d \in Conns : d # c => (d >= c + 1 <=> d >= c)
      /\ ~(c >= c + 1) /\ c + 1 \in Nat
  BY ConnsNonEmpty DEF Conns
<1>5. LoopTypes'
  BY <1>2, <1>4, CoreTypes DEF LoopTypes, Phases
<1>6. \A d \in Conns : IF d >= c + 1 THEN conn'[d] = Fresh ELSE conn'[d].state # "IDLE"
  BY <1>2, <1>3, <1>4
<1>7. Forced => \A d \in Conns : conn'[d].state # "RECEIVING"
  BY <1>3, CoreTypes
<1>8. Bookkeeping'
  BY <1>2, <1>4, <1>6, <1>7 DEF Bookkeeping
<1> QED BY <1>2, <1>3, <1>5, <1>8, LeavesSets

LEMMA LoopHeadCore ==
    ASSUME Core, LoopHead
    PROVE  Core'
<1>1. /\ phase = "loop" /\ phase' \in {"report", "setup"} /\ i' = 0
      /\ InSets => reads' = {} /\ writes' = {}
      /\ reads' \subseteq Fds /\ writes' \subseteq Fds
      /\ UNCHANGED <<max_fd, totals, expired>>
  BY CoreTypes DEF LoopHead, AfterHead, Behind, Zeroed
<1>2. Owned' /\ conn' = conn
  BY CoreTypes, QuietOwned DEF LoopHead
<1>3. \A c \in Conns : ~(c < 0)
  BY DEF Conns
<1>4. TypeOK' /\ DescriptorOwnership'
  BY <1>1, <1>2, CoreTypes DEF Owned, TypeOK, Phases
<1>5. Bookkeeping'
  BY <1>1, <1>2, <1>3, ConnsNonEmpty DEF Core, Bookkeeping
<1>6. SetsFilled'
  BY <1>1, <1>3 DEF SetsFilled, InSets, Filled
<1> QED BY <1>4, <1>5, <1>6 DEF Core

LEMMA ReportedRest ==
    ASSUME Core, ReportConnection
    PROVE  /\ i \in Conns /\ conn[i] \in ConnectionRecord /\ Owned'
           /\ \A d \in Conns \ {i} : conn'[d] = conn[d]
           /\ conn'[i] = Cleaned(conn[i])
<1>1. /\ i \in Conns /\ i >= i /\ Owned /\ conn[i] \in ConnectionRecord /\ ctx' \in BOOLEAN
  BY CoreTypes DEF ReportConnection
<1>2. Fd(i) > 0
  <2>1. conn[i].state # "IDLE"
    BY <1>1 DEF Core, Bookkeeping, ReportConnection
  <2>2. Fd(i) \in Fds
    BY <1>1, <2>1 DEF Owned, DescriptorOwnership, HandlersTypeOK, SocketsTypeOK
  <2>3. Fd(i) \in Nat /\ Fd(i) # 0
    BY <2>2
  <2> QED BY <2>3
<1> QED BY <1>1, <1>2, ReportedOwned DEF ReportConnection

LEMMA ReportCore ==
    ASSUME Core, ReportConnection
    PROVE  Core'
<1>1. PICK c \in Conns : c = i
  BY ReportedRest
<1>2. /\ conn[c] \in ConnectionRecord /\ Owned' /\ conn'[c] = Cleaned(conn[c])
      /\ \A d \in Conns \ {c} : conn'[d] = conn[d]
      /\ phase = "report" /\ i' = c + 1 /\ phase' \in {"report", "done"}
      /\ phase' = "report" => c + 1 # NumConnections
      /\ UNCHANGED <<reads, writes, max_fd, expired>>
  BY <1>1, ReportedRest DEF ReportConnection, LastOr
<1>3. totals' \in Totals
  <2>1. Added(totals, conn[i]) \in Totals
    BY <1>1, <1>2, CoreTypes, AddedType
  <2> QED BY <2>1 DEF ReportConnection
<1>4. LoopTypes'
  BY <1>2, <1>3, CoreTypes DEF LoopTypes, Phases, Conns
<1>5. /\ c + 1 # NumConnections => c + 1 \in Conns
      /\ \A d \in Conns : d >= c + 1 => d >= c /\ d # c
  BY ConnsNonEmpty DEF Conns
<1>6. Forced => \A d \in Conns : conn'[d].state # "RECEIVING"
  BY <1>2, CoreTypes, CleanedOps
<1>7. \A d \in Conns : d >= c + 1 => conn'[d].state # "IDLE"
  BY <1>1, <1>2, <1>5 DEF Core, Bookkeeping
<1>8. Bookkeeping'
  BY <1>2, <1>5, <1>6, <1>7 DEF Bookkeeping
<1> QED BY <1>2, <1>4, <1>8, LeavesSets

\* A step that touches neither the connections nor the loop.
LEMMA IdleCore ==
    ASSUME Core, Owned', conn' = conn, UNCHANGED loopVars, expired' \in BOOLEAN
    PROVE  Core'
<1>1. UNCHANGED <<phase, i, reads, writes, max_fd, totals>>
  BY DEF loopVars
<1>2. TypeOK' /\ DescriptorOwnership'
  BY <1>1, CoreTypes DEF Owned, TypeOK
<1>3. Bookkeeping'
  BY <1>1 DEF Core, Bookkeeping
<1>4. SetsFilled'
  BY <1>1 DEF Core, SetsFilled, InSets, Filled, MarkedSoundly, MarkedFully, Fd
<1> QED BY <1>2, <1>3, <1>4 DEF Core

LEMMA InitCore == Init => Core
<1> SUFFICES ASSUME Init PROVE Core
  OBVIOUS
<1>1. HandlersTypeOK
  BY FreshOps
     DEF Init, HandlersInit, HandlersTypeOK, SocketsInit, SocketsTypeOK, Wire, NothingSent, Errno
<1>2. TypeOK
  BY <1>1 DEF Init, TypeOK, Totals, NoTotals, Phases
<1>3. DescriptorOwnership
  BY DEF Init, HandlersInit, SocketsInit, DescriptorOwnership, Fresh, Fd
<1>4. Bookkeeping
  <2>1. \A c \in Conns : c >= 0
    BY DEF Conns
  <2> QED BY <2>1, ConnsNonEmpty, FreshOps DEF Init, HandlersInit, Bookkeeping
<1>5. SetsFilled
  BY DEF Init, SetsFilled
<1> QED BY <1>2, <1>3, <1>4, <1>5 DEF Core

LEMMA NextCore == Core /\ [Next]_vars => Core'
<1> SUFFICES ASSUME Core, [Next]_vars PROVE Core'
  OBVIOUS
<1>1. ASSUME Owned', conn' = conn, UNCHANGED <<i, reads, writes, max_fd, totals, expired>>,
             \/ phase' = "exit"
             \/ phase \in {"start", "select"} /\ phase' = "loop"
      PROVE  Core'
  <2>1. LoopTypes'
    BY <1>1, CoreTypes DEF LoopTypes, Phases
  <2>2. Bookkeeping'
    BY <1>1 DEF Core, Bookkeeping
  <2> QED BY <1>1, <2>1, <2>2, LeavesSets
<1>2. CASE AllocateFails \/ Start \/ SetupAborts \/ SslNewCrashes \/ SigPipe
  <2>1. Owned' /\ conn' = conn
    BY <1>2, CoreTypes, QuietOwned DEF AllocateFails, Start, SetupAborts, SslNewCrashes, SigPipe
  <2> QED BY <1>1, <1>2, <2>1 DEF AllocateFails, Start, SetupAborts, SslNewCrashes, SigPipe
<1>3. CASE SelectFails
  <2>1. UNCHANGED <<conn, ctx, attempts, wire, open, ready>> /\ errno' \in Errno
    BY <1>3, CoreTypes, ErrnoType DEF SelectFails, historyVars, socketVars, HandlersTypeOK
  <2>2. Owned' /\ conn' = conn
    BY <2>1, CoreTypes DEF Owned, HandlersTypeOK, SocketsTypeOK, DescriptorOwnership, Fd
  <2> QED BY <1>1, <1>3, <2>2 DEF SelectFails
<1>4. ASSUME NEW c \in Conns, Network(c) PROVE Core'
  <2>1. Owned' /\ conn' = conn
    BY <1>4, CoreTypes, PeerOwned DEF Network
  <2> QED BY <1>4, <2>1, CoreTypes, IdleCore DEF Network
<1>5. CASE Tick \/ UNCHANGED vars
  <2>1. UNCHANGED handlerVars /\ UNCHANGED loopVars /\ expired' \in BOOLEAN
    BY <1>5, CoreTypes DEF Tick, vars
  <2> QED BY <2>1, CoreTypes, QuietOwned, IdleCore
<1> QED
  BY <1>2, <1>3, <1>4, <1>5, InitConnectionCore, LoopHeadCore, SetupWaitingCore, SetupRestartCore,
     SelectCore, HandleCore, ReportCore
     DEF Next, Bench, Terminated

-----------------------------------------------------------------------------
(* The order of an attempt, and what the report leaves.                     *)

Uncounted(k) ==
    /\ k.state = "PROXY_CONNECT" => k.bytes_sent = 0
    /\ k.state \in {"PROXY_CONNECT", "PROXY_RESPONSE"} => NeedProxy

LEMMA AllUncounted ==
    /\ TunnelsUncounted <=> \A c \in Conns : Uncounted(conn[c])
    /\ TunnelsUncounted' <=> \A c \in Conns : Uncounted(conn'[c])
BY DEF TunnelsUncounted, Uncounted

\* send_proxy_connect leaves the counter of the request at zero.
LEMMA ProxyConnectInOrder ==
    ASSUME NEW c \in Conns, Waits(c), InOrder(c), Uncounted(conn[c]),
           conn[c].state = "PROXY_CONNECT", NEW n \in SendResults(Fd(c), ConnectLen),
           TunnelChunk(c, n), Becomes(c, TunnelSent(conn[c], n))
    PROVE  InOrder(c)' /\ Uncounted(conn'[c])
<1> DEFINE k == conn[c]
           m == [k EXCEPT !.state = "PROXY_RESPONSE"]
<1>1. /\ n \in Int /\ k \in ConnectionRecord /\ k.bytes_sent = 0
      /\ \A x : Becomes(c, x) => conn'[c] = x
  BY WaitsTypes DEF SendResults, Uncounted, Waits, HandlersTypeOK, Becomes
<1>2. KeepsContext
  BY WaitsTypes DEF TunnelChunk
<1>3. CASE Becomes(c, Failed(k))
  <2>1. Failed(k).state = "ERROR"
    BY <1>1 DEF Failed, ConnectionRecord
  <2> QED BY <1>1, <1>2, <1>3, <2>1, DroppedInOrder DEF Uncounted
<1>4. CASE Becomes(c, k)
  BY <1>1, <1>4, TunnelSentInOrder DEF Uncounted
<1>5. CASE Becomes(c, m)
  <2>1. m.state = "PROXY_RESPONSE" /\ m.bytes_sent = 0 /\ m.ssl = k.ssl
    BY <1>1 DEF ConnectionRecord
  <2> HIDE DEF m
  <2>2. InOrder(c)'
    BY <1>1, <1>5, <2>1, TunnelSentInOrder
  <2>3. Uncounted(conn'[c])
    BY <1>1, <1>5, <2>1 DEF Uncounted
  <2> QED BY <2>2, <2>3
<1> QED BY <1>3, <1>4, <1>5 DEF TunnelSent

\* handle_proxy_response: an attempt that is given up has no TLS object.
LEMMA ProxyResponseInOrder ==
    ASSUME NEW c \in Conns, c = i, Waits(c), InOrder(c), Uncounted(conn[c]), HandleProxyResponse
    PROVE  InOrder(c)' /\ Uncounted(conn'[c])
<1> DEFINE k == conn[c]
           gone == Abandoned(k)
<1>1. /\ k.state = "PROXY_RESPONSE" /\ k \in ConnectionRecord /\ wire' = wire
      /\ Https /\ NeedProxy /\ k.bytes_sent = 0 /\ wire[c].request = 0 /\ k.ssl = "NULL"
      /\ \A x : Becomes(c, x) => conn'[c] = x
  BY WaitsTypes DEF HandleProxyResponse, Handling, InOrder, TlsFits, WireFits, Over,
                    Uncounted, Waits, HandlersTypeOK, Becomes
<1>2. /\ Failed(k).state = "ERROR" /\ gone.state = "ERROR" /\ gone.ssl = k.ssl
  BY <1>1 DEF Failed, Abandoned, ConnectionRecord
<1>3. ASSUME NEW n, TunnelRecv(c, n) PROVE InOrder(c)' /\ Uncounted(conn'[c])
  <2>1. InOrder(c)'
    BY <1>1, <1>3, TunnelRecvInOrder
  <2>2. conn'[c] = k \/ conn'[c] = Failed(k)
    BY <1>1, <1>3 DEF TunnelRecv
  <2> QED BY <1>1, <1>2, <2>1, <2>2 DEF Uncounted
<1>4. CASE Becomes(c, Failed(k)) /\ UNCHANGED ctx
  <2>1. InOrder(c)'
    BY <1>1, <1>4, WaitsTypes, DroppedInOrder
  <2> QED BY <1>1, <1>2, <1>4, <2>1 DEF Uncounted
<1>5. CASE Becomes(c, gone)
  <2>1. TlsFits(gone, ctx') /\ WireFits(gone, wire'[c])
    BY <1>1, <1>2 DEF TlsFits, WireFits
  <2> QED BY <1>1, <1>2, <1>5, <2>1, InOrderBy DEF Uncounted
<1>6. ASSUME NEW ssl \in SslState, SetupSsl(ssl), Becomes(c, WithSsl(k, ssl))
      PROVE  InOrder(c)' /\ Uncounted(conn'[c])
  <2> DEFINE m == WithSsl(k, ssl)
  <2>1. m.state = "TLS_HANDSHAKE" /\ m.ssl = ssl /\ m.bytes_sent = k.bytes_sent
    BY <1>1 DEF WithSsl, ConnectionRecord
  <2>2. ssl # "NULL" => ctx'
    BY <1>6 DEF SetupSsl
  <2>3. TlsFits(m, ctx') /\ WireFits(m, wire'[c])
    BY <1>1, <2>1, <2>2 DEF TlsFits, WireFits
  <2> QED BY <1>1, <1>6, <2>1, <2>3, InOrderBy DEF Uncounted
<1>7. \/ \E n : TunnelRecv(c, n)
      \/ Becomes(c, Failed(k)) /\ UNCHANGED ctx
      \/ Becomes(c, gone)
      \/ \E ssl \in SslState : SetupSsl(ssl) /\ Becomes(c, WithSsl(k, ssl))
  BY DEF HandleProxyResponse
<1> QED BY <1>3, <1>4, <1>5, <1>6, <1>7

LEMMA AnswerInOrder ==
    ASSUME NEW c \in Conns, c = i, Waits(c), InOrder(c), HandleReceiving
    PROVE  InOrder(c)' /\ Uncounted(conn'[c])
<1> DEFINE k == conn[c]
           m == AnsweredUncounted(k)
<1>1. k.state = "RECEIVING" /\ k \in ConnectionRecord /\ \A x : Becomes(c, x) => conn'[c] = x
  BY WaitsTypes DEF HandleReceiving, Handling, Waits, HandlersTypeOK, Becomes
<1>2. CASE Receiving(c)
  BY <1>1, <1>2, ReceivingInOrder, PastTunnel DEF Uncounted, Over
<1>3. CASE Becomes(c, m) /\ UNCHANGED <<ctx, wire>>
  <2>1. m.state = "COMPLETED" /\ m.ssl = k.ssl
    BY <1>1 DEF AnsweredUncounted, ConnectionRecord
  <2>2. TlsFits(m, ctx') /\ WireFits(m, wire'[c])
    BY <1>1, <1>3, <2>1 DEF InOrder, TlsFits, WireFits, Over
  <2> QED BY <1>1, <1>3, <2>1, <2>2, InOrderBy DEF Uncounted
<1> QED BY <1>2, <1>3 DEF HandleReceiving

\* Every call of handle_ready_connection keeps its attempt in order.
LEMMA HandleInOrder ==
    ASSUME Core, AttemptsInOrder, TunnelsUncounted, Handle
    PROVE  AttemptsInOrder' /\ TunnelsUncounted'
<1>1. PICK c \in Conns : c = i
  BY HandleOwned
<1>2. /\ Waits(c) /\ InOrder(c) /\ Uncounted(conn[c]) /\ conn[c] \in ConnectionRecord
      /\ \A x : Becomes(c, x) => conn'[c] = x
      /\ ctx => ctx'
      /\ \A d \in Conns \ {c} : conn'[d] = conn[d] /\ wire'[d] = wire[d]
  BY <1>1, HandleOwned, AllInOrder, AllUncounted, CoreTypes DEF Becomes
<1> SUFFICES InOrder(c)' /\ Uncounted(conn'[c])
  BY <1>2, AllUncounted, OthersInOrder
<1>3. CASE Dropped(c) \/ Erroneous(c)
  <2>1. InOrder(c)'
    BY <1>2, <1>3, WaitsTypes, DroppedInOrder DEF Dropped, Erroneous
  <2>2. Failed(conn[c]).state = "ERROR"
    BY <1>2 DEF Failed, ConnectionRecord
  <2> QED BY <1>2, <1>3, <2>1, <2>2 DEF Dropped, Erroneous, Uncounted
<1>4. CASE HandleConnecting
  <2>1. conn[c].state = "CONNECTING" /\ Connecting(c)
    BY <1>1, <1>4 DEF HandleConnecting, Handling
  <2>2. InOrder(c)'
    BY <1>2, <2>1, ConnectingInOrder
  <2>3. conn[c].bytes_sent = 0
    BY <1>2, <2>1 DEF InOrder, WireFits
  <2> QED BY <1>2, <2>1, <2>2, <2>3, ConnectingLeads DEF Uncounted
<1>5. CASE HandleProxyConnect
  BY <1>1, <1>2, <1>3, <1>5, ProxyConnectInOrder DEF HandleProxyConnect, Handling
<1>6. CASE HandleProxyResponse
  BY <1>1, <1>2, <1>6, ProxyResponseInOrder
<1>7. CASE HandleHandshake
  <2>1. conn[c].state = "TLS_HANDSHAKE" /\ conn[c].ssl # "NULL" /\ Handshaking(c)
    BY <1>1, <1>7 DEF HandleHandshake, Handling
  <2> QED BY <1>2, <2>1, HandshakingInOrder, PastTunnel DEF Uncounted, Over
<1>8. CASE HandleSending
  <2>1. conn[c].state = "SENDING" /\ Sending(c)
    BY <1>1, <1>8 DEF HandleSending, Handling
  <2> QED BY <1>2, <2>1, SendingInOrder, PastTunnel DEF Uncounted, Over
<1>9. CASE HandleReceiving
  BY <1>1, <1>2, <1>9, AnswerInOrder
<1>10. CASE HandleStray
  <2>1. conn'[c] = conn[c] /\ ctx' = ctx /\ wire'[c] = wire[c]
    BY <1>1, <1>2, <1>10 DEF HandleStray
  <2> QED BY <1>2, <2>1, InOrderBy DEF InOrder, Uncounted
<1> QED BY <1>1, <1>3, <1>4, <1>5, <1>6, <1>7, <1>8, <1>9, <1>10 DEF Handle, HandleIgnored

\* cleanup_ssl frees the TLS context when every connection has been cleaned up.
LEMMA ReportInOrder ==
    ASSUME Core, AttemptsInOrder, CleanedUp, ReportConnection
    PROVE  AttemptsInOrder' /\ CleanedUp'
<1>1. PICK c \in Conns : c = i
  BY ReportedRest
<1>2. /\ i' = c + 1 /\ wire' = wire /\ Owned
      /\ conn'[c] = Cleaned(conn[c]) /\ \A d \in Conns \ {c} : conn'[d] = conn[d]
      /\ ctx' = (ctx /\ c + 1 # NumConnections)
      /\ phase' = IF c + 1 = NumConnections THEN "done" ELSE "report"
      /\ \A d \in Conns : d < c => conn[d].state = "IDLE"
  BY <1>1, CoreTypes, ReportedRest DEF ReportConnection, LastOr, CleanedUp, historyVars
<1>3. AttemptsInOrder' /\ \A d \in Conns : d < c + 1 => conn'[d].state = "IDLE"
  BY <1>2, ReportedInOrder
<1> QED BY <1>2, <1>3 DEF CleanedUp

\* The counters of the tunnels, over the steps that belong to no handler.
LEMMA OthersUncounted ==
    ASSUME TunnelsUncounted, NEW c \in Conns, \A d \in Conns \ {c} : conn'[d] = conn[d],
           conn'[c].state \notin {"PROXY_CONNECT", "PROXY_RESPONSE"}
    PROVE  TunnelsUncounted'
<1>1. Uncounted(conn'[c])
  BY DEF Uncounted
<1> QED BY <1>1, AllUncounted

LEMMA NextInOrder ==
    ASSUME Core, AttemptsInOrder, TunnelsUncounted, CleanedUp, [Next]_vars
    PROVE  AttemptsInOrder' /\ TunnelsUncounted' /\ CleanedUp'
<1>0. HandlersTypeOK /\ conn \in [Conns -> ConnectionRecord] /\ Owned
  BY CoreTypes
<1>1. CASE InitConnection
  <2>1. i \in Conns /\ conn[i] = Fresh /\ FirstDial(i) /\ phase' \in {"init", "start"}
    BY <1>1, CoreTypes DEF InitConnection, LastOr, Core, Bookkeeping, Conns
  <2>2. /\ \A d \in Conns \ {i} : conn'[d] = conn[d]
        /\ conn'[i].state \notin {"PROXY_CONNECT", "PROXY_RESPONSE"}
    BY <1>0, <2>1, FirstDialOwned
  <2>3. AttemptsInOrder' /\ TunnelsUncounted'
    BY <1>0, <2>1, <2>2, FirstDialInOrder, OthersUncounted
  <2> QED BY <2>1, <2>3 DEF CleanedUp
<1>2. CASE SetupRestart
  <2>1. /\ i \in Conns /\ conn[i].state \in Over /\ Redialled(i)
        /\ phase' \notin {"report", "done"}
    BY <1>2, CoreTypes DEF SetupRestart, LastOr
  <2>2. /\ \A d \in Conns \ {i} : conn'[d] = conn[d]
        /\ conn'[i].state \notin {"PROXY_CONNECT", "PROXY_RESPONSE"}
    BY <1>0, <2>1, RedialledOwned
  <2>3. AttemptsInOrder' /\ TunnelsUncounted'
    BY <1>0, <2>1, <2>2, RedialledInOrder, OthersUncounted
  <2> QED BY <2>1, <2>3 DEF CleanedUp
<1>3. CASE Handle
  <2>1. phase' \notin {"report", "done"}
    BY <1>3, HandleOwned DEF Handled, LastOr
  <2> QED BY <1>3, <2>1, HandleInOrder DEF CleanedUp
<1>4. CASE ReportConnection
  <2>1. TunnelsUncounted'
    BY <1>4, ReportedRest, CleanedOps, OthersUncounted
  <2> QED BY <1>4, <2>1, ReportInOrder
<1>5. CASE /\ UNCHANGED <<conn, ctx, wire>>
           /\ \/ phase' \notin {"report", "done"}
              \/ phase' = "report" /\ i' = 0
              \/ UNCHANGED <<phase, i>>
  <2>1. \A c \in Conns : ~(c < 0)
    BY DEF Conns
  <2>2. TunnelsUncounted'
    BY <1>5, AllUncounted
  <2> QED BY <1>5, <2>1, <2>2, QuietInOrder DEF CleanedUp
<1> QED
  BY <1>1, <1>2, <1>3, <1>4, <1>5
     DEF Next, Bench, Terminated, vars, handlerVars, historyVars, loopVars, AllocateFails, Start,
         LoopHead, AfterHead, SetupWaiting, SetupAborts, LastOr, Select, SelectFails,
         SslNewCrashes, SigPipe, Tick, Network, PeerActs

-----------------------------------------------------------------------------
(* The sums of the report.                                                  *)

LEMMA ReportConnectionReported ==
    ASSUME Core, Reported, ReportConnection
    PROVE  Reported'
<1>1. PICK c \in Conns : c = i
  BY ReportedRest
<1>2. /\ i' = c + 1 /\ phase' \in {"report", "done"}
      /\ conn \in [Conns -> ConnectionRecord]
      /\ conn'[c] = Cleaned(conn[c]) /\ \A d \in Conns \ {c} : conn'[d] = conn[d]
      /\ totals' = Added(totals, conn[c]) /\ totals = EarnedBy({d \in Conns : d < c})
  BY <1>1, CoreTypes, ReportedRest DEF ReportConnection, LastOr, Reported
<1>3. EarnedBy({d \in Conns : d < c + 1})' = totals'
  BY <1>2, EarnedAdds
<1> QED BY <1>2, <1>3 DEF Reported, EarnedBy

LEMMA NextReported ==
    ASSUME Core, Reported, [Next]_vars
    PROVE  Reported'
<1>1. CASE ReportConnection
  BY <1>1, ReportConnectionReported
<1>2. CASE /\ phase \notin {"report", "done", "exit"} /\ totals' = totals
           /\ phase' \notin {"report", "done"} \/ (phase' = "report" /\ i' = 0)
  <2>1. totals' = NoTotals
    BY <1>2 DEF Reported
  <2>2. EarnedBy({c \in Conns : c < 0})' = NoTotals
    BY EarnedByNobody
  <2> QED BY <1>2, <2>1, <2>2 DEF Reported, EarnedBy
<1>3. CASE phase' = "exit"
  BY <1>3 DEF Reported
<1>4. CASE UNCHANGED <<phase, i, conn, totals>>
  BY <1>4 DEF Reported, EarnedBy
<1>5. CASE Handle
  <2>1. phase = "handle" /\ phase' \in {"loop", "handle"} /\ totals' = totals
    BY <1>5, HandleOwned DEF Handled, LastOr
  <2> QED BY <1>2, <2>1
<1> QED
  BY <1>1, <1>2, <1>3, <1>4, <1>5
     DEF Next, Bench, Terminated, vars, handlerVars, loopVars, InitConnection, AllocateFails, Start,
         LoopHead, AfterHead, SetupRestart, SetupWaiting, SetupAborts, LastOr, Select, SelectFails,
         SslNewCrashes, SigPipe, Tick, Network, PeerActs

-----------------------------------------------------------------------------
(* The theorems.                                                            *)

LEMMA InitInductive == Init => Inductive
<1> SUFFICES ASSUME Init PROVE Inductive
  OBVIOUS
<1>1. AttemptsInOrder
  <2> SUFFICES ASSUME NEW c \in Conns PROVE InOrder(c)
    BY AllInOrder
  <2> QED BY FreshInOrder DEF Init, HandlersInit, InOrder
<1>2. TunnelsUncounted
  BY FreshOps DEF Init, HandlersInit, TunnelsUncounted
<1>3. CleanedUp /\ Reported
  BY DEF Init, CleanedUp, Reported
<1> QED BY <1>1, <1>2, <1>3, InitCore DEF Inductive

\* In every behaviour of bench_select.c the inductive invariant holds.
THEOREM InductiveInvariant == Spec => []Inductive
<1>1. Init => Inductive
  BY InitInductive
<1>2. Inductive /\ [Next]_vars => Inductive'
  BY NextCore, NextInOrder, NextReported DEF Inductive
<1> QED BY <1>1, <1>2, PTL DEF Spec

\* bench_select neither leaks nor shares a descriptor.
THEOREM OwnershipTheorem == Spec => []DescriptorOwnership
<1>1. Inductive => DescriptorOwnership
  BY DEF Inductive, Core
<1> QED BY <1>1, InductiveInvariant, PTL

\* Until a descriptor outside of the sets has been marked, select is asked for exactly
\* what the connections wait for, and no handler runs on another connection's bit,
\* whatever descriptors are closed and reused while the sets are filled.
THEOREM ConsistentTheorem == Spec => []Consistent
<1>1. ASSUME Inductive PROVE Consistent
  <2>1. Core /\ Owned
    BY <1>1, CoreTypes DEF Inductive
  <2>2. CASE phase = "select" /\ InSets
    <3>1. ASSUME NEW c \in Conns
          PROVE  /\ Fd(c) \in reads <=> "IN" \in WaitsFor(conn[c])
                 /\ Fd(c) \in writes <=> "OUT" \in WaitsFor(conn[c])
      <4>1. c < NumConnections
        BY ConnsNonEmpty DEF Conns
      <4> QED BY <2>1, <2>2, <4>1 DEF Core, SetsFilled, Filled, MarkedSoundly, MarkedFully
    <3>2. reads \cup writes \subseteq {Fd(c) : c \in Conns}
      BY <2>1, <2>2 DEF Core, SetsFilled, Filled
    <3> QED BY <2>1, <2>2, <3>1, <3>2 DEF Core, Consistent, SetsMatchStates
  <2>3. CASE phase # "select" \/ ~InSets
    BY <2>1, <2>3 DEF Core, Consistent, SetsMatchStates, SetsFilled, MarkedSoundly
  <2> QED BY <2>2, <2>3
<1> QED BY <1>1, InductiveInvariant, PTL

\* bench_select awaits an answer only to a request that went out whole, each byte once.
THEOREM RequestTheorem == Spec => []RequestOnWire
<1>1. Inductive => RequestOnWire
  BY DEF Inductive, AttemptsInOrder
<1> QED BY <1>1, InductiveInvariant, PTL

\* bench_select's TLS calls run over an object made for the current socket while the
\* global context exists.
THEOREM TlsTheorem == Spec => []TlsLifecycle
<1>1. Inductive => TlsLifecycle
  BY DEF Inductive, AttemptsInOrder
<1> QED BY <1>1, InductiveInvariant, PTL

\* When bench_select ends regularly it has reported the sum over all clients, closed
\* every socket and freed every TLS object and the context.
THEOREM ReportTheorem == Spec => []ReportComplete
<1>1. ASSUME Inductive PROVE ReportComplete
  <2> SUFFICES ASSUME phase = "done"
               PROVE  /\ totals = Earned
                      /\ open = {} /\ ~ctx /\ \A c \in Conns : conn[c].ssl = "NULL"
    BY DEF ReportComplete
  <2>1. ~ctx /\ i = NumConnections /\ \A c \in Conns : conn[c].state = "IDLE"
    BY <1>1, ConnsNonEmpty DEF Inductive, CleanedUp, Conns
  <2>2. {c \in Conns : c < i} = Conns
    BY <2>1, ConnsNonEmpty DEF Conns
  <2>3. totals = Earned
    BY <1>1, <2>2 DEF Inductive, Reported, Earned
  <2> QED BY <1>1, <2>1, <2>3
          DEF Inductive, Core, DescriptorOwnership, AttemptsInOrder, TlsLifecycle, Over
<1> QED BY <1>1, InductiveInvariant, PTL

-----------------------------------------------------------------------------
(* The attempts that are not counted.                                       *)

\* The parts of the connections a step of the bench changes.
LEMMA ChangesOne ==
    ASSUME Core, [Next]_vars
    PROVE  \/ conn' = conn
           \/ Handle
           \/ \E c \in Conns : /\ conn[c].state \in {"IDLE"} \cup Over \/ conn'[c].state = "IDLE"
                               /\ \A d \in Conns \ {c} : conn'[d] = conn[d]
<1>1. CASE InitConnection
  <2>1. i \in Conns /\ conn[i] = Fresh
    BY <1>1, CoreTypes DEF InitConnection, Core, Bookkeeping, Conns
  <2> QED BY <1>1, <2>1, CoreTypes, FirstDialOwned, FreshOps DEF InitConnection
<1>2. CASE SetupRestart
  <2>1. i \in Conns /\ conn[i].state \in Over
    BY <1>2, CoreTypes DEF SetupRestart
  <2> QED BY <1>2, <2>1, CoreTypes, RedialledOwned DEF SetupRestart
<1>3. CASE ReportConnection
  BY <1>3, ReportedRest, CleanedOps
<1> QED
  BY <1>1, <1>2, <1>3
     DEF Next, Bench, Terminated, vars, handlerVars, AllocateFails, Start, LoopHead, SetupWaiting,
         SetupAborts, Select, SelectFails, SslNewCrashes, SigPipe, Tick, Network, PeerActs

\* bench_select.c:427 is the only way an attempt ends uncounted, and then no client
\* holds a TLS object.
THEOREM UncountedTheorem == Spec => UncountedWithoutContext
<1> DEFINE Accounted(c) ==
      conn[c].state \in Waiting /\ conn'[c].state \in Over =>
         \/ conn'[c].failed + conn'[c].speed = conn[c].failed + conn[c].speed + 1
         \/ Forced /\ conn'[c].state = "COMPLETED"
         \/ /\ conn[c].state = "PROXY_RESPONSE" /\ ~ctx'
            /\ \A d \in Conns : conn[d].ssl = "NULL"
<1>1. ASSUME Inductive, [Next]_vars PROVE [\A c \in Conns : Accounted(c)]_vars
  <2> SUFFICES ASSUME NEW c \in Conns, conn[c].state \in Waiting, conn'[c].state \in Over
               PROVE  Accounted(c)
    OBVIOUS
  <2>1. Core /\ Handle /\ c = i
    <3>1. Core
      BY <1>1 DEF Inductive
    <3>2. conn'[c] # conn[c]
      BY DEF Waiting, Over
    <3>3. Handle
      BY <1>1, <3>1, <3>2, ChangesOne DEF Waiting, Over
    <3>4. c = i
      BY <3>1, <3>2, <3>3, HandleOwned
    <3> QED BY <3>1, <3>3, <3>4
  <2>2. CASE Outcome(conn[c], conn'[c])
    <3>1. conn[c] \in ConnectionRecord
      BY <2>1, CoreTypes
    <3>2. conn[c].speed \in Nat /\ conn[c].failed \in Nat
      BY <3>1 DEF ConnectionRecord
    <3>3. \/ conn'[c].speed = conn[c].speed /\ conn'[c].failed = conn[c].failed + 1
          \/ conn'[c].speed = conn[c].speed + 1 /\ conn'[c].failed = conn[c].failed
          \/ Forced /\ conn'[c].state = "COMPLETED"
      BY <2>2 DEF Outcome, Waiting, Over
    <3> QED BY <3>2, <3>3
  <2>3. CASE GivenUp(c)
    <3>1. conn[c].state = "PROXY_RESPONSE" /\ ~ctx' /\ ~ctx
      BY <2>3 DEF GivenUp, KeepsContext
    <3>2. \A d \in Conns : conn[d].ssl = "NULL"
      BY <1>1, <3>1 DEF Inductive, AttemptsInOrder, TlsLifecycle
    <3> QED BY <3>1, <3>2
  <2> QED BY <2>1, <2>2, <2>3, HandleOwned
<1> QED BY <1>1, InductiveInvariant, PTL DEF Spec, UncountedWithoutContext

-----------------------------------------------------------------------------
(* The refinement, in a run without tunnels: the initial state maps to the  *)
(* abstract one, every step to an abstract step or a stutter.               *)

\* The clients' slots, counts and report as functions of the select bench's state.
SlotMap == [c \in Conns |-> Slot(c)]
CountMap == [c \in Conns |-> [good |-> conn[c].speed, bad |-> conn[c].failed]]
ClosedMap == IF phase \in {"report", "done"} THEN 0 .. i - 1 ELSE {}
TotalMap == IF phase = "exit" THEN [good |-> 0, bad |-> 0]
            ELSE [good |-> totals.speed, bad |-> totals.failed]

LEMMA InitRefines == Init => Promise!ClientsInit
BY DEF Init, HandlersInit, NoTotals, Promise!ClientsInit, Promise!NoCount, Stage, Slot, Fresh

\* A step that changes no connection, no total and no stage is a stutter.
LEMMA Stutter ==
    ASSUME Core, conn' = conn, totals' = totals, ClosedMap' = ClosedMap,
           Stage' = Stage, phase' = "exit" <=> phase = "exit"
    PROVE  UNCHANGED Promise!clientVars
BY DEF Promise!clientVars, Slot, ClosedMap, TotalMap

\* So is every step from one place of the bench's loop to another.
LEMMA RoundStutter ==
    ASSUME Core, conn' = conn, totals' = totals,
           phase \in {"loop", "setup", "select", "handle"},
           phase' \in {"loop", "setup", "select", "handle"}
    PROVE  UNCHANGED Promise!clientVars
BY Stutter DEF ClosedMap, Stage

\* An exit, an abort or SIGPIPE at any stage discards the report.
LEMMA ExitRefines ==
    ASSUME Core, UNCHANGED handlerVars, phase # "exit", phase' = "exit"
    PROVE  Promise!Abort
BY CoreTypes DEF Promise!Abort, Promise!NoCount, Stage, Slot, Phases, handlerVars

\* Every client has been dialled, or the loop ended: the next stage begins.
LEMMA AdvanceRefines ==
    ASSUME Core, UNCHANGED handlerVars, totals' = totals,
           \/ phase = "start" /\ phase' = "loop"
           \/ phase = "loop" /\ phase' = "report" /\ i' = 0
    PROVE  Promise!Advance
BY DEF handlerVars, Promise!Advance, Stage, Slot

\* The abstract state when one connection changes, by that connection alone.
LEMMA OneSlot ==
    ASSUME Core, NEW c \in Conns, \A d \in Conns \ {c} : conn'[d] = conn[d]
    PROVE  /\ SlotMap' = [SlotMap EXCEPT ![c] = Slot(c)']
           /\ CountMap' = [CountMap EXCEPT ![c] = [good |-> conn'[c].speed,
                                                   bad |-> conn'[c].failed]]
BY DEF SlotMap, CountMap, Slot

\* The counts of a connection that has counted nothing.
LEMMA SameCount ==
    ASSUME Core, NEW c \in Conns, \A d \in Conns \ {c} : conn'[d] = conn[d],
           conn'[c].speed = conn[c].speed, conn'[c].failed = conn[c].failed
    PROVE  CountMap' = CountMap
BY DEF CountMap

LEMMA InitConnectionRefines ==
    ASSUME Core, InitConnection
    PROVE  (\E c \in Conns : Promise!Dial(c)) \/ UNCHANGED Promise!clientVars
<1>1. /\ i \in Conns /\ conn[i] = Fresh /\ phase = "init" /\ phase' \in {"init", "start"}
      /\ totals' = totals
  BY CoreTypes DEF InitConnection, LastOr, Core, Bookkeeping, Conns
<1>2. /\ \A d \in Conns \ {i} : conn'[d] = conn[d]
      /\ conn'[i].state \in {"IDLE", "CONNECTING"}
      /\ conn'[i].speed = conn[i].speed /\ conn'[i].failed = conn[i].failed
      /\ conn[i].state = "IDLE"
  BY <1>1, CoreTypes, FirstDialOwned DEF InitConnection, Fresh
<1>3. Stage = "starting" /\ Stage' = "starting" /\ ClosedMap = {} /\ ClosedMap' = {}
  BY <1>1 DEF Stage, ClosedMap
<1>4. CountMap' = CountMap /\ TotalMap' = TotalMap
  BY <1>1, <1>2, SameCount DEF TotalMap
<1>5. CASE conn'[i].state = "IDLE"
  <2>1. SlotMap' = SlotMap
    BY <1>1, <1>2, <1>5 DEF SlotMap, Slot
  <2> QED BY <1>3, <1>4, <2>1 DEF Promise!clientVars, SlotMap, CountMap, ClosedMap, TotalMap
<1>6. CASE conn'[i].state = "CONNECTING"
  <2>1. SlotMap[i] = "free" /\ SlotMap' = [SlotMap EXCEPT ![i] = "busy"]
    BY <1>1, <1>2, <1>6 DEF SlotMap, Slot, Over
  <2>2. Promise!Dial(i)
    BY <1>1, <1>3, <1>4, <2>1 DEF Promise!Dial, SlotMap, CountMap, ClosedMap, TotalMap
  <2> QED BY <1>1, <2>2
<1> QED BY <1>2, <1>5, <1>6

LEMMA RestartRefines ==
    ASSUME Core, SetupRestart
    PROVE  i \in Conns /\ Promise!Redial(i)
<1>1. /\ i \in Conns /\ conn[i].state \in Over /\ phase = "setup"
      /\ phase' \in {"setup", "select"} /\ totals' = totals
  BY CoreTypes DEF SetupRestart, LastOr
<1>2. /\ \A d \in Conns \ {i} : conn'[d] = conn[d]
      /\ conn'[i].state \in {"IDLE", "CONNECTING"}
      /\ conn'[i].speed = conn[i].speed /\ conn'[i].failed = conn[i].failed
  BY <1>1, CoreTypes, RedialledOwned DEF SetupRestart
<1>3. \E s \in {"busy", "free"} : SlotMap' = [SlotMap EXCEPT ![i] = s]
  BY <1>1, <1>2, OneSlot DEF Slot, Over
<1>4. SlotMap[i] = "over"
  BY <1>1 DEF SlotMap, Slot, Over
<1>5. CountMap' = CountMap /\ TotalMap' = TotalMap
  BY <1>1, <1>2, SameCount DEF TotalMap
<1>6. Stage = "running" /\ Stage' = "running" /\ ClosedMap = {} /\ ClosedMap' = {}
  BY <1>1 DEF Stage, ClosedMap
<1> QED BY <1>1, <1>3, <1>4, <1>5, <1>6
        DEF Promise!Redial, SlotMap, CountMap, ClosedMap, TotalMap

LEMMA HandleRefines ==
    ASSUME Core, AttemptsInOrder, TunnelsUncounted, ~(Https /\ NeedProxy),
           NEW c \in Conns, c = i, Handle
    PROVE  Promise!Settle(c) \/ UNCHANGED Promise!clientVars
<1>1. /\ phase = "handle" /\ phase' \in {"loop", "handle"} /\ totals' = totals
  BY HandleOwned DEF Handled, LastOr
<1>2. /\ conn[c].state \in Waiting /\ Forced \in BOOLEAN
      /\ Outcome(conn[c], conn'[c]) /\ \A d \in Conns \ {c} : conn'[d] = conn[d]
  <2>1. ~GivenUp(c)
    BY DEF GivenUp, AttemptsInOrder, TunnelsUncounted
  <2> QED BY <2>1, HandleOwned, WaitsTypes, ConnectionAssumption
<1>3. Stage = "running" /\ Stage' = "running" /\ ClosedMap = {} /\ ClosedMap' = {}
      /\ TotalMap' = TotalMap
  BY <1>1 DEF Stage, ClosedMap, TotalMap
<1>4. SlotMap[c] = "busy"
  BY <1>2 DEF SlotMap, Slot, Waiting, Over
<1>5. CASE conn'[c].state \in Waiting /\ conn'[c].speed = conn[c].speed
           /\ conn'[c].failed = conn[c].failed
  <2>1. SlotMap' = SlotMap
    BY <1>2, <1>5 DEF SlotMap, Slot, Waiting, Over
  <2>2. CountMap' = CountMap
    BY <1>2, <1>5, SameCount
  <2> QED BY <1>2, <1>3, <2>1, <2>2
          DEF Promise!clientVars, SlotMap, CountMap, ClosedMap, TotalMap
<1>6. CASE conn'[c].state \in Over
  <2>1. SlotMap' = [SlotMap EXCEPT ![c] = "over"]
    BY <1>2, <1>6, OneSlot DEF Slot, Over
  <2>2. \/ CountMap' = [CountMap EXCEPT ![c].bad = @ + 1]
        \/ CountMap' = IF Forced THEN CountMap ELSE [CountMap EXCEPT ![c].good = @ + 1]
    <3>1. CASE conn'[c].state = "ERROR" /\ conn'[c].speed = conn[c].speed
               /\ conn'[c].failed = conn[c].failed + 1
      BY <1>2, <3>1 DEF CountMap
    <3>2. CASE conn'[c].state = "COMPLETED" /\ conn'[c].failed = conn[c].failed
               /\ conn'[c].speed = conn[c].speed /\ Forced
      BY <1>2, <3>2, SameCount
    <3>3. CASE conn'[c].state = "COMPLETED" /\ conn'[c].failed = conn[c].failed
               /\ conn'[c].speed = conn[c].speed + 1 /\ ~Forced
      BY <1>2, <3>3 DEF CountMap
    <3> QED BY <1>2, <1>6, <3>1, <3>2, <3>3 DEF Outcome, Over, Waiting
  <2>3. Promise!Settle(c)
    BY <1>2, <1>3, <1>4, <2>1, <2>2
       DEF Promise!Settle, SlotMap, CountMap, ClosedMap, TotalMap
  <2> QED BY <2>3
<1> QED BY <1>2, <1>5, <1>6 DEF Outcome, Waiting, Over

LEMMA ReportRefines ==
    ASSUME Core, ReportConnection
    PROVE  i \in Conns /\ Promise!Close(i)
<1>1. /\ i \in Conns /\ phase = "report" /\ phase' \in {"report", "done"}
      /\ i' = i + 1 /\ i \in Nat
      /\ totals'.speed = totals.speed + conn[i].speed
      /\ totals'.failed = totals.failed + conn[i].failed
      /\ conn[i] \in ConnectionRecord
  BY CoreTypes DEF ReportConnection, LastOr, Added
<1>2. /\ \A d \in Conns \ {i} : conn'[d] = conn[d]
      /\ conn'[i] = Cleaned(conn[i])
  BY ReportedRest
<1>3. /\ conn'[i].state = "IDLE"
      /\ conn'[i].speed = conn[i].speed /\ conn'[i].failed = conn[i].failed
  BY <1>1, <1>2 DEF Cleaned, ConnectionRecord
<1>4. Stage = "closing" /\ Stage' = "closing"
  BY <1>1 DEF Stage
<1>5. SlotMap' = [SlotMap EXCEPT ![i] = "free"]
  BY <1>1, <1>2, <1>3, OneSlot DEF Slot
<1>6. CountMap' = CountMap
  BY <1>1, <1>2, <1>3, SameCount
<1>7. i \notin ClosedMap /\ ClosedMap' = ClosedMap \cup {i}
  BY <1>1 DEF ClosedMap
<1>8. TotalMap' = [good |-> TotalMap.good + CountMap[i].good, bad |-> TotalMap.bad + CountMap[i].bad]
  BY <1>1 DEF TotalMap, CountMap
<1> QED BY <1>1, <1>4, <1>5, <1>6, <1>7, <1>8
        DEF Promise!Close, SlotMap, CountMap, ClosedMap, TotalMap

LEMMA StepRefines ==
    ASSUME ~(Https /\ NeedProxy)
    PROVE  Inductive /\ [Next]_vars => [Promise!ClientsNext]_(Promise!clientVars)
<1> SUFFICES ASSUME Inductive, [Next]_vars
             PROVE  Promise!ClientsNext \/ UNCHANGED Promise!clientVars
  OBVIOUS
<1>0. Core /\ AttemptsInOrder /\ TunnelsUncounted
  BY DEF Inductive
<1>1. CASE InitConnection
  BY <1>0, <1>1, InitConnectionRefines DEF Promise!ClientsNext
<1>2. CASE AllocateFails \/ SetupAborts \/ SslNewCrashes \/ SigPipe
  BY <1>0, <1>2, ExitRefines
     DEF AllocateFails, SetupAborts, SslNewCrashes, SigPipe, Writing, Promise!ClientsNext
<1>3. CASE Start
  BY <1>0, <1>3, AdvanceRefines DEF Start, Promise!ClientsNext
<1>4. CASE LoopHead
  <2>1. CASE phase' = "report"
    BY <1>0, <1>4, <2>1, AdvanceRefines DEF LoopHead, Promise!ClientsNext
  <2>2. CASE phase' = "setup"
    BY <1>0, <1>4, <2>2, RoundStutter DEF LoopHead, handlerVars
  <2> QED BY <1>4, <2>1, <2>2 DEF LoopHead, AfterHead
<1>5. CASE SetupWaiting
  BY <1>0, <1>5, RoundStutter DEF SetupWaiting, LastOr, handlerVars
<1>6. CASE SetupRestart
  BY <1>0, <1>6, RestartRefines DEF Promise!ClientsNext
<1>7. CASE Select
  BY <1>0, <1>7, RoundStutter DEF Select, handlerVars
<1>8. CASE SelectFails
  BY <1>0, <1>8, RoundStutter DEF SelectFails
<1>9. CASE Handle
  <2>1. PICK c \in Conns : c = i
    BY <1>0, <1>9, HandleOwned
  <2>2. Promise!Settle(c) \/ UNCHANGED Promise!clientVars
    BY <1>0, <1>9, <2>1, HandleRefines
  <2> QED BY <2>2 DEF Promise!ClientsNext
<1>10. CASE ReportConnection
  BY <1>0, <1>10, ReportRefines DEF Promise!ClientsNext
<1>11. ASSUME NEW c \in Conns, Network(c)
       PROVE  UNCHANGED Promise!clientVars
  BY <1>0, <1>11, Stutter DEF Network, PeerActs, loopVars, Stage, ClosedMap
<1>12. CASE Tick
  BY <1>0, <1>12, Stutter DEF Tick, loopVars, handlerVars, Stage, ClosedMap
<1>13. CASE UNCHANGED vars
  BY <1>0, <1>13, Stutter DEF vars, loopVars, handlerVars, Stage, ClosedMap
<1> QED
  BY <1>1, <1>2, <1>3, <1>4, <1>5, <1>6, <1>7, <1>8, <1>9, <1>10, <1>11, <1>12, <1>13
     DEF Next, Bench, Terminated

\* Without a tunnel, where no attempt can be given up uncounted, bench_select settles
\* every attempt of a client by exactly one count, and reports every client exactly
\* once unless it aborts.
THEOREM Implementation == ~(Https /\ NeedProxy) => (Spec => ImplementsClients)
<1> SUFFICES ASSUME ~(Https /\ NeedProxy) PROVE Spec => ImplementsClients
  OBVIOUS
<1>1. Init => Promise!ClientsInit
  BY InitRefines
<1>2. Inductive /\ [Next]_vars => [Promise!ClientsNext]_(Promise!clientVars)
  BY StepRefines
<1> QED BY <1>1, <1>2, InductiveInvariant, PTL DEF Spec, ImplementsClients, Promise!ClientsSpec
=============================================================================
