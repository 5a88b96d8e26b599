--------------------------- MODULE HandlersProofs ---------------------------
(***************************************************************************)
(* Lemmas about the connection records and the cases of                    *)
(* handle_ready_connection that the proofs of all event-driven benches     *)
(* rest on.                                                                *)
(***************************************************************************)
EXTENDS Handlers, Sums

USE ConnectionAssumption, FdsAssumption

\* NumConnections is positive, so connection 0 exists.
LEMMA ConnsNonEmpty == NumConnections \in Nat \ {0} /\ 0 \in Conns
BY DEF NumConnections, Conns

LEMMA ConnsFinite == IsFiniteSet(Conns)
<1> DEFINE last == NumConnections - 1
<1>1. 0 \in Int /\ last \in Int
  BY ConnsNonEmpty
<1> HIDE DEF last
<1>2. IsFiniteSet(0 .. last)
  BY <1>1, FS_Interval
<1> QED BY <1>2 DEF Conns, last

\* What the steps of the protocol make of a connection record is a record, and
\* they never touch its socket.
LEMMA RecordOps ==
    ASSUME NEW k \in ConnectionRecord, NEW n \in Nat, NEW ssl \in SslState
    PROVE  /\ Fresh \in ConnectionRecord
           /\ Cleaned(k) \in ConnectionRecord
           /\ \A fd \in Fds : Opened(k, fd) \in ConnectionRecord
           /\ Failed(k) \in ConnectionRecord
           /\ WithSsl(k, ssl) \in ConnectionRecord
           /\ Sent(k, n) \in ConnectionRecord
           /\ Received(k, n) \in ConnectionRecord
           /\ Answered(k) \in ConnectionRecord
           /\ TunnelOpen(k) \in ConnectionRecord
<1> USE DEF ConnectionRecord, ConnectionState, Waiting, Over, SslState, NoFd
<1>a. /\ k.failed + 1 \in Nat /\ k.speed + 1 \in Nat
      /\ k.bytes + k.bytes_received \in Nat
      /\ k.bytes_sent + n \in Nat /\ k.bytes_received + n \in Nat
  OBVIOUS
<1>1. Fresh \in ConnectionRecord
  BY DEF Fresh
<1>2. Cleaned(k) \in ConnectionRecord
  BY DEF Cleaned
<1>3. \A fd \in Fds : Opened(k, fd) \in ConnectionRecord
  BY DEF Opened
<1>4. Failed(k) \in ConnectionRecord
  BY <1>a DEF Failed
<1>5. WithSsl(k, ssl) \in ConnectionRecord
  BY DEF WithSsl
<1>6. Sent(k, n) \in ConnectionRecord
  BY <1>a DEF Sent
<1>7. Received(k, n) \in ConnectionRecord /\ Answered(k) \in ConnectionRecord
  BY <1>a DEF Received, Answered
<1>8. TunnelOpen(k) \in ConnectionRecord
  BY DEF TunnelOpen
<1> QED BY <1>1, <1>2, <1>3, <1>4, <1>5, <1>6, <1>7, <1>8

\* What opening a socket makes of a record.
LEMMA OpenedOps ==
    ASSUME NEW k \in ConnectionRecord, NEW fd \in Fds
    PROVE  /\ Opened(k, fd) \in ConnectionRecord
           /\ Opened(k, fd).state = "CONNECTING" /\ Opened(k, fd).sockfd = fd
<1>1. Opened(k, fd) \in ConnectionRecord
  BY RecordOps DEF SslState
<1> QED BY <1>1 DEF Opened, ConnectionRecord

\* What cleanup_connection makes of a record.
LEMMA CleanedOps ==
    ASSUME NEW k \in ConnectionRecord
    PROVE  /\ Cleaned(k) \in ConnectionRecord
           /\ Cleaned(k).state = "IDLE" /\ Cleaned(k).sockfd = NoFd
           /\ Cleaned(k).failed = k.failed /\ Cleaned(k).speed = k.speed
           /\ Cleaned(k).bytes = k.bytes
<1>1. Cleaned(k) \in ConnectionRecord
  BY RecordOps DEF SslState
<1> QED BY <1>1 DEF Cleaned, ConnectionRecord

\* The record of a connection before its first attempt.
LEMMA FreshOps ==
    /\ Fresh \in ConnectionRecord /\ Fresh.state = "IDLE" /\ Fresh.sockfd = NoFd
<1>1. Fresh \in ConnectionRecord
  BY DEF Fresh, ConnectionRecord, ConnectionState, SslState, NoFd
<1> QED BY <1>1 DEF Fresh

\* A new attempt starts with nothing on the wire.
LEMMA NewAttemptType ==
    ASSUME NEW c \in Conns, NewAttempt(c),
           attempts \in [Conns -> Nat], wire \in [Conns -> Wire]
    PROVE  attempts' \in [Conns -> Nat] /\ wire' \in [Conns -> Wire]
<1>1. NothingSent \in Wire
  BY DEF NothingSent, Wire
<1>2. attempts[c] + 1 \in Nat
  OBVIOUS
<1> QED BY <1>1, <1>2 DEF NewAttempt

-----------------------------------------------------------------------------
(* handle_ready_connection.                                                *)

\* What one event may make of a connection record k: it waits on, or its attempt
\* is settled by exactly one count (none when a forced request is complete).
Outcome(k, m) ==
    /\ m \in ConnectionRecord /\ m.sockfd = k.sockfd
    /\ Forced => m.state # "RECEIVING"
    /\ \/ m.state \in Waiting /\ m.speed = k.speed /\ m.failed = k.failed
       \/ m.state = "ERROR" /\ m.speed = k.speed /\ m.failed = k.failed + 1
       \/ /\ m.state = "COMPLETED" /\ m.failed = k.failed
          /\ m.speed = IF Forced THEN k.speed ELSE k.speed + 1

\* Nothing but the socket of c, the wire of c and the global context is touched.
OnSocketOf(c) == /\ ready' \in [Fds -> SUBSET Conditions]
                 /\ \A fd \in Fds \ {Fd(c)} : ready'[fd] = ready[fd]
OnWireOf(c) == /\ wire' \in [Conns -> Wire]
               /\ \A d \in Conns \ {c} : wire'[d] = wire[d]
KeepsContext == ctx' \in BOOLEAN /\ (ctx => ctx')

Settled(c) ==
    /\ \E k \in ConnectionRecord : Outcome(conn[c], k) /\ Becomes(c, k)
    /\ OnSocketOf(c) /\ OnWireOf(c) /\ KeepsContext
    /\ errno' \in Errno

\* A connection that waits on a socket of the process.
Waits(c) ==
    /\ HandlersTypeOK
    /\ conn[c].state \in Waiting /\ (Forced => conn[c].state # "RECEIVING")
    /\ Fd(c) \in Fds

\* Every way a handler leaves a connection that waited is an outcome.
LEMMA OutcomeOps ==
    ASSUME NEW k \in ConnectionRecord, NEW n \in Nat, NEW ssl \in SslState,
           k.state \in Waiting, Forced => k.state # "RECEIVING"
    PROVE  /\ Outcome(k, k)
           /\ Outcome(k, Failed(k))
           /\ Outcome(k, WithSsl(k, ssl))
           /\ Outcome(k, Failed(WithSsl(k, ssl)))
           /\ Outcome(k, WithSsl(TunnelOpen(k), ssl))
           /\ Outcome(k, Sent(k, n))
           /\ Outcome(k, Received(k, n))
           /\ ~Forced => Outcome(k, Answered(k)) /\ Outcome(k, Answered(Received(k, n)))
           /\ \A s \in {"PROXY_CONNECT", "SENDING"} : Outcome(k, [k EXCEPT !.state = s])
           /\ Outcome(k, [k EXCEPT !.state = "PROXY_RESPONSE", !.bytes_sent = 0])
           /\ Outcome(k, [k EXCEPT !.bytes_sent = n])
<1> USE DEF Outcome, Waiting
<1>1. Outcome(k, k)
  OBVIOUS
<1>2. Outcome(k, Failed(k))
  BY RecordOps DEF Failed, ConnectionRecord
<1>3. /\ Outcome(k, WithSsl(k, ssl))
      /\ WithSsl(k, ssl) \in ConnectionRecord
  BY RecordOps DEF WithSsl, ConnectionRecord
<1>4. Outcome(k, Failed(WithSsl(k, ssl)))
  <2>1. Failed(WithSsl(k, ssl)) \in ConnectionRecord
    BY <1>3, RecordOps
  <2> QED BY <2>1 DEF Failed, WithSsl, ConnectionRecord
<1>5. Outcome(k, WithSsl(TunnelOpen(k), ssl))
  <2>1. WithSsl(TunnelOpen(k), ssl) \in ConnectionRecord
    BY RecordOps
  <2> QED BY <2>1 DEF TunnelOpen, WithSsl, ConnectionRecord
<1>6. Outcome(k, Sent(k, n))
  <2>0. Sent(k, n) \in ConnectionRecord
    BY RecordOps
  <2>1. CASE k.bytes_sent + n < RequestLen
    BY <2>0, <2>1 DEF Sent, ConnectionRecord
  <2>2. CASE ~(k.bytes_sent + n < RequestLen) /\ Forced
    BY <2>0, <2>2 DEF Sent, ConnectionRecord
  <2>3. CASE ~(k.bytes_sent + n < RequestLen) /\ ~Forced
    BY <2>0, <2>3 DEF Sent, ConnectionRecord
  <2> QED BY <2>1, <2>2, <2>3
<1>7. Outcome(k, Received(k, n)) /\ Received(k, n) \in ConnectionRecord
  BY RecordOps DEF Received, ConnectionRecord
<1>8. ASSUME ~Forced PROVE Outcome(k, Answered(k)) /\ Outcome(k, Answered(Received(k, n)))
  <2>1. Answered(k) \in ConnectionRecord /\ Answered(Received(k, n)) \in ConnectionRecord
    BY <1>7, RecordOps
  <2> QED BY <2>1, <1>8 DEF Answered, Received, ConnectionRecord
<1>9. ASSUME NEW s \in {"PROXY_CONNECT", "SENDING"}
      PROVE  Outcome(k, [k EXCEPT !.state = s])
  BY DEF ConnectionRecord, ConnectionState
<1>10. Outcome(k, [k EXCEPT !.state = "PROXY_RESPONSE", !.bytes_sent = 0])
  BY DEF ConnectionRecord, ConnectionState
<1>11. Outcome(k, [k EXCEPT !.bytes_sent = n])
  BY DEF ConnectionRecord
<1> QED BY <1>1, <1>2, <1>3, <1>4, <1>5, <1>6, <1>7, <1>8, <1>9, <1>10, <1>11

\* The kernel's readiness bits stay what they are, whatever a call drains.
LEMMA DrainType ==
    ASSUME ready \in [Fds -> SUBSET Conditions], NEW c \in Conns, Fd(c) \in Fds, NEW b,
           Drain(Fd(c), b) \/ MayDrain(Fd(c), b)
    PROVE  OnSocketOf(c)
BY DEF Drain, MayDrain, OnSocketOf

\* A step that leaves a part alone touches it nowhere.
LEMMA UntouchedParts ==
    ASSUME NEW c \in Conns, HandlersTypeOK
    PROVE  /\ ready' = ready => OnSocketOf(c)
           /\ wire' = wire => OnWireOf(c)
           /\ ctx' = ctx => KeepsContext
BY DEF HandlersTypeOK, SocketsTypeOK, OnSocketOf, OnWireOf, KeepsContext

\* errno stays one of the two values told apart.
LEMMA ErrnoType ==
    ASSUME errno \in Errno, NEW n,
           \/ LeavesErrno(n) \/ TlsLeavesErrno(n) \/ SetsErrno({"other"})
           \/ SetsErrno({errno, "other"}) \/ UNCHANGED errno
    PROVE  errno' \in Errno
BY DEF LeavesErrno, TlsLeavesErrno, SetsErrno, Errno

\* What Waits says of the types of a connection's parts.
LEMMA WaitsTypes ==
    ASSUME NEW c \in Conns, Waits(c)
    PROVE  /\ conn[c] \in ConnectionRecord /\ conn[c].state \in Waiting
           /\ Forced => conn[c].state # "RECEIVING"
           /\ Fd(c) \in Fds /\ wire[c] \in Wire
           /\ ready \in [Fds -> SUBSET Conditions] /\ wire \in [Conns -> Wire] /\ ctx \in BOOLEAN
           /\ errno \in Errno
           /\ conn[c].bytes_sent \in Nat /\ conn[c].bytes_received \in Nat
           /\ UNCHANGED ready => OnSocketOf(c)
           /\ UNCHANGED wire => OnWireOf(c)
           /\ UNCHANGED ctx => KeepsContext
<1>1. conn[c] \in ConnectionRecord
  BY DEF Waits, HandlersTypeOK
<1>2. /\ UNCHANGED ready => OnSocketOf(c)
      /\ UNCHANGED wire => OnWireOf(c)
      /\ UNCHANGED ctx => KeepsContext
  BY UntouchedParts DEF Waits
<1> QED BY <1>1, <1>2 DEF Waits, HandlersTypeOK, SocketsTypeOK, ConnectionRecord

\* Chunks are only added to what the wire carried.
LEMMA WireGrows ==
    ASSUME NEW c \in Conns, Waits(c), NEW n \in Int,
           \/ wire' = IF n > 0 THEN [wire EXCEPT ![c].tunnel = @ + n] ELSE wire
           \/ wire' = IF n > 0 THEN [wire EXCEPT ![c].request = @ + n] ELSE wire
    PROVE  OnWireOf(c)
<1>1. CASE n > 0
  <2>1. wire[c].tunnel + n \in Nat /\ wire[c].request + n \in Nat
    BY <1>1, WaitsTypes DEF Wire
  <2> QED BY <1>1, <2>1, WaitsTypes DEF Wire, OnWireOf
<1>2. CASE ~(n > 0)
  BY <1>2, WaitsTypes
<1> QED BY <1>1, <1>2

\* An outcome is all a case has to show of the connection.
LEMMA SettledBy ==
    ASSUME NEW c \in Conns, NEW k, Outcome(conn[c], k), Becomes(c, k),
           OnSocketOf(c), OnWireOf(c), KeepsContext,
           errno' \in Errno
    PROVE  Settled(c)
BY DEF Settled, Outcome

\* A connection left alone, or failed, is settled.
LEMMA DroppedSettles ==
    ASSUME NEW c \in Conns, Waits(c), Dropped(c) \/ Erroneous(c)
    PROVE  Settled(c)
<1>1. Outcome(conn[c], conn[c]) /\ Outcome(conn[c], Failed(conn[c]))
  BY WaitsTypes, OutcomeOps DEF SslState
<1> QED BY <1>1, WaitsTypes, SettledBy DEF Dropped, Erroneous

LEMMA ConnectingSettles ==
    ASSUME NEW c \in Conns, Waits(c), Connecting(c)
    PROVE  Settled(c)
<1> DEFINE k == conn[c]
<1>1. OnSocketOf(c) /\ OnWireOf(c) /\ errno' \in Errno
  BY WaitsTypes DEF Connecting
<1>2. CASE Becomes(c, Failed(k)) /\ UNCHANGED ctx
  <2>1. Outcome(k, Failed(k))
    BY WaitsTypes, OutcomeOps DEF SslState
  <2> QED BY <1>1, <1>2, <2>1, WaitsTypes, SettledBy
<1>3. ASSUME NEW s \in {"PROXY_CONNECT", "SENDING"},
             Becomes(c, [k EXCEPT !.state = s]), UNCHANGED ctx
      PROVE  Settled(c)
  <2>1. Outcome(k, [k EXCEPT !.state = s])
    BY WaitsTypes, OutcomeOps DEF SslState
  <2> QED BY <1>1, <1>3, <2>1, WaitsTypes, SettledBy
<1>4. ASSUME NEW ssl \in SslState, SetupSsl(ssl),
             Becomes(c, IF ssl = "ready" THEN WithSsl(k, ssl) ELSE Failed(WithSsl(k, ssl)))
      PROVE  Settled(c)
  <2>1. Outcome(k, WithSsl(k, ssl)) /\ Outcome(k, Failed(WithSsl(k, ssl)))
    BY WaitsTypes, OutcomeOps
  <2>2. KeepsContext
    BY <1>4, WaitsTypes DEF SetupSsl, KeepsContext
  <2> QED BY <1>1, <1>4, <2>1, <2>2, SettledBy
<1> QED BY <1>2, <1>3, <1>4 DEF Connecting

\* What recv leaves of the tunnel's connection: an error, or a wait.
LEMMA TunnelRecvSettles ==
    ASSUME NEW c \in Conns, Waits(c), NEW n, TunnelRecv(c, n), OnWireOf(c)
    PROVE  Settled(c)
<1> DEFINE k == conn[c]
<1>1. Outcome(k, k) /\ Outcome(k, Failed(k))
  BY WaitsTypes, OutcomeOps DEF SslState
<1>2. errno' \in Errno /\ KeepsContext
  BY WaitsTypes DEF TunnelRecv, Errno
<1>3. OnSocketOf(c)
  <2>1. CASE FindEnd(Fd(c))
    BY <2>1, WaitsTypes DEF FindEnd, Conditions, Bits, OnSocketOf
  <2>2. CASE Drain(Fd(c), {"IN"}) \/ MayDrain(Fd(c), {"IN"})
    BY <2>2, WaitsTypes, DrainType
  <2> QED BY <2>1, <2>2 DEF TunnelRecv
<1>4. Becomes(c, k) \/ Becomes(c, Failed(k))
  BY DEF TunnelRecv
<1> QED BY <1>1, <1>2, <1>3, <1>4, SettledBy

LEMMA AwaitingTunnelSettles ==
    ASSUME NEW c \in Conns, Waits(c), AwaitingTunnel(c)
    PROVE  Settled(c)
<1> DEFINE k == conn[c]
<1>1. OnWireOf(c)
  BY WaitsTypes DEF AwaitingTunnel
<1>2. CASE Becomes(c, Failed(k)) /\ UNCHANGED <<ready, ctx, errno>>
  <2>1. Outcome(k, Failed(k))
    BY WaitsTypes, OutcomeOps DEF SslState
  <2> QED BY <1>1, <1>2, <2>1, WaitsTypes, SettledBy
<1>3. ASSUME NEW n \in RecvResults(Fd(c), Room(k)), n > 0, MayDrain(Fd(c), {"IN"}),
             \/ Becomes(c, Received(k, n)) /\ UNCHANGED <<ctx, errno>>
             \/ \E ssl \in SslState : /\ SetupSsl(ssl) /\ errno' \in {errno, "other"}
                                     /\ Becomes(c, WithSsl(TunnelOpen(k), ssl))
      PROVE  Settled(c)
  <2>1. OnSocketOf(c)
    BY <1>3, WaitsTypes, DrainType
  <2>2. CASE Becomes(c, Received(k, n)) /\ UNCHANGED <<ctx, errno>>
    <3>1. n \in Nat
      BY <1>3, WaitsTypes DEF RecvResults, Room
    <3>2. Outcome(k, Received(k, n))
      BY <3>1, WaitsTypes, OutcomeOps DEF SslState
    <3> QED BY <1>1, <2>1, <2>2, <3>2, WaitsTypes, SettledBy
  <2>3. ASSUME NEW ssl \in SslState, SetupSsl(ssl), errno' \in {errno, "other"},
               Becomes(c, WithSsl(TunnelOpen(k), ssl))
        PROVE  Settled(c)
    <3>1. Outcome(k, WithSsl(TunnelOpen(k), ssl))
      BY WaitsTypes, OutcomeOps
    <3>2. KeepsContext /\ errno' \in Errno
      BY <2>3, WaitsTypes DEF SetupSsl, KeepsContext, Errno
    <3> QED BY <1>1, <2>1, <2>3, <3>1, <3>2, SettledBy
  <2> QED BY <1>3, <2>2, <2>3
<1> QED BY <1>1, <1>2, <1>3, TunnelRecvSettles DEF AwaitingTunnel

LEMMA HandshakingSettles ==
    ASSUME NEW c \in Conns, Waits(c), Handshaking(c)
    PROVE  Settled(c)
<1> DEFINE k == conn[c]
<1>1. PICK n \in {-1, 0, 1} :
         /\ Becomes(c, IF n = 1 THEN [k EXCEPT !.state = "SENDING"]
                       ELSE IF n = 0 THEN k ELSE Failed(k))
         /\ IF n = 0 THEN Drain(Fd(c), {"IN"}) \/ Drain(Fd(c), {"OUT"})
            ELSE MayDrain(Fd(c), {"IN"})
         /\ TlsLeavesErrno(n)
  BY DEF Handshaking, SslConnectResults
<1>2. /\ OnSocketOf(c) /\ OnWireOf(c)
      /\ KeepsContext /\ errno' \in Errno
  BY <1>1, WaitsTypes, DrainType, ErrnoType DEF Handshaking
<1>3. Outcome(k, k) /\ Outcome(k, Failed(k)) /\ Outcome(k, [k EXCEPT !.state = "SENDING"])
  BY WaitsTypes, OutcomeOps DEF SslState
<1> QED BY <1>1, <1>2, <1>3, SettledBy

LEMMA SendingSettles ==
    ASSUME NEW c \in Conns, Waits(c), Sending(c)
    PROVE  Settled(c)
<1> DEFINE k == conn[c]
           remaining == RequestLen - k.bytes_sent
<1>1. KeepsContext
  BY WaitsTypes DEF Sending
<1>2. CASE (Becomes(c, Failed(k)) \/ Becomes(c, Sent(k, 0))) /\ UNCHANGED <<errno, ready, wire>>
  <2>1. Outcome(k, Failed(k)) /\ Outcome(k, Sent(k, 0))
    BY WaitsTypes, OutcomeOps DEF SslState
  <2> QED BY <1>1, <1>2, <2>1, WaitsTypes, SettledBy
<1>3. ASSUME remaining > 0,
             NEW n \in IF Https THEN SslWriteResults(Fd(c), remaining)
                       ELSE SendResults(Fd(c), remaining),
             Becomes(c, IF n = -1 THEN Failed(k) ELSE Sent(k, n)),
             wire' = IF n > 0 THEN [wire EXCEPT ![c].request = @ + n] ELSE wire,
             IF n = 0 THEN Drain(Fd(c), {"OUT"}) ELSE MayDrain(Fd(c), {"OUT"}),
             IF Https THEN TlsLeavesErrno(n) ELSE LeavesErrno(n)
      PROVE  Settled(c)
  <2>1. n \in Int /\ n >= -1
    BY <1>3, WaitsTypes DEF SendResults, SslWriteResults
  <2>2. OnSocketOf(c) /\ errno' \in Errno
    BY <1>3, WaitsTypes, DrainType, ErrnoType
  <2>3. OnWireOf(c)
    BY <1>3, <2>1, WaitsTypes, WireGrows
  <2>4. CASE n = -1
    <3>1. Outcome(k, Failed(k)) /\ Becomes(c, Failed(k))
      BY <1>3, <2>4, WaitsTypes, OutcomeOps DEF SslState
    <3> QED BY <1>1, <2>2, <2>3, <3>1, SettledBy
  <2>5. CASE n # -1
    <3>1. n \in Nat
      BY <2>1, <2>5
    <3>2. Outcome(k, Sent(k, n)) /\ Becomes(c, Sent(k, n))
      BY <1>3, <2>5, <3>1, WaitsTypes, OutcomeOps DEF SslState
    <3> QED BY <1>1, <2>2, <2>3, <3>2, SettledBy
  <2> QED BY <2>4, <2>5
<1>4. RequestLen - k.bytes_sent \in Int
  BY WaitsTypes
<1> QED BY <1>2, <1>3, <1>4 DEF Sending

LEMMA ReceivingSettles ==
    ASSUME NEW c \in Conns, Waits(c), ~Forced, Receiving(c)
    PROVE  Settled(c)
<1> DEFINE k == conn[c]
<1>1. OnWireOf(c) /\ KeepsContext
  BY WaitsTypes DEF Receiving
<1>2. CASE Becomes(c, Answered(k)) /\ UNCHANGED <<errno, ready>>
  <2>1. Outcome(k, Answered(k))
    BY WaitsTypes, OutcomeOps DEF SslState
  <2> QED BY <1>1, <1>2, <2>1, WaitsTypes, SettledBy
<1>3. ASSUME NEW n \in RecvResults(Fd(c), Room(k)),
             IF n = 0 THEN Drain(Fd(c), {"IN"}) ELSE MayDrain(Fd(c), {"IN"}),
             IF Https THEN TlsLeavesErrno(n) ELSE LeavesErrno(n),
             \/ n = -1 /\ Becomes(c, Failed(k))
             \/ n >= 0 /\ Becomes(c, Received(k, n))
             \/ n > 0 /\ Becomes(c, Answered(Received(k, n)))
      PROVE  Settled(c)
  <2>1. OnSocketOf(c) /\ errno' \in Errno
    BY <1>3, WaitsTypes, DrainType, ErrnoType
  <2>2. n \in Int
    BY WaitsTypes DEF RecvResults, Room
  <2>3. CASE Becomes(c, Failed(k))
    <3>1. Outcome(k, Failed(k))
      BY WaitsTypes, OutcomeOps DEF SslState
    <3> QED BY <1>1, <2>1, <2>3, <3>1, SettledBy
  <2>4. CASE n >= 0 /\ (Becomes(c, Received(k, n)) \/ Becomes(c, Answered(Received(k, n))))
    <3>1. n \in Nat
      BY <2>2, <2>4
    <3>2. Outcome(k, Received(k, n)) /\ Outcome(k, Answered(Received(k, n)))
      BY <3>1, WaitsTypes, OutcomeOps DEF SslState
    <3> QED BY <1>1, <2>1, <2>4, <3>2, SettledBy
  <2>5. n > 0 => n >= 0
    BY <2>2
  <2> QED BY <1>3, <2>3, <2>4, <2>5
<1> QED BY <1>2, <1>3 DEF Receiving

-----------------------------------------------------------------------------
(* AttemptsInOrder, by the parts a handler's case can disturb.              *)

TlsFits(k, context) ==
    /\ k.ssl # "NULL" => Https /\ context /\ k.state \in Over \cup
                              {"TLS_HANDSHAKE", "SENDING", "RECEIVING"}
    /\ Https /\ k.state \in {"SENDING", "RECEIVING", "COMPLETED"} => k.ssl = "ready"
    /\ k.state \in {"PROXY_CONNECT", "PROXY_RESPONSE", "TLS_HANDSHAKE"} => Https

WireFits(k, w) ==
    /\ k.state = "SENDING" => w.request = k.bytes_sent /\ k.bytes_sent < RequestLen
    /\ k.state \in {"RECEIVING", "COMPLETED"} => w.request = RequestLen
    /\ k.state \in {"CONNECTING", "PROXY_RESPONSE", "TLS_HANDSHAKE"} => k.bytes_sent = 0
    /\ k.state \in {"CONNECTING", "PROXY_CONNECT", "PROXY_RESPONSE", "TLS_HANDSHAKE"} =>
          w.request = 0

InOrder(c) == TlsFits(conn[c], ctx) /\ WireFits(conn[c], wire[c])

\* The invariant is that of every connection.
LEMMA AllInOrder ==
    /\ AttemptsInOrder <=> \A c \in Conns : InOrder(c)
    /\ AttemptsInOrder' <=> \A c \in Conns : InOrder(c)'
BY DEF AttemptsInOrder, TlsLifecycle, RequestOnWire, InOrder, TlsFits, WireFits

\* A new attempt, and a connection without one, are in order.
LEMMA FreshInOrder ==
    ASSUME NEW context
    PROVE  /\ TlsFits(Fresh, context) /\ WireFits(Fresh, NothingSent)
           /\ \A fd \in Fds : /\ TlsFits(Opened(Fresh, fd), context)
                              /\ WireFits(Opened(Fresh, fd), NothingSent)
BY DEF Fresh, Opened, TlsFits, WireFits, NothingSent

LEMMA CleanedInOrder ==
    ASSUME NEW k \in ConnectionRecord, NEW context
    PROVE  /\ TlsFits(Cleaned(k), context) /\ \A w : WireFits(Cleaned(k), w)
           /\ \A fd \in Fds : /\ TlsFits(Opened(Cleaned(k), fd), context)
                              /\ WireFits(Opened(Cleaned(k), fd), NothingSent)
<1>1. Cleaned(k) \in ConnectionRecord
  BY CleanedOps
<1>2. Cleaned(k).state = "IDLE" /\ Cleaned(k).ssl = "NULL" /\ Cleaned(k).bytes_sent = 0
  BY DEF Cleaned, ConnectionRecord
<1>3. TlsFits(Cleaned(k), context) /\ \A w : WireFits(Cleaned(k), w)
  BY <1>2 DEF TlsFits, WireFits
<1>4. ASSUME NEW fd \in Fds
      PROVE  /\ TlsFits(Opened(Cleaned(k), fd), context)
             /\ WireFits(Opened(Cleaned(k), fd), NothingSent)
  <2> DEFINE m == Opened(Cleaned(k), fd)
  <2>1. m.state = "CONNECTING" /\ m.ssl = "NULL" /\ m.bytes_sent = 0
    BY <1>1, <1>2 DEF Opened, ConnectionRecord
  <2> QED BY <2>1 DEF TlsFits, WireFits, NothingSent
<1> QED BY <1>3, <1>4

\* A failed attempt stays in order, whatever it was doing.
LEMMA FailedInOrder ==
    ASSUME NEW k \in ConnectionRecord, NEW context,
           k.ssl # "NULL" => Https /\ context
    PROVE  TlsFits(Failed(k), context) /\ \A w : WireFits(Failed(k), w)
<1>1. Failed(k).state = "ERROR" /\ Failed(k).ssl = k.ssl
  BY DEF Failed, ConnectionRecord
<1> QED BY <1>1 DEF TlsFits, WireFits, Over

\* What a case has to show of connection c.
LEMMA InOrderBy ==
    ASSUME NEW c \in Conns, Waits(c), NEW k, Becomes(c, k),
           TlsFits(k, ctx'), WireFits(k, wire'[c])
    PROVE  InOrder(c)'
<1>1. conn'[c] = k
  BY DEF Becomes, Waits, HandlersTypeOK
<1> QED BY <1>1 DEF InOrder, TlsFits, WireFits

\* An attempt that waits on, or fails, where it was.
LEMMA DroppedInOrder ==
    ASSUME NEW c \in Conns, Waits(c), InOrder(c), KeepsContext,
           \/ Becomes(c, conn[c]) /\ UNCHANGED wire
           \/ Becomes(c, Failed(conn[c]))
    PROVE  InOrder(c)'
<1>1. conn[c].ssl # "NULL" => Https /\ ctx'
  BY DEF InOrder, TlsFits, KeepsContext
<1>2. CASE Becomes(c, conn[c]) /\ UNCHANGED wire
  <2>1. TlsFits(conn[c], ctx')
    BY <1>1 DEF InOrder, TlsFits
  <2> QED BY <1>2, <2>1, InOrderBy DEF InOrder
<1>3. CASE Becomes(c, Failed(conn[c]))
  BY <1>1, <1>3, WaitsTypes, FailedInOrder, InOrderBy DEF InOrder
<1> QED BY <1>2, <1>3

LEMMA ConnectingInOrder ==
    ASSUME NEW c \in Conns, Waits(c), InOrder(c), conn[c].state = "CONNECTING", Connecting(c)
    PROVE  InOrder(c)'
<1> DEFINE k == conn[c]
<1>1. /\ wire' = wire /\ k \in ConnectionRecord
      /\ k.ssl = "NULL" /\ k.bytes_sent = 0 /\ wire[c].request = 0
  BY WaitsTypes DEF Connecting, InOrder, TlsFits, WireFits, Over
<1>2. CASE Becomes(c, Failed(k)) /\ UNCHANGED ctx
  BY <1>2, WaitsTypes, DroppedInOrder
<1>3. CASE ~Https /\ Becomes(c, [k EXCEPT !.state = "SENDING"])
  <2> DEFINE m == [k EXCEPT !.state = "SENDING"]
  <2>1. /\ m.state = "SENDING" /\ m.ssl = k.ssl /\ m.bytes_sent = k.bytes_sent
    BY <1>1 DEF ConnectionRecord
  <2>2. TlsFits(m, ctx') /\ WireFits(m, wire'[c])
    BY <1>1, <1>3, <2>1 DEF TlsFits, WireFits
  <2> QED BY <1>3, <2>2, InOrderBy
<1>4. CASE Https /\ Becomes(c, [k EXCEPT !.state = "PROXY_CONNECT"])
  <2> DEFINE m == [k EXCEPT !.state = "PROXY_CONNECT"]
  <2>1. /\ m.state = "PROXY_CONNECT" /\ m.ssl = k.ssl
    BY <1>1 DEF ConnectionRecord
  <2>2. TlsFits(m, ctx') /\ WireFits(m, wire'[c])
    BY <1>1, <1>4, <2>1 DEF TlsFits, WireFits
  <2> QED BY <1>4, <2>2, InOrderBy
<1>5. ASSUME Https, NEW ssl \in SslState, SetupSsl(ssl),
             Becomes(c, IF ssl = "ready" THEN WithSsl(k, ssl) ELSE Failed(WithSsl(k, ssl)))
      PROVE  InOrder(c)'
  <2> DEFINE m == WithSsl(k, ssl)
  <2>1. /\ m \in ConnectionRecord
        /\ m.state = "TLS_HANDSHAKE" /\ m.ssl = ssl /\ m.bytes_sent = k.bytes_sent
    BY <1>1, RecordOps DEF WithSsl, ConnectionRecord
  <2>2. ssl # "NULL" => ctx'
    BY <1>5 DEF SetupSsl
  <2>3. TlsFits(m, ctx') /\ WireFits(m, wire'[c])
    BY <1>1, <1>5, <2>1, <2>2 DEF TlsFits, WireFits
  <2>4. /\ TlsFits(Failed(m), ctx') /\ WireFits(Failed(m), wire'[c])
    BY <1>5, <2>1, <2>2, <2>3, FailedInOrder
  <2> QED BY <1>5, <2>3, <2>4, InOrderBy
<1> QED BY <1>2, <1>3, <1>4, <1>5 DEF Connecting

\* Chunks of the CONNECT request are none of the request's.
LEMMA TunnelChunkWire ==
    ASSUME NEW c \in Conns, Waits(c), NEW n \in Int, TunnelChunk(c, n)
    PROVE  /\ wire'[c].request = wire[c].request
           /\ wire'[c].tunnel = wire[c].tunnel + (IF n > 0 THEN n ELSE 0)
           /\ OnWireOf(c) /\ ctx' = ctx
<1>1. /\ wire \in [Conns -> Wire] /\ wire[c] \in Wire
      /\ wire' = IF n > 0 THEN [wire EXCEPT ![c].tunnel = @ + n] ELSE wire
  BY WaitsTypes DEF TunnelChunk
<1>2. OnWireOf(c)
  BY <1>1, WireGrows
<1>3. wire'[c] = IF n > 0 THEN [wire[c] EXCEPT !.tunnel = @ + n] ELSE wire[c]
  BY <1>1
<1> QED BY <1>1, <1>2, <1>3 DEF Wire, TunnelChunk

\* send_proxy_connect, however the bench counts what it sent.
LEMMA TunnelSentInOrder ==
    ASSUME NEW c \in Conns, Waits(c), InOrder(c), conn[c].state = "PROXY_CONNECT",
           NEW n \in Int, TunnelChunk(c, n), NEW m, Becomes(c, m),
           m.state = "PROXY_CONNECT" \/ (m.state = "PROXY_RESPONSE" /\ m.bytes_sent = 0),
           m.ssl = conn[c].ssl
    PROVE  InOrder(c)'
<1>1. ctx' = ctx /\ wire'[c].request = wire[c].request
  BY TunnelChunkWire
<1>2. TlsFits(m, ctx') /\ WireFits(m, wire'[c])
  BY <1>1 DEF InOrder, TlsFits, WireFits, Over
<1> QED BY <1>2, InOrderBy

\* A receive in the tunnel that finds no answer.
LEMMA TunnelRecvInOrder ==
    ASSUME NEW c \in Conns, Waits(c), InOrder(c), UNCHANGED wire, NEW n, TunnelRecv(c, n)
    PROVE  InOrder(c)'
<1>1. Becomes(c, conn[c]) \/ Becomes(c, Failed(conn[c]))
  BY DEF TunnelRecv
<1>2. KeepsContext
  BY WaitsTypes DEF TunnelRecv
<1> QED BY <1>1, <1>2, DroppedInOrder

LEMMA AwaitingTunnelInOrder ==
    ASSUME NEW c \in Conns, Waits(c), InOrder(c), conn[c].state = "PROXY_RESPONSE",
           AwaitingTunnel(c)
    PROVE  InOrder(c)'
<1> DEFINE k == conn[c]
<1>1. /\ wire' = wire /\ k \in ConnectionRecord
      /\ Https /\ k.bytes_sent = 0 /\ wire[c].request = 0
      /\ k.ssl = "NULL"
  BY WaitsTypes DEF AwaitingTunnel, InOrder, TlsFits, WireFits, Over
<1>2. CASE Becomes(c, Failed(k)) /\ UNCHANGED ctx
  BY <1>2, WaitsTypes, DroppedInOrder
<1>3. ASSUME NEW n, TunnelRecv(c, n) PROVE InOrder(c)'
  BY <1>1, <1>3, TunnelRecvInOrder
<1>4. ASSUME NEW n \in Int, Becomes(c, Received(k, n)), UNCHANGED ctx
      PROVE  InOrder(c)'
  <2> DEFINE m == Received(k, n)
  <2>1. m.state = k.state /\ m.ssl = k.ssl /\ m.bytes_sent = k.bytes_sent
    BY <1>1 DEF Received, ConnectionRecord
  <2>2. TlsFits(m, ctx') /\ WireFits(m, wire'[c])
    BY <1>1, <1>4, <2>1 DEF TlsFits, WireFits, InOrder
  <2> QED BY <1>4, <2>2, InOrderBy
<1>5. ASSUME NEW ssl \in SslState, SetupSsl(ssl), Becomes(c, WithSsl(TunnelOpen(k), ssl))
      PROVE  InOrder(c)'
  <2> DEFINE m == WithSsl(TunnelOpen(k), ssl)
  <2>1. m.state = "TLS_HANDSHAKE" /\ m.ssl = ssl /\ m.bytes_sent = k.bytes_sent
    BY <1>1, RecordOps DEF WithSsl, TunnelOpen, ConnectionRecord
  <2>2. ssl # "NULL" => ctx'
    BY <1>5 DEF SetupSsl
  <2>3. TlsFits(m, ctx') /\ WireFits(m, wire'[c])
    BY <1>1, <2>1, <2>2 DEF TlsFits, WireFits
  <2> QED BY <1>5, <2>3, InOrderBy
<1>6. \A n \in RecvResults(Fd(c), Room(k)) : n \in Int
  BY WaitsTypes DEF RecvResults, Room
<1> QED BY <1>2, <1>3, <1>4, <1>5, <1>6 DEF AwaitingTunnel

LEMMA HandshakingInOrder ==
    ASSUME NEW c \in Conns, Waits(c), InOrder(c), conn[c].state = "TLS_HANDSHAKE",
           conn[c].ssl # "NULL", Handshaking(c)
    PROVE  InOrder(c)'
<1> DEFINE k == conn[c]
<1>1. /\ wire' = wire /\ ctx' = ctx /\ k \in ConnectionRecord
      /\ Https /\ ctx /\ k.bytes_sent = 0 /\ wire[c].request = 0
  BY WaitsTypes DEF Handshaking, InOrder, TlsFits, WireFits, Over
<1>2. CASE Becomes(c, k) \/ Becomes(c, Failed(k))
  BY <1>1, <1>2, WaitsTypes, DroppedInOrder
<1>3. CASE k.ssl # "nofd" /\ Becomes(c, [k EXCEPT !.state = "SENDING"])
  <2> DEFINE m == [k EXCEPT !.state = "SENDING"]
  <2>1. /\ m.state = "SENDING" /\ m.ssl = "ready" /\ m.bytes_sent = k.bytes_sent
    BY <1>1, <1>3 DEF ConnectionRecord, SslState
  <2>2. TlsFits(m, ctx') /\ WireFits(m, wire'[c])
    BY <1>1, <2>1 DEF TlsFits, WireFits
  <2> QED BY <1>3, <2>2, InOrderBy
<1> QED BY <1>2, <1>3 DEF Handshaking

\* A send never exceeds what is left of the request, and the counter follows it.
LEMMA SendingInOrder ==
    ASSUME NEW c \in Conns, Waits(c), InOrder(c), conn[c].state = "SENDING", Sending(c)
    PROVE  InOrder(c)'
<1> DEFINE k == conn[c]
           remaining == RequestLen - k.bytes_sent
<1>1. /\ ctx' = ctx /\ k \in ConnectionRecord /\ wire[c] \in Wire /\ wire \in [Conns -> Wire]
      /\ wire[c].request = k.bytes_sent /\ k.bytes_sent \in Nat
      /\ remaining \in Nat /\ remaining > 0
      /\ k.ssl # "NULL" => Https /\ ctx
      /\ Https => k.ssl = "ready"
  BY WaitsTypes DEF Sending, InOrder, TlsFits, WireFits
<1>2. CASE Becomes(c, Failed(k))
  BY <1>1, <1>2, WaitsTypes, DroppedInOrder
<1>3. ASSUME NEW n \in 0 .. remaining, Becomes(c, Sent(k, n)),
             wire' = IF n > 0 THEN [wire EXCEPT ![c].request = @ + n] ELSE wire
      PROVE  InOrder(c)'
  <2> DEFINE m == Sent(k, n)
  <2>1. wire'[c].request = k.bytes_sent + n
    BY <1>1, <1>3 DEF Wire
  <2>2. /\ m.ssl = k.ssl /\ m.bytes_sent = k.bytes_sent + n
        /\ m.state = IF k.bytes_sent + n < RequestLen THEN "SENDING"
                     ELSE IF Forced THEN "COMPLETED" ELSE "RECEIVING"
    BY <1>1 DEF Sent, ConnectionRecord
  <2>3. WireFits(m, wire'[c])
    <3>1. CASE k.bytes_sent + n < RequestLen
      BY <2>1, <2>2, <3>1 DEF WireFits
    <3>2. CASE ~(k.bytes_sent + n < RequestLen)
      <4>1. k.bytes_sent + n = RequestLen
        BY <1>1, <3>2
      <4> QED BY <2>1, <2>2, <4>1 DEF WireFits
    <3> QED BY <3>1, <3>2
  <2>4. TlsFits(m, ctx')
    BY <1>1, <2>2 DEF TlsFits, Over
  <2> QED BY <1>3, <2>3, <2>4, InOrderBy
<1>4. ASSUME NEW n \in IF Https THEN SslWriteResults(Fd(c), remaining)
                       ELSE SendResults(Fd(c), remaining)
      PROVE  n = -1 \/ n \in 0 .. remaining
  BY <1>1, <1>4 DEF SslWriteResults, SendResults
<1>5. -1 \notin 0 .. remaining
  BY <1>1
<1> QED BY <1>1, <1>2, <1>3, <1>4, <1>5 DEF Sending

LEMMA ReceivingInOrder ==
    ASSUME NEW c \in Conns, Waits(c), InOrder(c), conn[c].state = "RECEIVING", Receiving(c)
    PROVE  InOrder(c)'
<1> DEFINE k == conn[c]
<1>1. /\ ctx' = ctx /\ wire' = wire /\ k \in ConnectionRecord
      /\ wire[c].request = RequestLen
      /\ k.ssl # "NULL" => Https /\ ctx
      /\ Https => k.ssl = "ready"
  BY WaitsTypes DEF Receiving, InOrder, TlsFits, WireFits
<1>2. CASE Becomes(c, Failed(k))
  BY <1>1, <1>2, WaitsTypes, DroppedInOrder
<1>3. ASSUME NEW m, m.ssl = k.ssl, m.state \in {"RECEIVING", "COMPLETED"}, Becomes(c, m)
      PROVE  InOrder(c)'
  <2>1. TlsFits(m, ctx') /\ WireFits(m, wire'[c])
    BY <1>1, <1>3 DEF TlsFits, WireFits, Over
  <2> QED BY <1>3, <2>1, InOrderBy
<1>4. \A n \in Int : /\ Received(k, n).ssl = k.ssl /\ Received(k, n).state = "RECEIVING"
                     /\ Answered(Received(k, n)).ssl = k.ssl
                     /\ Answered(Received(k, n)).state = "COMPLETED"
  BY <1>1 DEF Received, Answered, ConnectionRecord
<1>5. Answered(k).ssl = k.ssl /\ Answered(k).state = "COMPLETED"
  BY <1>1 DEF Answered, ConnectionRecord
<1>6. \A n \in RecvResults(Fd(c), Room(k)) : n \in Int
  BY WaitsTypes DEF RecvResults, Room
<1> QED BY <1>2, <1>3, <1>4, <1>5, <1>6 DEF Receiving

\* Where a connection goes once it is established, or not.
LEMMA ConnectingLeads ==
    ASSUME NEW c \in Conns, Waits(c), Connecting(c)
    PROVE  \/ conn'[c].state \in {"SENDING", "ERROR", "TLS_HANDSHAKE"}
           \/ /\ Https /\ NeedProxy
              /\ conn'[c].state = "PROXY_CONNECT" /\ conn'[c].bytes_sent = conn[c].bytes_sent
<1> DEFINE k == conn[c]
           sending == [k EXCEPT !.state = "SENDING"]
           tunnel == [k EXCEPT !.state = "PROXY_CONNECT"]
<1>1. k \in ConnectionRecord /\ \A m : Becomes(c, m) => conn'[c] = m
  BY DEF Waits, HandlersTypeOK, Becomes
<1>2. /\ sending.state = "SENDING" /\ Failed(k).state = "ERROR"
      /\ tunnel.state = "PROXY_CONNECT" /\ tunnel.bytes_sent = k.bytes_sent
  BY <1>1 DEF Failed, ConnectionRecord
<1>3. ASSUME NEW ssl \in SslState
      PROVE  WithSsl(k, ssl).state = "TLS_HANDSHAKE" /\ Failed(WithSsl(k, ssl)).state = "ERROR"
  <2>1. WithSsl(k, ssl) \in ConnectionRecord
    BY <1>1, RecordOps
  <2> QED BY <1>1, <2>1 DEF Failed, WithSsl, ConnectionRecord
<1>4. \/ Becomes(c, Failed(k)) \/ Becomes(c, sending)
      \/ Https /\ NeedProxy /\ Becomes(c, tunnel)
      \/ \E ssl \in SslState : Becomes(c, WithSsl(k, ssl)) \/ Becomes(c, Failed(WithSsl(k, ssl)))
  BY DEF Connecting
<1> HIDE DEF sending, tunnel
<1> QED BY <1>1, <1>2, <1>3, <1>4

\* Past the tunnel there is no way back to it.
LEMMA PastTunnel ==
    ASSUME NEW c \in Conns, Waits(c), conn[c].state \in {"TLS_HANDSHAKE", "SENDING", "RECEIVING"},
           Handshaking(c) \/ Sending(c) \/ Receiving(c)
    PROVE  conn'[c].state \in Over \cup {"TLS_HANDSHAKE", "SENDING", "RECEIVING"}
<1> DEFINE k == conn[c]
<1>1. k \in ConnectionRecord /\ conn \in [Conns -> ConnectionRecord]
  BY DEF Waits, HandlersTypeOK
<1>2. ASSUME NEW m, Becomes(c, m),
             m.state \in Over \cup {"TLS_HANDSHAKE", "SENDING", "RECEIVING"}
      PROVE  conn'[c].state \in Over \cup {"TLS_HANDSHAKE", "SENDING", "RECEIVING"}
  BY <1>1, <1>2 DEF Becomes
<1>3. Failed(k).state \in Over /\ [k EXCEPT !.state = "SENDING"].state = "SENDING"
  BY <1>1 DEF Failed, Over, ConnectionRecord
<1>4. ASSUME NEW n PROVE Sent(k, n).state \in {"SENDING", "COMPLETED", "RECEIVING"}
  BY <1>1 DEF Sent, ConnectionRecord
<1>5. ASSUME NEW n
      PROVE  /\ Received(k, n).state = k.state
             /\ Answered(k).state = "COMPLETED" /\ Answered(Received(k, n)).state = "COMPLETED"
  BY <1>1 DEF Received, Answered, ConnectionRecord
<1>6. CASE Handshaking(c)
  BY <1>2, <1>3, <1>6 DEF Handshaking
<1>7. CASE Sending(c)
  BY <1>2, <1>3, <1>4, <1>7 DEF Sending, Over
<1>8. CASE Receiving(c)
  BY <1>2, <1>3, <1>5, <1>8 DEF Receiving, Over
<1> QED BY <1>6, <1>7, <1>8

\* A step of one connection disturbs the order of that connection only.
LEMMA OthersInOrder ==
    ASSUME AttemptsInOrder, NEW c \in Conns, InOrder(c)', ctx => ctx',
           \A d \in Conns \ {c} : conn'[d] = conn[d] /\ wire'[d] = wire[d]
    PROVE  AttemptsInOrder'
<1> SUFFICES ASSUME NEW d \in Conns \ {c} PROVE InOrder(d)'
  BY AllInOrder
<1>1. conn'[d] = conn[d] /\ wire'[d] = wire[d] /\ InOrder(d)
  BY AllInOrder
<1> QED BY <1>1 DEF InOrder, TlsFits, WireFits

\* A first attempt, and one after a finished attempt, start in order.
LEMMA FirstDialInOrder ==
    ASSUME HandlersTypeOK, AttemptsInOrder, NEW c \in Conns, FirstDial(c)
    PROVE  AttemptsInOrder'
<1>1. /\ ctx' = ctx /\ wire'[c] = NothingSent
      /\ \A d \in Conns \ {c} : conn'[d] = conn[d] /\ wire'[d] = wire[d]
  BY DEF FirstDial, NewAttempt, Becomes, HandlersTypeOK
<1>2. conn'[c] = Fresh \/ \E fd \in Fds : conn'[c] = Opened(Fresh, fd)
  BY DEF FirstDial, Becomes, HandlersTypeOK
<1>3. InOrder(c)'
  BY <1>1, <1>2, FreshInOrder DEF InOrder, TlsFits, WireFits
<1> QED BY <1>1, <1>3, OthersInOrder

LEMMA RedialledInOrder ==
    ASSUME HandlersTypeOK, AttemptsInOrder, NEW c \in Conns, Redialled(c)
    PROVE  AttemptsInOrder'
<1> DEFINE k == conn[c]
<1>1. /\ ctx' = ctx /\ wire'[c] = NothingSent
      /\ \A d \in Conns \ {c} : conn'[d] = conn[d] /\ wire'[d] = wire[d]
  BY DEF Redialled, NewAttempt, Becomes, HandlersTypeOK
<1>2. k \in ConnectionRecord
  BY DEF HandlersTypeOK
<1>3. conn'[c] = Cleaned(k) \/ \E fd \in Fds : conn'[c] = Opened(Cleaned(k), fd)
  BY DEF Redialled, Becomes, HandlersTypeOK
<1>4. InOrder(c)'
  BY <1>1, <1>2, <1>3, CleanedInOrder DEF InOrder, TlsFits, WireFits
<1> QED BY <1>1, <1>4, OthersInOrder

-----------------------------------------------------------------------------
(* AnswersFitBuffer, by what a step makes of a connection's record.         *)

AnswersFit(k) ==
    /\ k.bytes_received <= BufferSize - 1
    /\ k.speed <= k.bytes
    /\ k.bytes <= k.speed * (BufferSize - 1)

LEMMA AllAnswersFit ==
    /\ AnswersFitBuffer <=> \A c \in Conns : AnswersFit(conn[c])
    /\ AnswersFitBuffer' <=> \A c \in Conns : AnswersFit(conn'[c])
BY DEF AnswersFitBuffer, AnswersFit

LEMMA FreshAnswersFit == AnswersFit(Fresh) /\ \A fd \in Fds : AnswersFit(Opened(Fresh, fd))
<1>1. 0 <= BufferSize - 1 /\ 0 * (BufferSize - 1) = 0
  OBVIOUS
<1> QED BY <1>1 DEF Fresh, Opened, AnswersFit

\* Only what is received fills the buffer, and only an answer is counted.
LEMMA AnswerOps ==
    ASSUME NEW k \in ConnectionRecord, AnswersFit(k), NEW n \in Int, NEW ssl, NEW s
    PROVE  /\ AnswersFit(Cleaned(k)) /\ \A fd : AnswersFit(Opened(Cleaned(k), fd))
           /\ AnswersFit(Failed(k)) /\ AnswersFit(Sent(k, n))
           /\ AnswersFit(WithSsl(k, ssl)) /\ AnswersFit(Failed(WithSsl(k, ssl)))
           /\ AnswersFit(WithSsl(TunnelOpen(k), ssl))
           /\ AnswersFit([k EXCEPT !.state = s]) /\ AnswersFit([k EXCEPT !.bytes_sent = n])
           /\ AnswersFit([k EXCEPT !.state = s, !.bytes_sent = 0])
           /\ n <= Room(k) => AnswersFit(Received(k, n))
           /\ n <= Room(k) /\ n > 0 => AnswersFit(Answered(Received(k, n)))
           /\ Room(k) = 0 => AnswersFit(Answered(k))
<1>1. k.speed \in Nat /\ k.bytes \in Nat /\ k.bytes_received \in Nat /\ 0 <= BufferSize - 1
  BY DEF ConnectionRecord
<1>2. ASSUME NEW m, m.speed = k.speed, m.bytes = k.bytes,
             m.bytes_received \in {k.bytes_received, 0}
      PROVE  AnswersFit(m)
  BY <1>1, <1>2 DEF AnswersFit
<1>3. AnswersFit(Cleaned(k)) /\ \A fd : AnswersFit(Opened(Cleaned(k), fd))
  BY <1>2 DEF Cleaned, Opened, ConnectionRecord
<1>4. AnswersFit(Failed(k)) /\ AnswersFit(Sent(k, n))
  BY <1>2 DEF Failed, Sent, ConnectionRecord
<1>5. AnswersFit(WithSsl(k, ssl)) /\ AnswersFit(Failed(WithSsl(k, ssl)))
  BY <1>2 DEF Failed, WithSsl, ConnectionRecord
<1>6. AnswersFit(WithSsl(TunnelOpen(k), ssl))
  BY <1>2 DEF TunnelOpen, WithSsl, ConnectionRecord
<1>7. /\ AnswersFit([k EXCEPT !.state = s]) /\ AnswersFit([k EXCEPT !.bytes_sent = n])
      /\ AnswersFit([k EXCEPT !.state = s, !.bytes_sent = 0])
  BY <1>2 DEF ConnectionRecord
<1>8. ASSUME NEW m, NEW r \in Int, r <= BufferSize - 1, r > 0, m.bytes_received = r,
             m.speed = k.speed + 1, m.bytes = k.bytes + r
      PROVE  AnswersFit(m)
  <2>1. (k.speed + 1) * (BufferSize - 1) = k.speed * (BufferSize - 1) + (BufferSize - 1)
    BY <1>1
  <2>2. k.speed * (BufferSize - 1) \in Int
    BY <1>1
  <2>3. k.speed <= k.bytes /\ k.bytes <= k.speed * (BufferSize - 1)
    BY DEF AnswersFit
  <2> QED BY <1>1, <1>8, <2>1, <2>2, <2>3 DEF AnswersFit
<1>9. /\ Received(k, n).bytes_received = k.bytes_received + n
      /\ Received(k, n).speed = k.speed /\ Received(k, n).bytes = k.bytes
      /\ Answered(Received(k, n)).bytes_received = k.bytes_received + n
      /\ Answered(Received(k, n)).speed = k.speed + 1
      /\ Answered(Received(k, n)).bytes = k.bytes + (k.bytes_received + n)
      /\ Answered(k).bytes_received = k.bytes_received
      /\ Answered(k).speed = k.speed + 1 /\ Answered(k).bytes = k.bytes + k.bytes_received
  BY DEF Received, Answered, ConnectionRecord
<1>10. n <= Room(k) => AnswersFit(Received(k, n))
  BY <1>1, <1>9 DEF AnswersFit, Room
<1>11. n <= Room(k) /\ n > 0 => AnswersFit(Answered(Received(k, n)))
  BY <1>1, <1>8, <1>9 DEF Room
<1>12. Room(k) = 0 => AnswersFit(Answered(k))
  BY <1>1, <1>8, <1>9 DEF Room
<1> QED BY <1>3, <1>4, <1>5, <1>6, <1>7, <1>10, <1>11, <1>12

\* The cases of handle_ready_connection that all benches share.
LEMMA CasesAnswersFit ==
    ASSUME NEW c \in Conns, Waits(c), AnswersFit(conn[c]),
           \/ Dropped(c) \/ Erroneous(c) \/ Connecting(c) \/ AwaitingTunnel(c)
           \/ Handshaking(c) \/ Sending(c) \/ Receiving(c)
    PROVE  AnswersFit(conn'[c])
<1> DEFINE k == conn[c]
<1>1. k \in ConnectionRecord /\ \A m : Becomes(c, m) => conn'[c] = m
  BY DEF Waits, HandlersTypeOK, Becomes
<1>2. \A n \in RecvResults(Fd(c), Room(k)) : n \in Int /\ n <= Room(k)
  <2>1. Room(k) \in Nat
    BY WaitsTypes DEF Room, AnswersFit
  <2> QED BY <2>1 DEF RecvResults
<1> DEFINE kept(s) == [k EXCEPT !.state = s]
<1>k. AnswersFit(kept("SENDING")) /\ AnswersFit(kept("PROXY_CONNECT"))
  BY <1>1, AnswerOps
<1>3. CASE Dropped(c) \/ Erroneous(c)
  BY <1>1, <1>3, AnswerOps DEF Dropped, Erroneous
<1>4. CASE Connecting(c)
  <2>1. \/ Becomes(c, Failed(k)) \/ Becomes(c, kept("SENDING")) \/ Becomes(c, kept("PROXY_CONNECT"))
        \/ \E ssl \in SslState : Becomes(c, WithSsl(k, ssl)) \/ Becomes(c, Failed(WithSsl(k, ssl)))
    BY <1>4 DEF Connecting
  <2>2. /\ AnswersFit(Failed(k))
        /\ \A ssl \in SslState : AnswersFit(WithSsl(k, ssl)) /\ AnswersFit(Failed(WithSsl(k, ssl)))
    BY <1>1, AnswerOps
  <2> HIDE DEF kept
  <2> QED BY <1>k, <1>1, <2>1, <2>2
<1>5. CASE AwaitingTunnel(c)
  <2>1. \/ Becomes(c, k) \/ Becomes(c, Failed(k))
        \/ \E n \in Int : n <= Room(k) /\ Becomes(c, Received(k, n))
        \/ \E ssl \in SslState : Becomes(c, WithSsl(TunnelOpen(k), ssl))
    BY <1>2, <1>5 DEF AwaitingTunnel, TunnelRecv
  <2>2. /\ AnswersFit(Failed(k)) /\ \A ssl \in SslState : AnswersFit(WithSsl(TunnelOpen(k), ssl))
        /\ \A n \in Int : n <= Room(k) => AnswersFit(Received(k, n))
    BY <1>1, AnswerOps
  <2> QED BY <1>1, <2>1, <2>2
<1>6. CASE Handshaking(c)
  <2>1. Becomes(c, k) \/ Becomes(c, Failed(k)) \/ Becomes(c, kept("SENDING"))
    BY <1>6 DEF Handshaking
  <2>2. AnswersFit(Failed(k))
    BY <1>1, AnswerOps
  <2> HIDE DEF kept
  <2> QED BY <1>k, <1>1, <2>1, <2>2
<1>7. CASE Sending(c)
  <2>1. \A n \in SslWriteResults(Fd(c), RequestLen - k.bytes_sent)
                 \cup SendResults(Fd(c), RequestLen - k.bytes_sent) : n \in Int
    BY WaitsTypes DEF SslWriteResults, SendResults
  <2>2. Becomes(c, Failed(k)) \/ \E n \in Int : Becomes(c, Sent(k, n))
    BY <1>7, <2>1 DEF Sending
  <2> QED BY <1>1, <2>2, AnswerOps
<1>8. CASE Receiving(c)
  <2>1. \/ Becomes(c, Failed(k)) \/ (Room(k) = 0 /\ Becomes(c, Answered(k)))
        \/ \E n \in Int : n <= Room(k) /\ Becomes(c, Received(k, n))
        \/ \E n \in Int : n <= Room(k) /\ n > 0 /\ Becomes(c, Answered(Received(k, n)))
    BY <1>2, <1>8 DEF Receiving
  <2> QED BY <1>1, <2>1, AnswerOps
<1> QED BY <1>3, <1>4, <1>5, <1>6, <1>7, <1>8

\* A step that changes one connection's record, or the dials and the cleanup do.
LEMMA AnswersFitBy ==
    ASSUME AnswersFitBuffer, HandlersTypeOK, NEW c \in Conns,
           \A d \in Conns \ {c} : conn'[d] = conn[d],
           \/ AnswersFit(conn'[c])
           \/ FirstDial(c) \/ Redialled(c) \/ conn'[c] = Cleaned(conn[c])
    PROVE  AnswersFitBuffer'
<1>1. conn[c] \in ConnectionRecord /\ \A m : Becomes(c, m) => conn'[c] = m
  BY DEF HandlersTypeOK, Becomes
<1>2. AnswersFit(conn'[c])
  <2>1. CASE FirstDial(c)
    BY <1>1, <2>1, FreshAnswersFit DEF FirstDial
  <2>2. CASE Redialled(c) \/ conn'[c] = Cleaned(conn[c])
    BY <1>1, <2>2, AllAnswersFit, AnswerOps DEF Redialled
  <2> QED BY <2>1, <2>2
<1> QED BY <1>2, AllAnswersFit

-----------------------------------------------------------------------------
(* Types and descriptor ownership, over the steps every bench has.          *)

Owned == HandlersTypeOK /\ DescriptorOwnership

\* init_connection on an entry that was never used.
LEMMA FirstDialOwned ==
    ASSUME Owned, NEW c \in Conns, conn[c] = Fresh, FirstDial(c)
    PROVE  /\ Owned'
           /\ \A d \in Conns \ {c} : conn'[d] = conn[d]
           /\ conn'[c].state \in {"IDLE", "CONNECTING"} /\ conn'[c].state # "RECEIVING"
           /\ conn' = [conn EXCEPT ![c] = conn'[c]]
           /\ conn'[c].speed = 0 /\ conn'[c].failed = 0
<1>1. conn \in [Conns -> ConnectionRecord]
  BY DEF Owned, HandlersTypeOK
<1>2. PICK k \in ConnectionRecord :
         /\ conn' = [conn EXCEPT ![c] = k]
         /\ \/ k = Fresh /\ UNCHANGED <<open, ready>>
            \/ \E fd \in Fds : OpenSocket(fd) /\ k = Opened(Fresh, fd)
  BY FreshOps, OpenedOps DEF FirstDial, Becomes, socketVars
<1>3. \A d \in Conns : conn'[d] = IF d = c THEN k ELSE conn[d]
  BY <1>1, <1>2
<1>4. /\ k.state \in {"IDLE", "CONNECTING"}
      /\ k.speed = 0 /\ k.failed = 0
  <2>1. Fresh.state = "IDLE" /\ Fresh.speed = 0 /\ Fresh.failed = 0
    BY DEF Fresh
  <2>2. \A fd \in Fds : /\ Opened(Fresh, fd).state = "CONNECTING"
                        /\ Opened(Fresh, fd).speed = 0 /\ Opened(Fresh, fd).failed = 0
    BY DEF Fresh, Opened
  <2> QED BY <1>2, <2>1, <2>2
<1>5. HandlersTypeOK'
  <2>1. conn' \in [Conns -> ConnectionRecord]
    BY <1>1, <1>2
  <2>2. attempts' \in [Conns -> Nat] /\ wire' \in [Conns -> Wire]
    BY NewAttemptType DEF FirstDial, Owned, HandlersTypeOK
  <2>3. errno' \in Errno /\ ctx' \in BOOLEAN
    BY ErrnoType DEF FirstDial, Owned, HandlersTypeOK
  <2>4. open' \subseteq Fds /\ ready' \in [Fds -> SUBSET Conditions]
    BY <1>2 DEF Owned, HandlersTypeOK, SocketsTypeOK, OpenSocket
  <2> QED BY <2>1, <2>2, <2>3, <2>4 DEF HandlersTypeOK, SocketsTypeOK
<1>6. DescriptorOwnership'
  <2>1. conn[c].state = "IDLE" /\ conn[c].sockfd = NoFd
    BY FreshOps
  <2>2. CASE k = Fresh /\ open' = open
    BY <1>3, <2>1, <2>2, FreshOps DEF Owned, DescriptorOwnership, Fd
  <2>3. ASSUME NEW fd \in Fds, OpenSocket(fd), k = Opened(Fresh, fd)
        PROVE  DescriptorOwnership'
    <3>1. open' = open \cup {fd} /\ fd \notin open /\ fd # NoFd
      BY <2>3 DEF OpenSocket, Lowest, NoFd
    <3>2. k.sockfd = fd /\ k.state = "CONNECTING"
      BY <2>3, FreshOps, OpenedOps
    <3>3. \A d \in Conns : conn[d].sockfd # fd
      BY <3>1 DEF Owned, DescriptorOwnership, Fd
    <3> QED BY <1>3, <2>1, <3>1, <3>2, <3>3 DEF Owned, DescriptorOwnership, Fd
  <2> QED BY <1>2, <2>2, <2>3
<1> QED BY <1>2, <1>3, <1>4, <1>5, <1>6 DEF Owned

\* cleanup_connection and allocate_socket on a finished connection.
LEMMA RedialledOwned ==
    ASSUME Owned, NEW c \in Conns, conn[c].state \in Over, Redialled(c)
    PROVE  /\ Owned'
           /\ \A d \in Conns \ {c} : conn'[d] = conn[d]
           /\ conn'[c].state \in {"IDLE", "CONNECTING"} /\ conn'[c].state # "RECEIVING"
           /\ conn'[c].speed = conn[c].speed /\ conn'[c].failed = conn[c].failed
<1> DEFINE old == Fd(c)
<1>1. conn \in [Conns -> ConnectionRecord] /\ conn[c] \in ConnectionRecord
  BY DEF Owned, HandlersTypeOK
<1>2. /\ conn[c].state # "IDLE" /\ old \in open /\ old \in Fds /\ old # NoFd
      /\ \A d \in Conns \ {c} : Fd(d) # old
  BY DEF Owned, DescriptorOwnership, Over, HandlersTypeOK, SocketsTypeOK
<1>3. PICK k \in ConnectionRecord :
         /\ conn' = [conn EXCEPT ![c] = k]
         /\ k.speed = conn[c].speed /\ k.failed = conn[c].failed
         /\ \/ CloseSocket(old) /\ k.state = "IDLE" /\ k.sockfd = NoFd
            \/ \E new \in Fds : /\ ReopenSocket(old, new)
                                /\ k.state = "CONNECTING" /\ k.sockfd = new
  <2>1. /\ Cleaned(conn[c]) \in ConnectionRecord
        /\ Cleaned(conn[c]).state = "IDLE" /\ Cleaned(conn[c]).sockfd = NoFd
    BY <1>1, CleanedOps
  <2>2. Cleaned(conn[c]).speed = conn[c].speed /\ Cleaned(conn[c]).failed = conn[c].failed
    BY <1>1 DEF Cleaned, ConnectionRecord
  <2>3. \A fd \in Fds : /\ Opened(Cleaned(conn[c]), fd) \in ConnectionRecord
                        /\ Opened(Cleaned(conn[c]), fd).state = "CONNECTING"
                        /\ Opened(Cleaned(conn[c]), fd).sockfd = fd
    BY <2>1, OpenedOps
  <2>4. \A fd \in Fds : /\ Opened(Cleaned(conn[c]), fd).speed = Cleaned(conn[c]).speed
                        /\ Opened(Cleaned(conn[c]), fd).failed = Cleaned(conn[c]).failed
    BY <2>1 DEF Opened, ConnectionRecord
  <2> QED BY <2>1, <2>2, <2>3, <2>4 DEF Redialled, Becomes
<1>4. \A d \in Conns : conn'[d] = IF d = c THEN k ELSE conn[d]
  BY <1>1, <1>3
<1>5. HandlersTypeOK'
  <2>1. conn' \in [Conns -> ConnectionRecord]
    BY <1>1, <1>3
  <2>2. attempts' \in [Conns -> Nat] /\ wire' \in [Conns -> Wire]
    BY NewAttemptType DEF Redialled, Owned, HandlersTypeOK
  <2>3. open' \subseteq Fds /\ ready' \in [Fds -> SUBSET Conditions]
    BY <1>3 DEF Owned, HandlersTypeOK, SocketsTypeOK, CloseSocket, ReopenSocket
  <2>4. errno' \in Errno /\ ctx' \in BOOLEAN
    BY ErrnoType DEF Redialled, Owned, HandlersTypeOK
  <2> QED BY <2>1, <2>2, <2>3, <2>4 DEF HandlersTypeOK, SocketsTypeOK
<1>6. DescriptorOwnership'
  <2>1. CASE CloseSocket(old) /\ k.state = "IDLE" /\ k.sockfd = NoFd
    BY <1>2, <1>4, <2>1 DEF Owned, DescriptorOwnership, Fd, CloseSocket
  <2>2. ASSUME NEW new \in Fds, ReopenSocket(old, new), k.state = "CONNECTING", k.sockfd = new
        PROVE  DescriptorOwnership'
    <3>1. open' = (open \ {old}) \cup {new} /\ new # NoFd /\ (new = old \/ new \notin open)
      BY <2>2 DEF ReopenSocket, NoFd
    <3>2. \A d \in Conns \ {c} : conn[d].sockfd # new
      BY <1>2, <3>1 DEF Owned, DescriptorOwnership, Fd
    <3> QED BY <1>2, <1>4, <2>2, <3>1, <3>2 DEF Owned, DescriptorOwnership, Fd
  <2> QED BY <1>3, <2>1, <2>2
<1> QED BY <1>3, <1>4, <1>5, <1>6 DEF Owned

\* handle_ready_connection: whatever a step makes of a connection that is not IDLE,
\* it keeps its socket.
LEMMA MovedOwned ==
    ASSUME Owned, NEW c \in Conns, conn[c].state # "IDLE",
           NEW k \in ConnectionRecord, k.sockfd = conn[c].sockfd, k.state # "IDLE", Becomes(c, k),
           OnSocketOf(c), OnWireOf(c), ctx' \in BOOLEAN, errno' \in Errno,
           UNCHANGED <<attempts, open>>
    PROVE  Owned' /\ conn'[c] = k /\ \A d \in Conns \ {c} : conn'[d] = conn[d]
<1>1. conn \in [Conns -> ConnectionRecord] /\ conn' = [conn EXCEPT ![c] = k]
  BY DEF Owned, HandlersTypeOK, Becomes
<1>2. \A d \in Conns : conn'[d] = IF d = c THEN k ELSE conn[d]
  BY <1>1
<1>3. HandlersTypeOK'
  BY <1>1 DEF OnSocketOf, OnWireOf, Owned, HandlersTypeOK, SocketsTypeOK
<1>4. DescriptorOwnership'
  BY <1>2 DEF Owned, DescriptorOwnership, Fd
<1> QED BY <1>2, <1>3, <1>4 DEF Owned

LEMMA SettledOwned ==
    ASSUME Owned, NEW c \in Conns, conn[c].state \in Waiting, Settled(c),
           UNCHANGED <<attempts, open>>
    PROVE  /\ Owned'
           /\ \A d \in Conns \ {c} : conn'[d] = conn[d]
           /\ Outcome(conn[c], conn'[c])
<1>1. PICK k \in ConnectionRecord : Outcome(conn[c], k) /\ Becomes(c, k)
  BY DEF Settled
<1>2. k.sockfd = conn[c].sockfd /\ k.state # "IDLE" /\ conn[c].state # "IDLE"
  BY <1>1 DEF Outcome, Waiting
<1> QED BY <1>1, <1>2, MovedOwned DEF Settled, KeepsContext

\* The cleanup after the loop: the socket is closed if there is one.
LEMMA ReportedOwned ==
    ASSUME Owned, NEW c \in Conns, Becomes(c, Cleaned(conn[c])),
           IF Fd(c) > 0 THEN CloseSocket(Fd(c)) ELSE UNCHANGED socketVars,
           UNCHANGED <<errno, historyVars>>, ctx' \in BOOLEAN
    PROVE  /\ Owned'
           /\ \A d \in Conns \ {c} : conn'[d] = conn[d]
           /\ conn'[c] = Cleaned(conn[c])
<1>1. conn \in [Conns -> ConnectionRecord] /\ conn[c] \in ConnectionRecord
  BY DEF Owned, HandlersTypeOK
<1>2. /\ Cleaned(conn[c]) \in ConnectionRecord
      /\ Cleaned(conn[c]).state = "IDLE" /\ Cleaned(conn[c]).sockfd = NoFd
  BY <1>1, CleanedOps
<1>3. /\ conn' = [conn EXCEPT ![c] = Cleaned(conn[c])]
      /\ \A d \in Conns : conn'[d] = IF d = c THEN Cleaned(conn[c]) ELSE conn[d]
  BY <1>1 DEF Becomes
<1>4. open' = open \ {Fd(c)} /\ ready' \in [Fds -> SUBSET Conditions]
  <2>1. CASE Fd(c) > 0
    BY <2>1 DEF CloseSocket, Owned, HandlersTypeOK, SocketsTypeOK
  <2>2. CASE ~(Fd(c) > 0)
    <3>1. Fd(c) \notin Fds
      BY <2>2, <1>1 DEF Fd, ConnectionRecord, NoFd
    <3> QED BY <2>2, <3>1 DEF socketVars, Owned, HandlersTypeOK, SocketsTypeOK
  <2> QED BY <2>1, <2>2
<1>5. HandlersTypeOK'
  BY <1>1, <1>2, <1>3, <1>4 DEF historyVars, Owned, HandlersTypeOK, SocketsTypeOK
<1>6. DescriptorOwnership'
  BY <1>2, <1>3, <1>4 DEF Owned, DescriptorOwnership, Fd
<1> QED BY <1>3, <1>5, <1>6 DEF Owned

\* What the peer does touches no connection, and a step of the loop nothing at all.
LEMMA PeerOwned ==
    ASSUME Owned, NEW c \in Conns, NEW bits \in {{"OUT"}, {"IN"}, Bits}, PeerActs(c, bits)
    PROVE  Owned' /\ conn' = conn
<1>1. Fd(c) \in Fds /\ ready' = [ready EXCEPT ![Fd(c)] = @ \cup bits] /\ bits \subseteq Conditions
  BY DEF PeerActs, Arrival, Owned, HandlersTypeOK, SocketsTypeOK, Bits, Conditions
<1>2. ready' \in [Fds -> SUBSET Conditions]
  BY <1>1 DEF Owned, HandlersTypeOK, SocketsTypeOK
<1>3. UNCHANGED <<conn, ctx, errno, attempts, wire, open>>
  BY DEF PeerActs, historyVars
<1> QED BY <1>2, <1>3 DEF Owned, HandlersTypeOK, SocketsTypeOK, DescriptorOwnership, Fd

LEMMA QuietOwned ==
    ASSUME Owned, UNCHANGED handlerVars
    PROVE  Owned' /\ conn' = conn
BY DEF handlerVars, Owned, HandlersTypeOK, SocketsTypeOK, DescriptorOwnership, Fd

\* A connection that waits, in a bench that owns its sockets.
LEMMA OwnedWaits ==
    ASSUME Owned, NEW c \in Conns, conn[c].state \in Waiting,
           Forced => conn[c].state # "RECEIVING"
    PROVE  Waits(c)
BY DEF Owned, DescriptorOwnership, Waits, Waiting, HandlersTypeOK, SocketsTypeOK

\* The report's loop frees the TLS context when no connection has an object left.
LEMMA ReportedInOrder ==
    ASSUME Owned, AttemptsInOrder, NEW c \in Conns, conn'[c] = Cleaned(conn[c]), wire' = wire,
           \A d \in Conns \ {c} : conn'[d] = conn[d],
           ctx' = (ctx /\ c + 1 # NumConnections),
           \A d \in Conns : d < c => conn[d].state = "IDLE"
    PROVE  AttemptsInOrder' /\ \A d \in Conns : d < c + 1 => conn'[d].state = "IDLE"
<1>1. conn[c] \in ConnectionRecord
  BY DEF Owned, HandlersTypeOK
<1>2. /\ \A x : TlsFits(Cleaned(conn[c]), x) /\ WireFits(Cleaned(conn[c]), wire'[c])
      /\ Cleaned(conn[c]).state = "IDLE"
  BY <1>1, AllInOrder, CleanedInOrder, CleanedOps DEF InOrder
<1>3. ASSUME NEW d \in Conns PROVE InOrder(d)'
  <2>1. CASE d = c
    BY <1>2, <2>1 DEF InOrder, TlsFits, WireFits
  <2>2. CASE d # c
    <3>1. InOrder(d) /\ conn'[d] = conn[d] /\ wire'[d] = wire[d]
      BY <2>2, AllInOrder
    <3>2. CASE c + 1 # NumConnections
      BY <3>1, <3>2 DEF InOrder, TlsFits, WireFits
    <3>3. CASE c + 1 = NumConnections
      <4>1. d < c
        BY <2>2, <3>3, ConnsNonEmpty DEF Conns
      <4>2. conn[d].ssl = "NULL"
        BY <3>1, <4>1 DEF InOrder, TlsFits, Over
      <4> QED BY <3>1, <4>2 DEF InOrder, TlsFits, WireFits
    <3> QED BY <3>2, <3>3
  <2> QED BY <2>1, <2>2
<1>4. \A d \in Conns : d < c + 1 <=> d < c \/ d = c
  BY DEF Conns
<1>5. \A d \in Conns : d < c + 1 => conn'[d].state = "IDLE"
  <2> SUFFICES ASSUME NEW d \in Conns, d < c + 1 PROVE conn'[d].state = "IDLE"
    OBVIOUS
  <2>1. CASE d = c
    BY <1>2, <2>1
  <2>2. CASE d # c
    BY <1>4, <2>2
  <2> QED BY <2>1, <2>2
<1> QED BY <1>3, <1>5, AllInOrder

\* A step that changes no connection changes no order.
LEMMA QuietInOrder ==
    ASSUME AttemptsInOrder, UNCHANGED <<conn, ctx, wire>>
    PROVE  AttemptsInOrder'
BY DEF AttemptsInOrder, TlsLifecycle, RequestOnWire
-----------------------------------------------------------------------------
(* The report.                                                              *)

\* Adding up one connection more, which the report also cleans up.
LEMMA EarnedAdds ==
    ASSUME conn \in [Conns -> ConnectionRecord], NEW c \in Conns, conn'[c] = Cleaned(conn[c]),
           \A d \in Conns \ {c} : conn'[d] = conn[d]
    PROVE  EarnedBy({d \in Conns : d < c + 1})' = Added(EarnedBy({d \in Conns : d < c}), conn[c])
<1> DEFINE S == {d \in Conns : d < c}
           T == {d \in Conns : d < c + 1}
           failed == [d \in Conns |-> conn[d].failed]
           speed == [d \in Conns |-> conn[d].speed]
           bytes == [d \in Conns |-> conn[d].bytes]
<1>1. /\ failed' = failed /\ speed' = speed /\ bytes' = bytes
  <2>1. \A d \in Conns : /\ conn'[d].failed = conn[d].failed
                         /\ conn'[d].speed = conn[d].speed /\ conn'[d].bytes = conn[d].bytes
    <3> SUFFICES ASSUME NEW d \in Conns
                 PROVE  /\ conn'[d].failed = conn[d].failed
                        /\ conn'[d].speed = conn[d].speed /\ conn'[d].bytes = conn[d].bytes
      OBVIOUS
    <3>1. conn[c] \in ConnectionRecord
      OBVIOUS
    <3>2. CASE d = c
      BY <3>1, <3>2, CleanedOps
    <3>3. CASE d # c
      BY <3>3
    <3> QED BY <3>2, <3>3
  <2>2. failed' = failed
    BY <2>1
  <2>3. speed' = speed
    BY <2>1
  <2>4. bytes' = bytes
    BY <2>1
  <2> QED BY <2>2, <2>3, <2>4
<1>2. /\ IsFiniteSet(S) /\ c \notin S /\ T = S \cup {c}
  <2>1. IsFiniteSet(S)
    BY ConnsFinite, FS_Subset
  <2> QED BY <2>1 DEF Conns
<1>3. \A y \in T : failed[y] \in Int /\ speed[y] \in Int /\ bytes[y] \in Int
  BY DEF ConnectionRecord
<1>4. failed[c] = conn[c].failed /\ speed[c] = conn[c].speed /\ bytes[c] = conn[c].bytes
  OBVIOUS
<1> HIDE DEF S, T, failed, speed, bytes
<1>5. ASSUME NEW g, \A y \in T : g[y] \in Int
      PROVE  SumFunctionOnSet(g, T) = SumFunctionOnSet(g, S) + g[c]
  <2>1. SumFunctionOnSet(g, S) \in Int /\ g[c] \in Int
    BY <1>2, <1>5, SumType
  <2>2. SumFunctionOnSet(g, T) = g[c] + SumFunctionOnSet(g, S)
    BY <1>2, <1>5, SumOfOneMore
  <2> QED BY <2>1, <2>2
<1>6. /\ SumFunctionOnSet(failed, T) = SumFunctionOnSet(failed, S) + conn[c].failed
      /\ SumFunctionOnSet(speed, T) = SumFunctionOnSet(speed, S) + conn[c].speed
      /\ SumFunctionOnSet(bytes, T) = SumFunctionOnSet(bytes, S) + conn[c].bytes
  BY <1>3, <1>4, <1>5
<1>7. EarnedBy(T)' = [failed |-> SumFunctionOnSet(failed, T), speed |-> SumFunctionOnSet(speed, T),
                      bytes |-> SumFunctionOnSet(bytes, T)]
  BY <1>1 DEF EarnedBy, failed, speed, bytes, T
<1>8. EarnedBy(S) = [failed |-> SumFunctionOnSet(failed, S), speed |-> SumFunctionOnSet(speed, S),
                     bytes |-> SumFunctionOnSet(bytes, S)]
  BY DEF EarnedBy, failed, speed, bytes
<1> QED BY <1>6, <1>7, <1>8 DEF Added, S, T

LEMMA AddedType ==
    ASSUME NEW t \in Totals, NEW k \in ConnectionRecord
    PROVE  Added(t, k) \in Totals
<1>1. k.failed \in Nat /\ k.speed \in Nat /\ k.bytes \in Nat
  BY DEF ConnectionRecord
<1>2. t.failed \in Nat /\ t.speed \in Nat /\ t.bytes \in Nat
  BY DEF Totals
<1> QED BY <1>1, <1>2 DEF Added, Totals

\* The report begins with nothing.
LEMMA EarnedByNobody ==
    /\ EarnedBy({c \in Conns : c < 0}) = NoTotals
    /\ EarnedBy({c \in Conns : c < 0})' = NoTotals
<1>1. {c \in Conns : c < 0} = {}
  BY DEF Conns
<1> QED BY <1>1, SumOfNone DEF EarnedBy, NoTotals
=============================================================================
