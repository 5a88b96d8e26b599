------------------------------ MODULE Handlers ------------------------------
(***************************************************************************)
(* The cases of handle_ready_connection that the event-driven benches have *)
(* in common: what one call makes of connection c, of its socket and of    *)
(* the global TLS context.  When the cases run, and in which order, is     *)
(* each bench's own module.                                                *)
(***************************************************************************)
EXTENDS Connection, Sockets, FiniteSetsExt

CONSTANT MaxAttempts  \* bound: after so many dials of a client its peer is silent
ASSUME HandlersAssumption == MaxAttempts \in Nat

VARIABLES
    conn,      \* the connections array
    ctx,       \* whether global_ssl_ctx is set
    errno,     \* whether the thread's errno is EAGAIN or something else
    attempts,  \* history: how often allocate_socket was called for a client
    wire       \* history: CONNECT and request chunks the kernel took for it

socketVars == <<open, ready>>
historyVars == <<attempts, wire>>
handlerVars == <<conn, ctx, errno, attempts, wire, open, ready>>

Errno == {"EAGAIN", "other"}
Totals == [failed : Nat, speed : Nat, bytes : Nat]
NoTotals == [failed |-> 0, speed |-> 0, bytes |-> 0]
Wire == [tunnel : Nat, request : Nat]
NothingSent == [tunnel |-> 0, request |-> 0]

HandlersTypeOK ==
    /\ SocketsTypeOK
    /\ conn \in [Conns -> ConnectionRecord]
    /\ ctx \in BOOLEAN
    /\ errno \in Errno
    /\ attempts \in [Conns -> Nat]
    /\ wire \in [Conns -> Wire]

HandlersInit ==
    /\ SocketsInit
    /\ conn = [c \in Conns |-> Fresh]
    /\ ctx = FALSE
    /\ errno = "other"
    /\ attempts = [c \in Conns |-> 0]
    /\ wire = [c \in Conns |-> NothingSent]

Fd(c) == conn[c].sockfd
Becomes(c, k) == conn' = [conn EXCEPT ![c] = k]

\* errno is followed only where an old value of it is ever looked at: in a tunnel.
SetsErrno(values) == errno' \in IF Https /\ NeedProxy THEN values ELSE {errno}

\* errno after send, recv or read (a success and the end of the stream leave it),
\* and after a call of OpenSSL, which clears it before each of these.
LeavesErrno(n) == SetsErrno(IF n = 0 THEN {"EAGAIN"} ELSE IF n > 0 THEN {errno} ELSE {errno, "other"})
TlsLeavesErrno(n) == SetsErrno({IF n = 0 THEN "EAGAIN" ELSE "other"})

-----------------------------------------------------------------------------
(* init_connection, allocate_socket and cleanup_connection.                 *)

NewAttempt(c) == /\ attempts' = [attempts EXCEPT ![c] = @ + 1]
                 /\ wire' = [wire EXCEPT ![c] = NothingSent]

\* A client gets its first socket or stays IDLE; connect() leaves EINPROGRESS.
FirstDial(c) ==
    /\ \/ /\ Dialable /\ \E fd \in Fds : OpenSocket(fd) /\ Becomes(c, Opened(Fresh, fd))
          /\ SetsErrno({"other"})
       \/ Becomes(c, Fresh) /\ UNCHANGED <<socketVars, errno>>
    /\ NewAttempt(c)
    /\ UNCHANGED ctx

\* cleanup_connection closes the old socket, allocate_socket may get a new one.
Redialled(c) ==
    /\ \/ /\ Dialable /\ \E new \in Fds : /\ ReopenSocket(Fd(c), new)
                                          /\ Becomes(c, Opened(Cleaned(conn[c]), new))
          /\ SetsErrno({"other"})
       \/ CloseSocket(Fd(c)) /\ Becomes(c, Cleaned(conn[c])) /\ SetsErrno({errno, "other"})
    /\ NewAttempt(c)
    /\ UNCHANGED ctx

-----------------------------------------------------------------------------
(* handle_ready_connection, by the state of the connection.                 *)

Dropped(c) == Becomes(c, conn[c]) /\ UNCHANGED <<ctx, errno, ready, wire>>
Erroneous(c) == Becomes(c, Failed(conn[c])) /\ UNCHANGED <<ctx, errno, ready, wire>>

\* setup_ssl_context makes the global context if there is none yet.
SetupSsl(ssl) == /\ ssl \in SslState
                 /\ ctx' \in IF ssl = "NULL" THEN {ctx, TRUE} ELSE {TRUE}

\* getsockopt(SO_ERROR) tells whether the connection was established.
ConnectingSkipsTunnel(c) ==
    /\ IF Broken(Fd(c)) THEN Becomes(c, Failed(conn[c])) /\ UNCHANGED ctx
       ELSE Becomes(c, [conn[c] EXCEPT !.state = "SENDING"]) /\ UNCHANGED ctx
    /\ UNCHANGED <<errno, ready, wire>>
Connecting(c) ==
    /\ IF Broken(Fd(c)) THEN Becomes(c, Failed(conn[c])) /\ UNCHANGED ctx
       ELSE IF ~Https THEN Becomes(c, [conn[c] EXCEPT !.state = "SENDING"]) /\ UNCHANGED ctx
       ELSE IF NeedProxy
            THEN Becomes(c, [conn[c] EXCEPT !.state = "PROXY_CONNECT"]) /\ UNCHANGED ctx
       ELSE \E ssl \in SslState :
               /\ SetupSsl(ssl)
               /\ Becomes(c, IF ssl = "ready" THEN WithSsl(conn[c], ssl)
                             ELSE Failed(WithSsl(conn[c], ssl)))
    /\ UNCHANGED <<errno, ready, wire>>

\* send() of the CONNECT request: n chunks taken, 0 for EAGAIN, -1 for an error.
TunnelChunk(c, n) ==
    /\ wire' = IF n > 0 THEN [wire EXCEPT ![c].tunnel = @ + n] ELSE wire
    /\ IF n = 0 THEN Drain(Fd(c), {"OUT"}) ELSE MayDrain(Fd(c), {"OUT"})
    /\ LeavesErrno(n)
    /\ UNCHANGED ctx

\* recv() in handle_proxy_response: "try again" is told from an error by errno
\* alone, which the end of the stream does not set: a stale EAGAIN means "try again".
TunnelRecv(c, n) ==
    \/ n = 0 /\ Becomes(c, conn[c]) /\ Drain(Fd(c), {"IN"}) /\ errno' = "EAGAIN" /\ UNCHANGED ctx
    \/ /\ n = -1 /\ ~Broken(Fd(c)) /\ errno = "EAGAIN"
       /\ Becomes(c, conn[c]) /\ FindEnd(Fd(c)) /\ UNCHANGED <<ctx, errno>>
    \/ /\ n = -1 /\ (Broken(Fd(c)) \/ ~Ended(Fd(c)) \/ errno # "EAGAIN")
       /\ Becomes(c, Failed(conn[c])) /\ MayDrain(Fd(c), {"IN"}) /\ errno' = "other" /\ UNCHANGED ctx

\* handle_proxy_response: a full buffer without the 200 line is a refusal.
AwaitingTunnel(c) ==
    /\ IF Room(conn[c]) = 0
       THEN Becomes(c, Failed(conn[c])) /\ UNCHANGED <<ready, ctx, errno>>
       ELSE \E n \in RecvResults(Fd(c), Room(conn[c])) :
              \/ TunnelRecv(c, n)
              \/ /\ n > 0 /\ MayDrain(Fd(c), {"IN"})
                 /\ \/ Becomes(c, Received(conn[c], n)) /\ UNCHANGED <<ctx, errno>>
                    \/ \E ssl \in SslState :
                          /\ SetupSsl(ssl) /\ errno' \in {errno, "other"}
                          /\ Becomes(c, WithSsl(TunnelOpen(conn[c]), ssl))
    /\ UNCHANGED wire

\* SSL_connect on an object without a socket fails.
Handshaking(c) ==
    /\ \E n \in IF conn[c].ssl = "nofd" THEN {-1} ELSE SslConnectResults(Fd(c)) :
          /\ Becomes(c, IF n = 1 THEN [conn[c] EXCEPT !.state = "SENDING"]
                        ELSE IF n = 0 THEN conn[c] ELSE Failed(conn[c]))
          /\ IF n = 0 THEN Drain(Fd(c), {"IN"}) \/ Drain(Fd(c), {"OUT"})
             ELSE MayDrain(Fd(c), {"IN"})
          /\ TlsLeavesErrno(n)
    /\ UNCHANGED <<ctx, wire>>

Sending(c) ==
    /\ LET remaining == RequestLen - conn[c].bytes_sent IN
       IF remaining <= 0
       THEN Becomes(c, Sent(conn[c], 0)) /\ UNCHANGED <<errno, ready, wire>>
       ELSE IF Https /\ conn[c].ssl = "NULL"
       THEN Becomes(c, Failed(conn[c])) /\ UNCHANGED <<errno, ready, wire>>
       ELSE \E n \in IF Https THEN SslWriteResults(Fd(c), remaining)
                     ELSE SendResults(Fd(c), remaining) :
              /\ Becomes(c, IF n = -1 THEN Failed(conn[c]) ELSE Sent(conn[c], n))
              /\ wire' = IF n > 0 THEN [wire EXCEPT ![c].request = @ + n] ELSE wire
              /\ IF n = 0 THEN Drain(Fd(c), {"OUT"}) ELSE MayDrain(Fd(c), {"OUT"})
              /\ IF Https THEN TlsLeavesErrno(n) ELSE LeavesErrno(n)
    /\ UNCHANGED ctx

\* A full buffer counts as an answer whether or not its headers have ended.
Receiving(c) ==
    /\ IF Room(conn[c]) = 0
       THEN Becomes(c, Answered(conn[c])) /\ UNCHANGED <<errno, ready>>
       ELSE \E n \in RecvResults(Fd(c), Room(conn[c])) :
              /\ IF n = 0 THEN Drain(Fd(c), {"IN"}) ELSE MayDrain(Fd(c), {"IN"})
              /\ IF Https THEN TlsLeavesErrno(n) ELSE LeavesErrno(n)
              /\ \/ n = -1 /\ Becomes(c, Failed(conn[c]))
                 \/ n >= 0 /\ Becomes(c, Received(conn[c], n))
                 \/ n > 0 /\ Becomes(c, Answered(Received(conn[c], n)))
    /\ UNCHANGED <<ctx, wire>>

\* The peer of c: nothing can be read before the connection is established.
PeerActs(c, bits) ==
    /\ conn[c].state # "IDLE" /\ attempts[c] <= MaxAttempts
    /\ bits = {"IN"} => conn[c].state # "CONNECTING" \/ "OUT" \in ready[Fd(c)]
    /\ Arrival(Fd(c), bits)
    /\ UNCHANGED <<conn, ctx, errno, historyVars, open>>

-----------------------------------------------------------------------------
(* The report, and what every bench owes to its connections.                *)

Added(t, k) == [failed |-> t.failed + k.failed, speed |-> t.speed + k.speed,
                bytes |-> t.bytes + k.bytes]

\* What some of the connections have counted, and all of them.
EarnedBy(S) == [failed |-> SumFunctionOnSet([c \in Conns |-> conn[c].failed], S),
                speed |-> SumFunctionOnSet([c \in Conns |-> conn[c].speed], S),
                bytes |-> SumFunctionOnSet([c \in Conns |-> conn[c].bytes], S)]
Earned == EarnedBy(Conns)

Slot(c) == IF conn[c].state = "IDLE" THEN "free"
           ELSE IF conn[c].state \in Over THEN "over" ELSE "busy"

\* allocate_socket and cleanup_connection: the process's sockets are exactly
\* those of the connections that are not IDLE, and no two connections share one,
\* over any number of restarts on reused descriptors.
DescriptorOwnership ==
    /\ open = {Fd(c) : c \in {d \in Conns : conn[d].state # "IDLE"}}
    /\ \A c \in Conns : conn[c].state = "IDLE" <=> Fd(c) = NoFd
    /\ \A c, d \in Conns : c # d /\ Fd(c) = Fd(d) => Fd(c) = NoFd

\* A connection talks TLS over an object made for its current socket, and only
\* while the global context exists (SSL_read is called with no test for NULL).
TlsLifecycle ==
    \A c \in Conns :
        /\ conn[c].ssl # "NULL" => Https /\ ctx /\ conn[c].state \in Over \cup
                                  {"TLS_HANDSHAKE", "SENDING", "RECEIVING"}
        /\ Https /\ conn[c].state \in {"SENDING", "RECEIVING", "COMPLETED"} =>
              conn[c].ssl = "ready"

\* bytes_sent is what the kernel took of the request in this attempt, also after
\* a CONNECT request used the same counter: an answer is awaited, and a request
\* completed, only when the request went out whole, no byte of it twice.
RequestOnWire ==
    \A c \in Conns :
        /\ conn[c].state = "SENDING" => /\ wire[c].request = conn[c].bytes_sent
                                        /\ conn[c].bytes_sent < RequestLen
        /\ conn[c].state \in {"RECEIVING", "COMPLETED"} => wire[c].request = RequestLen

\* What makes the two properties above inductive: the tunnel and the handshake
\* are steps of an HTTPS run only, and nothing of the request is sent in them.
AttemptsInOrder ==
    /\ TlsLifecycle /\ RequestOnWire
    /\ \A c \in Conns :
          /\ conn[c].state \in {"PROXY_CONNECT", "PROXY_RESPONSE", "TLS_HANDSHAKE"} => Https
          /\ conn[c].state \in {"CONNECTING", "PROXY_RESPONSE", "TLS_HANDSHAKE"} =>
                conn[c].bytes_sent = 0
          /\ conn[c].state \in {"CONNECTING", "PROXY_CONNECT", "PROXY_RESPONSE", "TLS_HANDSHAKE"} =>
                wire[c].request = 0

\* received_response keeps room for its '\0', and the bytes counted are those of
\* answers that each filled between 1 and RECV_BUFFER_SIZE - 1 of it.
AnswersFitBuffer ==
    \A c \in Conns :
        /\ conn[c].bytes_received <= BufferSize - 1
        /\ conn[c].speed <= conn[c].bytes
        /\ conn[c].bytes <= conn[c].speed * (BufferSize - 1)

\* send_proxy_connect says it is done (bench_epoll.c:178, bench_poll.c:246: "The
\* whole request has been sent.") only when all of the CONNECT request went out.
TunnelRequestWhole ==
    \A c \in Conns : conn[c].state = "PROXY_RESPONSE" => wire[c].tunnel = ConnectLen

\* handle_proxy_response waits on for the proxy's answer (bench_epoll.c:248: "Means
\* it is not an acutally error, just re-try next time.") only while one may come:
\* not on a stream that a read has found ended.
TunnelEndSettled ==
    \A c \in Conns : conn[c].state = "PROXY_RESPONSE" => ~Ended(Fd(c))
=============================================================================
