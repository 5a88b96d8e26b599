----------------------------- MODULE Connection -----------------------------
(***************************************************************************)
(* The connection record that the three event-driven benches (bench_select *)
(* bench_poll, bench_epoll) keep for every client, and what one call of    *)
(* their helpers does to it.  Sizes are counted in chunks: the code never  *)
(* compares a size with anything but the lengths below.                    *)
(***************************************************************************)
EXTENDS Integers

CONSTANTS
    Clients,          \* args->clients
    MaxConnections,   \* MAX_CONNECTIONS, in bench_select FD_SETSIZE - 1
    Https,            \* args->protocol == PROTOCOL_HTTPS
    Forced,           \* args->force
    ProxyHost,        \* whether args->proxy_host is a non-empty string
    ProxyPort,        \* args->proxy_port
    TargetHost,       \* whether args->target_host is a non-empty string
    TargetPort,       \* args->target_port
    RequestLen,       \* strlen(http_request->body)
    ConnectLen,       \* strlen of the CONNECT request of a proxied HTTPS run
    BufferSize,       \* RECV_BUFFER_SIZE
    LowestPort,       \* the lowest port create_nonblocking_socket accepts
    HighestProxy      \* the highest port need_connect_proxy accepts

ASSUME ConnectionAssumption ==
    /\ Clients \in Nat \ {0} /\ MaxConnections \in Nat \ {0}
    /\ {Https, Forced, ProxyHost, TargetHost} \subseteq BOOLEAN
    /\ ProxyPort \in Int /\ TargetPort \in Int
    /\ RequestLen \in Nat \ {0} /\ ConnectLen \in Nat \ {0}
    /\ BufferSize \in Nat \ {0, 1}
    /\ LowestPort \in Nat \ {0} /\ HighestProxy \in Nat

NumConnections == IF Clients > MaxConnections THEN MaxConnections ELSE Clients
Conns == 0 .. NumConnections - 1

-----------------------------------------------------------------------------
(* The states of a connection and what the event loop waits for in each.   *)

Waiting == {"CONNECTING", "PROXY_CONNECT", "PROXY_RESPONSE", "TLS_HANDSHAKE",
            "SENDING", "RECEIVING"}
Over == {"COMPLETED", "ERROR"}
ConnectionState == {"IDLE"} \cup Waiting \cup Over

ReadStates == {"RECEIVING", "PROXY_RESPONSE", "TLS_HANDSHAKE"}
WriteStates == {"CONNECTING", "SENDING", "PROXY_CONNECT", "TLS_HANDSHAKE"}

Interest(s) == {b \in {"IN", "OUT"} : \/ b = "IN" /\ s \in ReadStates
                                      \/ b = "OUT" /\ s \in WriteStates}

NoFd == -1
\* conn->ssl: NULL, an SSL object that SSL_set_fd gave no socket, a usable one.
SslState == {"NULL", "nofd", "ready"}

ConnectionRecord ==
    [state : ConnectionState, sockfd : Nat \cup {NoFd}, ssl : SslState,
     bytes_sent : Nat, bytes_received : Nat, speed : Nat, failed : Nat, bytes : Nat]

-----------------------------------------------------------------------------
(* Where a connection goes.                                                *)

ValidPort(p) == p >= LowestPort /\ p <= 65535
NeedProxy == ProxyHost /\ ProxyPort > 0 /\ ValidPort(ProxyPort) /\ ProxyPort <= HighestProxy
\* create_nonblocking_socket gives up before it opens a socket otherwise.
Dialable == NeedProxy \/ (TargetHost /\ ValidPort(TargetPort))
\* send_proxy_connect refuses to build the CONNECT request otherwise.
TunnelRequestable == ProxyHost /\ TargetHost /\ ValidPort(ProxyPort) /\ ValidPort(TargetPort)

-----------------------------------------------------------------------------
(* What the steps of a bench do to one connection record k.                *)

Fresh == [state |-> "IDLE", sockfd |-> NoFd, ssl |-> "NULL", bytes_sent |-> 0,
          bytes_received |-> 0, speed |-> 0, failed |-> 0, bytes |-> 0]

CleanedKeepsFd(k) == [k EXCEPT !.state = "IDLE", !.ssl = "NULL", !.bytes_sent = 0,
                               !.bytes_received = 0]
CleanedKeepsSsl(k) == [k EXCEPT !.state = "IDLE", !.sockfd = NoFd, !.bytes_sent = 0,
                                !.bytes_received = 0]
Cleaned(k) == [k EXCEPT !.state = "IDLE", !.sockfd = NoFd, !.ssl = "NULL",
                        !.bytes_sent = 0, !.bytes_received = 0]

Opened(k, fd) == [k EXCEPT !.state = "CONNECTING", !.sockfd = fd]

FailedUncounted(k) == [k EXCEPT !.state = "ERROR"]
Failed(k) == [k EXCEPT !.state = "ERROR", !.failed = @ + 1]

WithSsl(k, ssl) == [k EXCEPT !.state = "TLS_HANDSHAKE", !.ssl = ssl]

\* n more chunks of the request are sent; in force mode no answer is awaited.
Sent(k, n) ==
    [k EXCEPT !.bytes_sent = @ + n,
              !.state = IF k.bytes_sent + n < RequestLen THEN "SENDING"
                        ELSE IF Forced THEN "COMPLETED" ELSE "RECEIVING"]

\* The room recv, read and SSL_read are given: one byte is kept for the '\0'.
RoomWithoutNul(k) == BufferSize - k.bytes_received
Room(k) == BufferSize - 1 - k.bytes_received

\* n more chunks of the answer, with or without the end of its headers.
Received(k, n) == [k EXCEPT !.bytes_received = @ + n]
Answered(k) == [k EXCEPT !.state = "COMPLETED", !.speed = @ + 1,
                         !.bytes = @ + k.bytes_received]

\* The proxy answered 200: the buffer is reset for the answer of the target.
TunnelOpen(k) == [k EXCEPT !.bytes_received = 0]
=============================================================================
