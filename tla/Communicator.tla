---------------------------- MODULE Communicator ----------------------------
(***************************************************************************)
(* communicator.c: communicate(), one blocking exchange with the server,   *)
(* as the threads of bench2.c call it.  A step is one blocking call and    *)
(* what follows it.  A blocking send() or SSL_write() takes all or fails,  *)
(* so only what is received is counted, in chunks.                         *)
(***************************************************************************)
EXTENDS Sockets

CONSTANTS
    Clients,     \* args->clients
    Commands,    \* the command lines considered
    Addresses,   \* how many addresses getaddrinfo finds for a host
    BufferSize   \* sizeof(received_buf)

\* https, force mode, a proxy, and whether the threads are those of bench (totals
\* shared under a mutex) or of bench_with_no_racing.
Command == [https : BOOLEAN, forced : BOOLEAN, proxied : BOOLEAN, shared : BOOLEAN]

ASSUME CommunicatorAssumption ==
    /\ Clients \in Nat \ {0} /\ Addresses \in Nat \ {0}
    /\ BufferSize \in Nat \ {0, 1}
    /\ Commands \subseteq Command

Workers == 0 .. Clients - 1

VARIABLES
    args,   \* what of the arguments the exchanges depend on
    pc,     \* worker -> the blocking call it is in
    sock,   \* worker -> sockfd of its exchange
    addr,   \* worker -> which of the addresses it tries
    tls,    \* worker -> whether it holds an SSL_CTX and an SSL object
    got,    \* worker -> total_received
    ret,    \* worker -> what communicate returned last
    refusing \* external: whether socket() fails for every caller now

exchangeVars == <<pc, sock, addr, tls, got, ret, open, ready>>

NoFd == -1
Calls == {"idle", "lookup", "socket", "connect", "tunnel", "tunnel_reply", "context",
          "handshake", "send", "receive", "returned"}

ExchangeTypeOK ==
    /\ SocketsTypeOK
    /\ args \in Command
    /\ pc \in [Workers -> Calls]
    /\ sock \in [Workers -> Fds \cup {NoFd}]
    /\ addr \in [Workers -> 1 .. Addresses]
    /\ tls \in [Workers -> BOOLEAN]
    /\ got \in [Workers -> 0 .. BufferSize - 1]
    /\ ret \in [Workers -> -1 .. BufferSize - 1]

ExchangeInit ==
    /\ SocketsInit
    /\ args \in Commands
    /\ pc = [w \in Workers |-> "idle"]
    /\ sock = [w \in Workers |-> NoFd]
    /\ addr = [w \in Workers |-> 1]
    /\ tls = [w \in Workers |-> FALSE]
    /\ got = [w \in Workers |-> 0]
    /\ ret = [w \in Workers |-> 0]
    /\ refusing = FALSE

Goes(w, call) == pc' = [pc EXCEPT ![w] = call]
Close(w) == IF sock[w] \in open THEN CloseSocket(sock[w]) ELSE UNCHANGED <<open, ready>>

\* Every way out of an exchange closes its socket and frees its TLS objects.
Returns(w, r) ==
    /\ Goes(w, "returned")
    /\ ret' = [ret EXCEPT ![w] = r]
    /\ Close(w)
    /\ sock' = [sock EXCEPT ![w] = NoFd] /\ tls' = [tls EXCEPT ![w] = FALSE]
    /\ got' = [got EXCEPT ![w] = 0] /\ addr' = [addr EXCEPT ![w] = 1]

\* No socket: over HTTPS the -1 is not looked at before SSL_connect.
Unconnected(w) ==
    IF args.https
    THEN /\ Goes(w, "context")
         /\ Close(w) /\ sock' = [sock EXCEPT ![w] = NoFd]
         /\ UNCHANGED <<addr, tls, got, ret>>
    ELSE Returns(w, -1)

-----------------------------------------------------------------------------
(* Socket(): getaddrinfo, then socket and connect for every address.        *)

Call(w) ==
    /\ pc[w] = "idle"
    /\ Goes(w, "lookup")
    /\ UNCHANGED <<sock, addr, tls, got, ret, open, ready>>

Lookup(w) ==
    /\ pc[w] = "lookup"
    /\ \/ /\ Goes(w, "socket")
          /\ UNCHANGED <<sock, addr, tls, got, ret, open, ready>>
       \/ Unconnected(w)

\* External: ENFILE, ENOBUFS, EACCES, a limit that others use up: socket() fails for a
\* cause outside of the exchanges, which may last.
Refuse == refusing' = ~refusing

\* socket() may also find no free descriptor.  As long as it fails, the same address is
\* tried again at once, and neither the next address nor the clock is looked at: steps
\* that change nothing.
GetSocket(w) ==
    /\ pc[w] = "socket" /\ ~refusing
    /\ \E fd \in Fds : OpenSocket(fd) /\ sock' = [sock EXCEPT ![w] = fd]
    /\ Goes(w, "connect")
    /\ UNCHANGED <<addr, tls, got, ret>>

Connect(w) ==
    /\ pc[w] = "connect"
    /\ Goes(w, IF ~args.https THEN "send"
               ELSE IF args.proxied THEN "tunnel" ELSE "context")
    /\ UNCHANGED <<sock, addr, tls, got, ret, open, ready>>

ConnectFailsUnclosed(w) ==
    /\ pc[w] = "connect"
    /\ IF addr[w] = Addresses THEN Unconnected(w)
       ELSE /\ Goes(w, "socket")
            /\ sock' = [sock EXCEPT ![w] = NoFd]
            /\ addr' = [addr EXCEPT ![w] = @ + 1]
            /\ UNCHANGED <<tls, got, ret, open, ready>>
ConnectFails(w) ==
    /\ pc[w] = "connect"
    /\ IF addr[w] = Addresses THEN Unconnected(w)
       ELSE /\ Goes(w, "socket")
            /\ Close(w) /\ sock' = [sock EXCEPT ![w] = NoFd]
            /\ addr' = [addr EXCEPT ![w] = @ + 1]
            /\ UNCHANGED <<tls, got, ret>>

-----------------------------------------------------------------------------
(* handle_proxy_connect, after its Socket().                                *)

SendConnect(w) ==
    /\ pc[w] = "tunnel"
    /\ \/ /\ Goes(w, "tunnel_reply")
          /\ UNCHANGED <<sock, addr, tls, got, ret, open, ready>>
       \/ Unconnected(w)

\* Only an answer that holds the 200 line opens the tunnel.
ProxyAnswers(w) ==
    /\ pc[w] = "tunnel_reply"
    /\ \/ /\ Goes(w, "context")
          /\ UNCHANGED <<sock, addr, tls, got, ret, open, ready>>
       \/ Unconnected(w)

-----------------------------------------------------------------------------
(* communicate_through_http and communicate_through_https.                  *)

MakeContext(w) ==
    /\ pc[w] = "context"
    /\ \/ /\ Goes(w, "handshake") /\ tls' = [tls EXCEPT ![w] = TRUE]
          /\ UNCHANGED <<sock, addr, got, ret, open, ready>>
       \/ Returns(w, -1)

\* SSL_connect fails on an object whose socket is -1.
HandshakeUnchecked(w) ==
    /\ pc[w] = "handshake"
    /\ Goes(w, "send") /\ UNCHANGED <<sock, addr, tls, got, ret, open, ready>>
Handshake(w) ==
    /\ pc[w] = "handshake"
    /\ \/ /\ sock[w] # NoFd
          /\ Goes(w, "send") /\ UNCHANGED <<sock, addr, tls, got, ret, open, ready>>
       \/ Returns(w, -1)

\* send, or send_tls_data; force mode does not wait for the answer.
SendRequest(w) ==
    /\ pc[w] = "send"
    /\ \/ Returns(w, -1)
       \/ args.forced /\ Returns(w, 0)
       \/ /\ ~args.forced
          /\ Goes(w, "receive") /\ UNCHANGED <<sock, addr, tls, got, ret, open, ready>>

\* The recv loop of HTTP ends with the stream, by an error, or with a full buffer,
\* and returns what it has; recv_tls_data ends with the headers or a full buffer,
\* and returns -1 when the stream or the connection ends before.
Fills(w, n) == got[w] + n = BufferSize - 1
Receive(w) ==
    /\ pc[w] = "receive"
    /\ \/ Returns(w, IF args.https THEN -1 ELSE got[w])
       \/ \E n \in 1 .. BufferSize - 1 - got[w] :
             \/ /\ Fills(w, n) \/ args.https
                /\ Returns(w, got[w] + n)
             \/ /\ ~Fills(w, n)
                /\ got' = [got EXCEPT ![w] = @ + n]
                /\ UNCHANGED <<pc, sock, addr, tls, ret, open, ready>>

Exchange(w) == \/ Lookup(w) \/ GetSocket(w) \/ Connect(w) \/ ConnectFails(w)
               \/ SendConnect(w) \/ ProxyAnswers(w)
               \/ MakeContext(w) \/ Handshake(w) \/ SendRequest(w) \/ Receive(w)

\* No timeout ends these calls: what returns from them is up to the peer.
AwaitsPeer(w) == \/ pc[w] \in {"tunnel_reply", "receive"}
                 \/ pc[w] = "handshake" /\ sock[w] # NoFd

\* SSL_set_fd of the NULL that SSL_new returned, or SIGPIPE by a write to a
\* connection the peer has reset (SSL_shutdown writes too): neither is caught.
Fatal(w) == \/ pc[w] \in {"context", "tunnel", "send"}
            \/ pc[w] \in {"handshake", "receive"} /\ args.https /\ sock[w] # NoFd

-----------------------------------------------------------------------------

\* Whatever the threads' exchanges run into, the sockets of the process are
\* exactly those of the exchanges under way, one thread each: nothing leaks, and
\* no thread closes a descriptor that is already another one's.
SocketsOwned ==
    /\ open = {sock[w] : w \in {v \in Workers : sock[v] # NoFd}}
    /\ \A v, w \in Workers : v # w /\ sock[v] = sock[w] => sock[v] = NoFd
    /\ \A w \in Workers : sock[w] # NoFd =>
          pc[w] \in Calls \ {"idle", "lookup", "socket", "returned"}

\* communicate_through_https looks at no socket before SSL_connect: still, a request
\* goes out and an answer is awaited only on a socket, over TLS if it is asked for.
SendsConnected ==
    \A w \in Workers : pc[w] \in {"send", "receive"} => sock[w] \in open /\ tls[w] = args.https

\* What an exchange holds at each of its calls: a socket from connect until it is
\* closed, TLS objects from context to the end, both when it sends.
CallsOrdered ==
    \A w \in Workers :
        /\ pc[w] \in {"connect", "tunnel", "tunnel_reply", "send", "receive"} => sock[w] # NoFd
        /\ pc[w] \in {"tunnel", "tunnel_reply", "context", "handshake"} => args.https
        /\ pc[w] \notin {"handshake", "send", "receive"} => ~tls[w]
        /\ pc[w] = "handshake" => tls[w]
        /\ pc[w] \in {"send", "receive"} => tls[w] = args.https
=============================================================================
