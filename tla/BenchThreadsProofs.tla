------------------------- MODULE BenchThreadsProofs -------------------------
(***************************************************************************)
(* Theorems about the threaded benches for every number of threads, every  *)
(* set of command lines and of descriptors: who holds which socket, that   *)
(* the mutex loses no addition, and what the report is.                    *)
(***************************************************************************)
EXTENDS BenchThreads, Sums

USE CommunicatorAssumption, FdsAssumption

LEMMA WorkersFacts ==
    /\ IsFiniteSet(Workers) /\ 0 \in Workers
    /\ \A w : w \in Workers <=> w \in Nat /\ w < Clients
    /\ \A w \in Workers : w + 1 # Clients => w + 1 \in Workers
    /\ -1 \notin Workers
BY FS_Interval DEF Workers

-----------------------------------------------------------------------------
(* communicate(): sockets and calls.                                        *)

ExchangeOK == ExchangeTypeOK /\ SocketsOwned /\ CallsOrdered

\* SocketsOwned without the set that it is written with.
Sole == /\ \A fd \in open : \E v \in Workers : sock[v] = fd
        /\ \A v \in Workers : sock[v] # NoFd => sock[v] \in open
        /\ \A v, w \in Workers : v # w /\ sock[v] = sock[w] => sock[v] = NoFd
Placed == \A w \in Workers : sock[w] # NoFd =>
             pc[w] \in Calls \ {"idle", "lookup", "socket", "returned"}

LEMMA NoFdIsNone == NoFd \notin Fds
BY DEF NoFd

\* The same of any state.
LEMMA HeldByAll ==
    ASSUME NEW held, NEW S \in SUBSET Fds
    PROVE  S = {held[w] : w \in {v \in Workers : held[v] # NoFd}} <=>
              /\ \A fd \in S : \E v \in Workers : held[v] = fd
              /\ \A v \in Workers : held[v] # NoFd => held[v] \in S
<1>1. ASSUME S = {held[w] : w \in {v \in Workers : held[v] # NoFd}}
      PROVE  /\ \A fd \in S : \E v \in Workers : held[v] = fd
             /\ \A v \in Workers : held[v] # NoFd => held[v] \in S
  BY <1>1
<1>2. ASSUME \A fd \in S : \E v \in Workers : held[v] = fd,
             \A v \in Workers : held[v] # NoFd => held[v] \in S
      PROVE  S = {held[w] : w \in {v \in Workers : held[v] # NoFd}}
  <2>1. \A fd \in S : fd \in {held[w] : w \in {v \in Workers : held[v] # NoFd}}
    BY <1>2, NoFdIsNone
  <2>2. \A fd \in {held[w] : w \in {v \in Workers : held[v] # NoFd}} : fd \in S
    BY <1>2
  <2> QED BY <2>1, <2>2
<1> QED BY <1>1, <1>2

LEMMA OwnedIsSole ==
    ASSUME SocketsTypeOK
    PROVE  SocketsOwned <=> Sole /\ Placed
<1>1. open \in SUBSET Fds
  BY DEF SocketsTypeOK
<1>2. open = {sock[w] : w \in {v \in Workers : sock[v] # NoFd}} <=>
         /\ \A fd \in open : \E v \in Workers : sock[v] = fd
         /\ \A v \in Workers : sock[v] # NoFd => sock[v] \in open
  BY <1>1, HeldByAll
<1> QED BY <1>2 DEF SocketsOwned, Sole, Placed

LEMMA OwnedIsSoleNext ==
    ASSUME SocketsTypeOK'
    PROVE  SocketsOwned' <=> Sole' /\ Placed'
<1>1. open' \in SUBSET Fds
  BY DEF SocketsTypeOK
<1>2. open' = {sock'[w] : w \in {v \in Workers : sock'[v] # NoFd}} <=>
         /\ \A fd \in open' : \E v \in Workers : sock'[v] = fd
         /\ \A v \in Workers : sock'[v] # NoFd => sock'[v] \in open'
  BY <1>1, HeldByAll
<1> QED BY <1>2 DEF SocketsOwned, Sole, Placed

\* close() of a worker's socket, if it has one, leaves the others' open.
LEMMA ClosedKeeps ==
    ASSUME ExchangeOK, NEW w \in Workers, Close(w), sock' = [sock EXCEPT ![w] = NoFd]
    PROVE  /\ SocketsTypeOK' /\ Sole' /\ sock' \in [Workers -> Fds \cup {NoFd}]
           /\ sock'[w] = NoFd /\ \A v \in Workers \ {w} : sock'[v] = sock[v]
<1>1. SocketsTypeOK /\ sock \in [Workers -> Fds \cup {NoFd}] /\ Sole
  BY OwnedIsSole DEF ExchangeOK, ExchangeTypeOK
<1>2. /\ sock' \in [Workers -> Fds \cup {NoFd}]
      /\ sock'[w] = NoFd /\ \A v \in Workers \ {w} : sock'[v] = sock[v]
  BY <1>1
<1>3. CASE sock[w] \in open
  <2>1. open' = open \ {sock[w]} /\ ready' = [f \in Fds |-> IF f = sock[w] THEN {} ELSE ready[f]]
    BY <1>3 DEF Close, CloseSocket
  <2>2. SocketsTypeOK'
    BY <1>1, <2>1 DEF SocketsTypeOK
  <2>3. sock[w] # NoFd
    BY <1>1, <1>3, NoFdIsNone DEF SocketsTypeOK
  <2>4. Sole'
    BY <1>1, <1>2, <2>1, <2>3 DEF Sole
  <2> QED BY <1>2, <2>2, <2>4
<1>4. CASE sock[w] \notin open
  <2>1. open' = open /\ ready' = ready /\ sock[w] = NoFd
    BY <1>1, <1>4 DEF Close, Sole
  <2>2. sock' = sock
    BY <1>1, <2>1
  <2>3. SocketsTypeOK' /\ Sole'
    BY <1>1, <2>1, <2>2 DEF SocketsTypeOK, Sole
  <2> QED BY <1>2, <2>3
<1> QED BY <1>3, <1>4

\* A step of one worker's exchange leaves the others' calls ordered.
LEMMA OneMoves ==
    ASSUME ExchangeOK, args' = args, NEW w \in Workers, NEW call \in Calls, Goes(w, call),
           SocketsTypeOK', Sole', sock' \in [Workers -> Fds \cup {NoFd}],
           \A v \in Workers \ {w} : sock'[v] = sock[v] /\ tls'[v] = tls[v],
           addr' \in [Workers -> 1 .. Addresses], tls' \in [Workers -> BOOLEAN],
           got' \in [Workers -> 0 .. BufferSize - 1], ret' \in [Workers -> -1 .. BufferSize - 1],
           sock'[w] # NoFd => call \in Calls \ {"idle", "lookup", "socket", "returned"},
           call \in {"connect", "tunnel", "tunnel_reply", "send", "receive"} => sock'[w] # NoFd,
           call \in {"tunnel", "tunnel_reply", "context", "handshake"} => args.https,
           call \notin {"handshake", "send", "receive"} => ~tls'[w],
           call = "handshake" => tls'[w],
           call \in {"send", "receive"} => tls'[w] = args.https
    PROVE  ExchangeOK'
<1>1. pc \in [Workers -> Calls] /\ args \in Command /\ Placed
  BY OwnedIsSole DEF ExchangeOK, ExchangeTypeOK
<1>2. /\ pc' \in [Workers -> Calls] /\ pc'[w] = call
      /\ \A v \in Workers \ {w} : pc'[v] = pc[v]
  BY <1>1 DEF Goes
<1>3. ExchangeTypeOK'
  BY <1>1, <1>2 DEF ExchangeTypeOK
<1>4. Placed'
  BY <1>1, <1>2 DEF Placed
<1>5. CallsOrdered'
  <2> SUFFICES ASSUME NEW v \in Workers
               PROVE  /\ pc'[v] \in {"connect", "tunnel", "tunnel_reply", "send", "receive"} => sock'[v] # NoFd
                      /\ pc'[v] \in {"tunnel", "tunnel_reply", "context", "handshake"} => args'.https
                      /\ pc'[v] \notin {"handshake", "send", "receive"} => ~tls'[v]
                      /\ pc'[v] = "handshake" => tls'[v]
                      /\ pc'[v] \in {"send", "receive"} => tls'[v] = args'.https
    BY DEF CallsOrdered
  <2>1. CASE v = w
    BY <1>2, <2>1
  <2>2. CASE v # w
    BY <1>2, <2>2 DEF ExchangeOK, CallsOrdered
  <2> QED BY <2>1, <2>2
<1> QED BY <1>3, <1>4, <1>5, OwnedIsSoleNext DEF ExchangeOK

\* A call after which the exchange holds what it held.
LEMMA CallMoves ==
    ASSUME ExchangeOK, args' = args, NEW w \in Workers, NEW call \in Calls, Goes(w, call),
           UNCHANGED <<sock, addr, tls, got, ret, open, ready>>,
           sock[w] # NoFd => call \in Calls \ {"idle", "lookup", "socket", "returned"},
           call \in {"connect", "tunnel", "tunnel_reply", "send", "receive"} => sock[w] # NoFd,
           call \in {"tunnel", "tunnel_reply", "context", "handshake"} => args.https,
           call \notin {"handshake", "send", "receive"} => ~tls[w],
           call = "handshake" => tls[w],
           call \in {"send", "receive"} => tls[w] = args.https
    PROVE  ExchangeOK'
<1>1. /\ SocketsTypeOK /\ Sole /\ sock \in [Workers -> Fds \cup {NoFd}]
      /\ addr \in [Workers -> 1 .. Addresses] /\ tls \in [Workers -> BOOLEAN]
      /\ got \in [Workers -> 0 .. BufferSize - 1] /\ ret \in [Workers -> -1 .. BufferSize - 1]
  BY OwnedIsSole DEF ExchangeOK, ExchangeTypeOK
<1>2. SocketsTypeOK' /\ Sole'
  BY <1>1 DEF SocketsTypeOK, Sole
<1> QED BY <1>1, <1>2, OneMoves

\* Every way out of an exchange closes its socket, once.
LEMMA ReturnsKeeps ==
    ASSUME ExchangeOK, args' = args, NEW w \in Workers, NEW r \in -1 .. BufferSize - 1,
           Returns(w, r)
    PROVE  ExchangeOK'
<1>1. /\ addr \in [Workers -> 1 .. Addresses] /\ tls \in [Workers -> BOOLEAN]
      /\ got \in [Workers -> 0 .. BufferSize - 1] /\ ret \in [Workers -> -1 .. BufferSize - 1]
  BY DEF ExchangeOK, ExchangeTypeOK
<1>2. /\ Goes(w, "returned") /\ ret' = [ret EXCEPT ![w] = r] /\ Close(w)
      /\ sock' = [sock EXCEPT ![w] = NoFd] /\ tls' = [tls EXCEPT ![w] = FALSE]
      /\ got' = [got EXCEPT ![w] = 0] /\ addr' = [addr EXCEPT ![w] = 1]
  BY DEF Returns
<1>3. /\ SocketsTypeOK' /\ Sole' /\ sock' \in [Workers -> Fds \cup {NoFd}]
      /\ sock'[w] = NoFd /\ \A v \in Workers \ {w} : sock'[v] = sock[v]
  BY <1>2, ClosedKeeps
<1>4. /\ addr' \in [Workers -> 1 .. Addresses] /\ tls' \in [Workers -> BOOLEAN]
      /\ got' \in [Workers -> 0 .. BufferSize - 1] /\ ret' \in [Workers -> -1 .. BufferSize - 1]
      /\ ~tls'[w] /\ \A v \in Workers \ {w} : tls'[v] = tls[v]
  BY <1>1, <1>2
<1>5. "returned" \in Calls
  BY DEF Calls
<1> QED BY <1>2, <1>3, <1>4, <1>5, OneMoves

\* Without a socket, HTTPS goes on to its TLS context, and HTTP returns.
LEMMA UnconnectedKeeps ==
    ASSUME ExchangeOK, args' = args, NEW w \in Workers, Unconnected(w),
           pc[w] \in {"lookup", "connect", "tunnel", "tunnel_reply"}
    PROVE  ExchangeOK'
<1>1. CASE args.https
  <2>1. /\ Goes(w, "context") /\ Close(w) /\ sock' = [sock EXCEPT ![w] = NoFd]
        /\ addr' = addr /\ tls' = tls /\ got' = got /\ ret' = ret
    BY <1>1 DEF Unconnected
  <2>2. /\ addr \in [Workers -> 1 .. Addresses] /\ tls \in [Workers -> BOOLEAN]
        /\ got \in [Workers -> 0 .. BufferSize - 1] /\ ret \in [Workers -> -1 .. BufferSize - 1]
        /\ ~tls[w]
    BY DEF ExchangeOK, ExchangeTypeOK, CallsOrdered
  <2>3. /\ SocketsTypeOK' /\ Sole' /\ sock' \in [Workers -> Fds \cup {NoFd}]
        /\ sock'[w] = NoFd /\ \A v \in Workers \ {w} : sock'[v] = sock[v]
    BY <2>1, ClosedKeeps
  <2>4. "context" \in Calls
    BY DEF Calls
  <2> QED BY <1>1, <2>1, <2>2, <2>3, <2>4, OneMoves
<1>2. CASE ~args.https
  <2>1. Returns(w, -1)
    BY <1>2 DEF Unconnected
  <2> QED BY <2>1, ReturnsKeeps
<1> QED BY <1>1, <1>2

\* A new socket is nobody else's.
LEMMA GetSocketKeeps ==
    ASSUME ExchangeOK, args' = args, NEW w \in Workers, GetSocket(w)
    PROVE  ExchangeOK'
<1>1. /\ pc[w] = "socket" /\ Goes(w, "connect") /\ addr' = addr /\ tls' = tls
      /\ got' = got /\ ret' = ret
  BY DEF GetSocket
<1>2. PICK fd \in Fds : OpenSocket(fd) /\ sock' = [sock EXCEPT ![w] = fd]
  BY DEF GetSocket
<1>3. /\ SocketsTypeOK /\ Sole /\ Placed /\ sock \in [Workers -> Fds \cup {NoFd}]
      /\ addr \in [Workers -> 1 .. Addresses] /\ tls \in [Workers -> BOOLEAN]
      /\ got \in [Workers -> 0 .. BufferSize - 1] /\ ret \in [Workers -> -1 .. BufferSize - 1]
      /\ ~tls[w]
  BY <1>1, OwnedIsSole DEF ExchangeOK, ExchangeTypeOK, CallsOrdered
<1>4. /\ fd \notin open /\ open' = open \cup {fd} /\ ready' = [ready EXCEPT ![fd] = {}]
      /\ fd # NoFd
  BY <1>2, NoFdIsNone DEF OpenSocket, Lowest
<1>5. /\ sock' \in [Workers -> Fds \cup {NoFd}] /\ sock'[w] = fd
      /\ \A v \in Workers \ {w} : sock'[v] = sock[v]
  BY <1>2, <1>3
<1>6. SocketsTypeOK'
  BY <1>3, <1>4 DEF SocketsTypeOK
<1>7. sock[w] = NoFd
  BY <1>1, <1>3 DEF Placed
<1>8. Sole'
  <2>1. \A g \in open' : \E v \in Workers : sock'[v] = g
    <3> SUFFICES ASSUME NEW g \in open' PROVE \E v \in Workers : sock'[v] = g
      OBVIOUS
    <3>1. CASE g = fd
      BY <1>5, <3>1
    <3>2. CASE g # fd
      <4>1. g \in open
        BY <1>4, <3>2
      <4>2. PICK v \in Workers : sock[v] = g
        BY <1>3, <4>1 DEF Sole
      <4>3. g # NoFd
        BY <1>3, <4>1, NoFdIsNone DEF SocketsTypeOK
      <4> QED BY <1>5, <1>7, <4>2, <4>3
    <3> QED BY <3>1, <3>2
  <2>2. \A v \in Workers : sock'[v] # NoFd => sock'[v] \in open'
    BY <1>3, <1>4, <1>5 DEF Sole
  <2>3. \A v, u \in Workers : v # u /\ sock'[v] = sock'[u] => sock'[v] = NoFd
    BY <1>3, <1>4, <1>5 DEF Sole
  <2> QED BY <2>1, <2>2, <2>3 DEF Sole
<1>9. "connect" \in Calls \ {"idle", "lookup", "socket", "returned"}
  BY DEF Calls
<1> QED BY <1>1, <1>3, <1>4, <1>5, <1>6, <1>8, <1>9, OneMoves

\* A failed connect closes the socket and turns to the next address, if there is one.
LEMMA ConnectFailsKeeps ==
    ASSUME ExchangeOK, args' = args, NEW w \in Workers, ConnectFails(w)
    PROVE  ExchangeOK'
<1>1. CASE addr[w] = Addresses
  BY <1>1, UnconnectedKeeps DEF ConnectFails
<1>2. CASE addr[w] # Addresses
  <2>1. /\ pc[w] = "connect" /\ Goes(w, "socket") /\ Close(w)
        /\ sock' = [sock EXCEPT ![w] = NoFd] /\ addr' = [addr EXCEPT ![w] = @ + 1]
        /\ tls' = tls /\ got' = got /\ ret' = ret
    BY <1>2 DEF ConnectFails
  <2>2. /\ addr \in [Workers -> 1 .. Addresses] /\ tls \in [Workers -> BOOLEAN]
        /\ got \in [Workers -> 0 .. BufferSize - 1] /\ ret \in [Workers -> -1 .. BufferSize - 1]
        /\ ~tls[w]
    BY <2>1 DEF ExchangeOK, ExchangeTypeOK, CallsOrdered
  <2>3. /\ SocketsTypeOK' /\ Sole' /\ sock' \in [Workers -> Fds \cup {NoFd}]
        /\ sock'[w] = NoFd /\ \A v \in Workers \ {w} : sock'[v] = sock[v]
    BY <2>1, ClosedKeeps
  <2>4. addr' \in [Workers -> 1 .. Addresses]
    <3>1. addr[w] + 1 \in 1 .. Addresses
      BY <1>2, <2>2
    <3> QED BY <2>1, <2>2, <3>1
  <2>5. "socket" \in Calls
    BY DEF Calls
  <2> QED BY <2>1, <2>2, <2>3, <2>4, <2>5, OneMoves
<1> QED BY <1>1, <1>2

\* What was received fits the buffer, with room for the terminating zero.
LEMMA ReceiveKeeps ==
    ASSUME ExchangeOK, args' = args, NEW w \in Workers, Receive(w)
    PROVE  ExchangeOK'
<1>1. /\ got \in [Workers -> 0 .. BufferSize - 1] /\ got[w] \in 0 .. BufferSize - 1
      /\ pc[w] = "receive"
  BY DEF ExchangeOK, ExchangeTypeOK, Receive
<1>2. CASE Returns(w, IF args.https THEN -1 ELSE got[w])
  <2>1. (IF args.https THEN -1 ELSE got[w]) \in -1 .. BufferSize - 1
    BY <1>1
  <2> QED BY <1>2, <2>1, ReturnsKeeps
<1>3. ASSUME NEW n \in 1 .. BufferSize - 1 - got[w], Returns(w, got[w] + n)
      PROVE  ExchangeOK'
  <2>1. got[w] + n \in -1 .. BufferSize - 1
    BY <1>1
  <2> QED BY <1>3, <2>1, ReturnsKeeps
<1>4. ASSUME NEW n \in 1 .. BufferSize - 1 - got[w], got' = [got EXCEPT ![w] = @ + n],
             UNCHANGED <<pc, sock, addr, tls, ret, open, ready>>
      PROVE  ExchangeOK'
  <2>1. got[w] + n \in 0 .. BufferSize - 1
    BY <1>1
  <2>2. got' \in [Workers -> 0 .. BufferSize - 1]
    BY <1>1, <1>4, <2>1
  <2>3. ExchangeTypeOK'
    BY <1>4, <2>2 DEF ExchangeOK, ExchangeTypeOK, SocketsTypeOK
  <2>4. SocketsOwned' /\ CallsOrdered'
    BY <1>4 DEF ExchangeOK, SocketsOwned, CallsOrdered
  <2> QED BY <2>3, <2>4 DEF ExchangeOK
<1> QED BY <1>2, <1>3, <1>4 DEF Receive

LEMMA ExchangeKeeps ==
    ASSUME ExchangeOK, args' = args, NEW w \in Workers, Exchange(w)
    PROVE  ExchangeOK'
<1> USE DEF Calls
<1>0. /\ args \in Command /\ tls \in [Workers -> BOOLEAN] /\ -1 \in -1 .. BufferSize - 1
      /\ 0 \in -1 .. BufferSize - 1
  BY DEF ExchangeOK, ExchangeTypeOK
<1>00. args.https \in BOOLEAN
  BY <1>0 DEF Command
<1>1. CASE Lookup(w)
  <2>1. /\ pc[w] = "lookup" /\ ~tls[w] /\ sock[w] = NoFd
    BY <1>1 DEF Lookup, ExchangeOK, CallsOrdered, SocketsOwned
  <2>2. CASE Unconnected(w)
    BY <2>1, <2>2, UnconnectedKeeps
  <2>3. CASE Goes(w, "socket") /\ UNCHANGED <<sock, addr, tls, got, ret, open, ready>>
    BY <2>1, <2>3, CallMoves
  <2> QED BY <1>1, <2>2, <2>3 DEF Lookup
<1>2. CASE GetSocket(w)
  BY <1>2, GetSocketKeeps
<1>3. CASE Connect(w)
  <2>1. pc[w] = "connect" /\ ~tls[w] /\ sock[w] # NoFd
    BY <1>3 DEF Connect, ExchangeOK, CallsOrdered
  <2>2. PICK call \in {"send", "tunnel", "context"} :
           /\ Goes(w, call) /\ UNCHANGED <<sock, addr, tls, got, ret, open, ready>>
           /\ call = "send" <=> ~args.https
    BY <1>3 DEF Connect
  <2>3. tls[w] = FALSE
    BY <1>0, <2>1
  <2> QED BY <1>00, <2>1, <2>2, <2>3, CallMoves
<1>4. CASE ConnectFails(w)
  BY <1>4, ConnectFailsKeeps
<1>5. CASE SendConnect(w)
  <2>1. pc[w] = "tunnel" /\ ~tls[w] /\ sock[w] # NoFd /\ args.https
    BY <1>5 DEF SendConnect, ExchangeOK, CallsOrdered
  <2>2. CASE Unconnected(w)
    BY <2>1, <2>2, UnconnectedKeeps
  <2>3. CASE Goes(w, "tunnel_reply") /\ UNCHANGED <<sock, addr, tls, got, ret, open, ready>>
    BY <2>1, <2>3, CallMoves
  <2> QED BY <1>5, <2>2, <2>3 DEF SendConnect
<1>6. CASE ProxyAnswers(w)
  <2>1. pc[w] = "tunnel_reply" /\ ~tls[w] /\ sock[w] # NoFd /\ args.https
    BY <1>6 DEF ProxyAnswers, ExchangeOK, CallsOrdered
  <2>2. CASE Unconnected(w)
    BY <2>1, <2>2, UnconnectedKeeps
  <2>3. CASE Goes(w, "context") /\ UNCHANGED <<sock, addr, tls, got, ret, open, ready>>
    BY <2>1, <2>3, CallMoves
  <2> QED BY <1>6, <2>2, <2>3 DEF ProxyAnswers
<1>7. CASE MakeContext(w)
  <2>1. pc[w] = "context" /\ args.https
    BY <1>7 DEF MakeContext, ExchangeOK, CallsOrdered
  <2>2. CASE Returns(w, -1)
    BY <1>0, <2>2, ReturnsKeeps
  <2>3. CASE /\ Goes(w, "handshake") /\ tls' = [tls EXCEPT ![w] = TRUE]
             /\ UNCHANGED <<sock, addr, got, ret, open, ready>>
    <3>1. /\ SocketsTypeOK /\ Sole /\ sock \in [Workers -> Fds \cup {NoFd}]
          /\ addr \in [Workers -> 1 .. Addresses]
          /\ got \in [Workers -> 0 .. BufferSize - 1] /\ ret \in [Workers -> -1 .. BufferSize - 1]
      BY OwnedIsSole DEF ExchangeOK, ExchangeTypeOK
    <3>2. SocketsTypeOK' /\ Sole'
      BY <2>3, <3>1 DEF SocketsTypeOK, Sole
    <3>3. /\ tls' \in [Workers -> BOOLEAN] /\ tls'[w] = TRUE
          /\ \A v \in Workers \ {w} : tls'[v] = tls[v]
      BY <1>0, <2>3
    <3> QED BY <2>1, <2>3, <3>1, <3>2, <3>3, OneMoves
  <2> QED BY <1>7, <2>2, <2>3 DEF MakeContext
<1>8. CASE Handshake(w)
  <2>1. pc[w] = "handshake" /\ tls[w] = TRUE /\ args.https = TRUE
    BY <1>0, <1>00, <1>8 DEF Handshake, ExchangeOK, CallsOrdered
  <2>2. CASE Returns(w, -1)
    BY <1>0, <2>2, ReturnsKeeps
  <2>3. CASE /\ sock[w] # NoFd /\ Goes(w, "send")
             /\ UNCHANGED <<sock, addr, tls, got, ret, open, ready>>
    BY <2>1, <2>3, CallMoves
  <2> QED BY <1>8, <2>2, <2>3 DEF Handshake
<1>9. CASE SendRequest(w)
  <2>1. pc[w] = "send" /\ tls[w] = args.https /\ sock[w] # NoFd
    BY <1>9 DEF SendRequest, ExchangeOK, CallsOrdered
  <2>2. CASE Returns(w, -1)
    BY <1>0, <2>2, ReturnsKeeps
  <2>3. CASE Returns(w, 0)
    BY <1>0, <2>3, ReturnsKeeps
  <2>4. CASE Goes(w, "receive") /\ UNCHANGED <<sock, addr, tls, got, ret, open, ready>>
    BY <2>1, <2>4, CallMoves
  <2> QED BY <1>9, <2>2, <2>3, <2>4 DEF SendRequest
<1>10. CASE Receive(w)
  BY <1>10, ReceiveKeeps
<1> QED BY <1>1, <1>2, <1>3, <1>4, <1>5, <1>6, <1>7, <1>8, <1>9, <1>10 DEF Exchange

LEMMA ExchangeKept ==
    ASSUME ExchangeOK, UNCHANGED <<args, exchangeVars>>
    PROVE  ExchangeOK'
BY DEF ExchangeOK, exchangeVars, ExchangeTypeOK, SocketsTypeOK, SocketsOwned, CallsOrdered

LEMMA InitExchange == ExchangeInit => ExchangeOK
<1> SUFFICES ASSUME ExchangeInit PROVE ExchangeOK
  OBVIOUS
<1>1. ExchangeTypeOK
  BY DEF ExchangeInit, ExchangeTypeOK, SocketsInit, SocketsTypeOK, Calls, NoFd
<1>2. SocketsOwned /\ CallsOrdered
  BY DEF ExchangeInit, SocketsInit, SocketsOwned, CallsOrdered, Calls
<1> QED BY <1>1, <1>2 DEF ExchangeOK

-----------------------------------------------------------------------------
(* Sums of what the workers counted.                                        *)

LEMMA FieldsAre ==
    ASSUME NEW counts \in [Workers -> Counts]
    PROVE  /\ \A w \in Workers : Speeds(counts)[w] = counts[w].speed /\ counts[w].speed \in Nat
           /\ \A w \in Workers : Failures(counts)[w] = counts[w].failed /\ counts[w].failed \in Nat
           /\ \A w \in Workers : Bytes(counts)[w] = counts[w].bytes /\ counts[w].bytes \in Nat
BY DEF Speeds, Failures, Bytes, Counts

LEMMA SumOverNone ==
    ASSUME NEW counts PROVE SumOver(counts, {}) = NoCounts
BY SumOfNone DEF SumOver, NoCounts

LEMMA SumOverSame ==
    ASSUME NEW counts \in [Workers -> Counts], NEW others \in [Workers -> Counts],
           NEW S \in SUBSET Workers, \A w \in S : others[w] = counts[w]
    PROVE  SumOver(others, S) = SumOver(counts, S)
<1>1. IsFiniteSet(S)
  BY WorkersFacts, FS_Subset
<1>2. SumFunctionOnSet(Speeds(counts), S) = SumFunctionOnSet(Speeds(others), S)
  <2>1. \A w \in S : Speeds(counts)[w] \in Int /\ Speeds(counts)[w] = Speeds(others)[w]
    BY FieldsAre
  <2> QED BY <1>1, <2>1, SumOfSame
<1>3. SumFunctionOnSet(Failures(counts), S) = SumFunctionOnSet(Failures(others), S)
  <2>1. \A w \in S : Failures(counts)[w] \in Int /\ Failures(counts)[w] = Failures(others)[w]
    BY FieldsAre
  <2> QED BY <1>1, <2>1, SumOfSame
<1>4. SumFunctionOnSet(Bytes(counts), S) = SumFunctionOnSet(Bytes(others), S)
  <2>1. \A w \in S : Bytes(counts)[w] \in Int /\ Bytes(counts)[w] = Bytes(others)[w]
    BY FieldsAre
  <2> QED BY <1>1, <2>1, SumOfSame
<1> QED BY <1>2, <1>3, <1>4, Zenon DEF SumOver

\* Another worker's counts are added to the sum.
LEMMA SumOverMore ==
    ASSUME NEW counts \in [Workers -> Counts], NEW S \in SUBSET Workers,
           NEW w \in Workers \ S, NEW T, T = S \cup {w}
    PROVE  SumOver(counts, T) = Plus(SumOver(counts, S), counts[w])
<1>1. IsFiniteSet(S) /\ w \notin S /\ T \subseteq Workers
  BY WorkersFacts, FS_Subset
<1>2. SumFunctionOnSet(Speeds(counts), T)
         = SumFunctionOnSet(Speeds(counts), S) + counts[w].speed
  <2>1. \A y \in T : Speeds(counts)[y] \in Int
    BY <1>1, FieldsAre
  <2>2. SumFunctionOnSet(Speeds(counts), T)
           = Speeds(counts)[w] + SumFunctionOnSet(Speeds(counts), S)
    BY <1>1, <2>1, SumOfOneMore
  <2>3. SumFunctionOnSet(Speeds(counts), S) \in Int
    BY <1>1, <2>1, SumType
  <2>4. Speeds(counts)[w] = counts[w].speed /\ counts[w].speed \in Nat
    BY FieldsAre
  <2> QED BY <2>2, <2>3, <2>4
<1>3. SumFunctionOnSet(Failures(counts), T)
         = SumFunctionOnSet(Failures(counts), S) + counts[w].failed
  <2>1. \A y \in T : Failures(counts)[y] \in Int
    BY <1>1, FieldsAre
  <2>2. SumFunctionOnSet(Failures(counts), T)
           = Failures(counts)[w] + SumFunctionOnSet(Failures(counts), S)
    BY <1>1, <2>1, SumOfOneMore
  <2>3. SumFunctionOnSet(Failures(counts), S) \in Int
    BY <1>1, <2>1, SumType
  <2>4. Failures(counts)[w] = counts[w].failed /\ counts[w].failed \in Nat
    BY FieldsAre
  <2> QED BY <2>2, <2>3, <2>4
<1>4. SumFunctionOnSet(Bytes(counts), T)
         = SumFunctionOnSet(Bytes(counts), S) + counts[w].bytes
  <2>1. \A y \in T : Bytes(counts)[y] \in Int
    BY <1>1, FieldsAre
  <2>2. SumFunctionOnSet(Bytes(counts), T)
           = Bytes(counts)[w] + SumFunctionOnSet(Bytes(counts), S)
    BY <1>1, <2>1, SumOfOneMore
  <2>3. SumFunctionOnSet(Bytes(counts), S) \in Int
    BY <1>1, <2>1, SumType
  <2>4. Bytes(counts)[w] = counts[w].bytes /\ counts[w].bytes \in Nat
    BY FieldsAre
  <2> QED BY <2>2, <2>3, <2>4
<1> QED BY <1>2, <1>3, <1>4 DEF SumOver, Plus

-----------------------------------------------------------------------------
(* The workers.                                                             *)

ThreadTypeOK ==
    /\ main \in Mains /\ i \in Nat /\ at \in [Workers -> Places]
    /\ local \in [Workers -> Counts] /\ cell \in [Workers -> Counts]
    /\ register \in [Workers -> Counts] /\ totals \in Counts
    /\ mutex \in Workers \cup {-1} /\ expired \in [Workers -> BOOLEAN]
    /\ made \in [Workers -> Results]
ThreadsOK == ThreadTypeOK /\ Progress /\ MutexHeld /\ CountsMade /\ TotalsStored

LEMMA InductiveSplits == Inductive <=> ExchangeOK /\ ThreadsOK /\ refusing \in BOOLEAN
BY DEF Inductive, ExchangeOK, ThreadsOK, ThreadTypeOK, TypeOK
LEMMA InductiveSplitsNext == Inductive' <=> ExchangeOK' /\ ThreadsOK' /\ refusing' \in BOOLEAN
BY DEF Inductive, ExchangeOK, ThreadsOK, ThreadTypeOK, TypeOK

LEMMA PlusIsCounts ==
    ASSUME NEW a \in Counts, NEW b \in Counts PROVE Plus(a, b) \in Counts
BY DEF Plus, Counts

\* A worker that moves has started and not ended, so bench neither has joined it nor
\* adds anything up.
LEMMA MovesProgress ==
    ASSUME ThreadsOK, NEW w \in Workers, NEW place \in Places, Moves(w, place),
           at[w] \notin {"none", "ended"}, args' = args, main' = main, i' = i
    PROVE  /\ Progress' /\ at' \in [Workers -> Places] /\ at'[w] = place
           /\ \A v \in Workers \ {w} : at'[v] = at[v]
           /\ main \notin {"sum", "done"} /\ Summed = {} /\ Summed' = {}
<1>1. at \in [Workers -> Places]
  BY DEF ThreadsOK, ThreadTypeOK
<1>2. /\ at' \in [Workers -> Places] /\ at'[w] = place
      /\ \A v \in Workers \ {w} : at'[v] = at[v]
  BY <1>1 DEF Moves
<1>3. main \notin {"sum", "done"}
  BY DEF ThreadsOK, Progress
<1>4. Progress'
  BY <1>2, <1>3 DEF ThreadsOK, Progress
<1>5. Summed = {} /\ Summed' = {}
  BY <1>3 DEF Summed
<1> QED BY <1>2, <1>3, <1>4, <1>5

\* Nothing that is in the totals changes.
LEMMA TotalsKept ==
    ASSUME ThreadsOK, args' = args, totals' = totals, cell' = cell,
           local' \in [Workers -> Counts], Stored' = Stored,
           \A v \in Stored : local'[v] = local[v],
           ~args.shared => Summed' = Summed
    PROVE  TotalsStored'
<1>1. local \in [Workers -> Counts] /\ Stored \in SUBSET Workers
  BY DEF ThreadsOK, ThreadTypeOK, Stored
<1>2. SumOver(local', Stored) = SumOver(local, Stored)
  BY <1>1, SumOverSame
<1>3. args.shared => totals' = SumOver(local', Stored')
  BY <1>2 DEF ThreadsOK, TotalsStored
<1>4. ~args.shared => totals' = SumOver(cell', Summed')
  BY DEF ThreadsOK, TotalsStored
<1> QED BY <1>3, <1>4 DEF TotalsStored

\* A step in which a worker counts nothing and touches neither mutex nor totals.
LEMMA QuietMove ==
    ASSUME ThreadsOK, NEW w \in Workers, NEW place \in Places \ {"load", "store", "unlock", "ended"},
           Moves(w, place), at[w] \notin {"none", "load", "store", "unlock", "ended"},
           args' = args, main' = main, i' = i, Local, UNCHANGED <<local, made>>,
           IF args.shared THEN place # "publish" ELSE place # "lock"
    PROVE  ThreadsOK'
<1>1. /\ Progress' /\ at' \in [Workers -> Places] /\ at'[w] = place
      /\ \A v \in Workers \ {w} : at'[v] = at[v]
      /\ Summed = {} /\ Summed' = {}
  BY MovesProgress
<1>2. /\ cell' = cell /\ register' = register /\ totals' = totals /\ mutex' = mutex
      /\ expired' = expired /\ local' = local /\ made' = made
  BY DEF Local
<1>3. ThreadTypeOK'
  BY <1>1, <1>2 DEF ThreadsOK, ThreadTypeOK
<1>4. MutexHeld'
  <2>1. \A v \in Workers : at'[v] \in {"load", "store", "unlock"} <=> mutex' = v
    BY <1>1, <1>2 DEF ThreadsOK, MutexHeld
  <2>2. \A v \in Workers : at'[v] = "store" => register'[v] = totals'
    BY <1>1, <1>2 DEF ThreadsOK, MutexHeld
  <2>3. \A v \in Workers : IF args'.shared THEN at'[v] # "publish"
                           ELSE at'[v] \notin {"lock", "load", "store", "unlock"}
    BY <1>1 DEF ThreadsOK, MutexHeld
  <2> QED BY <2>1, <2>2, <2>3 DEF MutexHeld
<1>5. CountsMade'
  <2>1. \A v \in Workers : at'[v] = "ended" <=> at[v] = "ended"
    BY <1>1
  <2> QED BY <1>2, <2>1 DEF ThreadsOK, CountsMade, Owed
<1>6. Stored' = Stored
  BY <1>1 DEF Stored
<1>7. TotalsStored'
  <2>1. local' \in [Workers -> Counts]
    BY <1>3 DEF ThreadTypeOK
  <2> QED BY <1>1, <1>2, <1>6, <2>1, TotalsKept
<1> QED BY <1>1, <1>3, <1>4, <1>5, <1>7 DEF ThreadsOK

\* What a bench counts for a result is what the result amounts to.
LEMMA NotedIsResults ==
    ASSUME NEW m \in Results, NEW r \in -1 .. BufferSize - 1
    PROVE  Noted(m, r) \in Results /\ Owed(m) \in Counts
<1>1. /\ m.answered \in Nat /\ m.silent \in Nat /\ m.failed \in Nat /\ m.bytes \in Nat
      /\ r \in Int
  BY DEF Results
<1>2. Noted(m, r) \in Results
  BY <1>1 DEF Noted, Results
<1>3. Owed(m) \in Counts
  BY <1>1 DEF Owed, Counts
<1> QED BY <1>2, <1>3

\* What one more result adds to a thread's counts.
LEMMA CountedAdds ==
    ASSUME NEW k \in Counts, NEW r \in Int
    PROVE  Counted(k, r) = IF Succeeded(r)
                           THEN [speed |-> k.speed + 1, failed |-> k.failed, bytes |-> k.bytes + r]
                           ELSE [speed |-> k.speed, failed |-> k.failed + 1, bytes |-> k.bytes]
<1>1. CASE Succeeded(r)
  BY <1>1 DEF Counted, Plus, Counts
<1>2. CASE ~Succeeded(r)
  BY <1>2 DEF Counted, Plus, Counts
<1> QED BY <1>1, <1>2

LEMMA CountedOnce ==
    ASSUME NEW m \in Results, NEW r \in -1 .. BufferSize - 1
    PROVE  Counted(Owed(m), r) = Owed(Noted(m, r))
<1>1. /\ m.answered \in Nat /\ m.silent \in Nat /\ m.failed \in Nat /\ m.bytes \in Nat
      /\ r \in Int /\ Owed(m) \in Counts
  BY NotedIsResults DEF Results
<1>2. Counted(Owed(m), r) =
         IF Succeeded(r) THEN [speed |-> Owed(m).speed + 1, failed |-> Owed(m).failed,
                               bytes |-> Owed(m).bytes + r]
         ELSE [speed |-> Owed(m).speed, failed |-> Owed(m).failed + 1, bytes |-> Owed(m).bytes]
  BY <1>1, CountedAdds
<1>3. CASE args.shared
  <2>1. CASE r > 0
    BY <1>1, <1>2, <1>3, <2>1 DEF Succeeded, Owed, Noted
  <2>2. CASE r = 0
    BY <1>1, <1>2, <1>3, <2>2 DEF Succeeded, Owed, Noted
  <2>3. CASE r < 0
    BY <1>1, <1>2, <1>3, <2>3 DEF Succeeded, Owed, Noted
  <2> QED BY <1>1, <2>1, <2>2, <2>3
<1>4. CASE ~args.shared
  <2>1. CASE r > 0
    BY <1>1, <1>2, <1>4, <2>1 DEF Succeeded, Owed, Noted
  <2>2. CASE r = 0
    BY <1>1, <1>2, <1>4, <2>2 DEF Succeeded, Owed, Noted
  <2>3. CASE r < 0
    BY <1>1, <1>2, <1>4, <2>3 DEF Succeeded, Owed, Noted
  <2> QED BY <1>1, <2>1, <2>2, <2>3
<1> QED BY <1>3, <1>4

LEMMA CountKeeps ==
    ASSUME ExchangeOK, ThreadsOK, NEW w \in Workers, Count(w)
    PROVE  ExchangeOK' /\ ThreadsOK'
<1>1. /\ at[w] = "busy" /\ pc[w] = "returned" /\ Moves(w, "test") /\ Goes(w, "idle")
      /\ local' = [local EXCEPT ![w] = Counted(@, ret[w])]
      /\ made' = [made EXCEPT ![w] = Noted(@, ret[w])] /\ refusing' = refusing
      /\ UNCHANGED <<sock, addr, tls, got, ret, open, ready>>
      /\ args' = args /\ main' = main /\ i' = i /\ cell' = cell /\ register' = register
      /\ totals' = totals /\ mutex' = mutex /\ expired' = expired
  BY DEF Count, Local, WorkerOnly
<1>2. ExchangeOK'
  <2>1. sock[w] = NoFd /\ ~tls[w]
    BY <1>1 DEF ExchangeOK, SocketsOwned, CallsOrdered
  <2>2. "idle" \in Calls
    BY DEF Calls
  <2> QED BY <1>1, <2>1, <2>2, CallMoves
<1>3. /\ local \in [Workers -> Counts] /\ ret[w] \in -1 .. BufferSize - 1
      /\ made \in [Workers -> Results] /\ local[w] = Owed(made[w])
  BY DEF ThreadsOK, ThreadTypeOK, CountsMade, ExchangeOK, ExchangeTypeOK
<1>4. "test" \in Places
  BY DEF Places
<1>5. /\ Progress' /\ at' \in [Workers -> Places] /\ at'[w] = "test"
      /\ \A v \in Workers \ {w} : at'[v] = at[v]
      /\ Summed = {} /\ Summed' = {}
  BY <1>1, <1>4, MovesProgress
<1>6. /\ Counted(local[w], ret[w]) = Owed(Noted(made[w], ret[w]))
      /\ Counted(local[w], ret[w]) \in Counts /\ Noted(made[w], ret[w]) \in Results
  BY <1>3, CountedOnce, NotedIsResults
<1>7. /\ local' \in [Workers -> Counts] /\ local'[w] = Counted(local[w], ret[w])
      /\ \A v \in Workers \ {w} : local'[v] = local[v]
  BY <1>1, <1>3, <1>6
<1>8. /\ made' \in [Workers -> Results] /\ made'[w] = Noted(made[w], ret[w])
      /\ \A v \in Workers \ {w} : made'[v] = made[v]
  BY <1>1, <1>3, <1>6
<1>9. ThreadTypeOK'
  BY <1>1, <1>5, <1>7, <1>8 DEF ThreadsOK, ThreadTypeOK
<1>10. MutexHeld'
  BY <1>1, <1>5 DEF ThreadsOK, MutexHeld
<1>11. CountsMade'
  <2>1. \A m : Owed(m)' = Owed(m)
    BY <1>1 DEF Owed
  <2>2. \A v \in Workers : local'[v] = Owed(made'[v])
    BY <1>6, <1>7, <1>8 DEF ThreadsOK, CountsMade
  <2>3. \A v \in Workers : ~args'.shared => cell'[v] = IF at'[v] = "ended" THEN local'[v] ELSE NoCounts
    BY <1>1, <1>5, <1>7 DEF ThreadsOK, CountsMade
  <2> QED BY <1>1, <2>2, <2>3 DEF CountsMade, Owed
<1>12. Stored' = Stored /\ \A v \in Stored : local'[v] = local[v]
  BY <1>1, <1>5, <1>7 DEF Stored
<1>13. TotalsStored'
  BY <1>1, <1>5, <1>7, <1>12, TotalsKept
<1> QED BY <1>2, <1>5, <1>9, <1>10, <1>11, <1>13 DEF ThreadsOK

\* lock and what follows it: only bench_worker comes there.
LEMMA LockedIsShared ==
    ASSUME ThreadsOK, NEW w \in Workers, at[w] \in {"lock", "load", "store", "unlock"}
    PROVE  args.shared
BY DEF ThreadsOK, MutexHeld

LEMMA LockKeeps ==
    ASSUME ThreadsOK, NEW w \in Workers, Lock(w)
    PROVE  ThreadsOK'
<1>1. /\ at[w] = "lock" /\ mutex = -1 /\ mutex' = w /\ Moves(w, "load")
      /\ local' = local /\ cell' = cell /\ register' = register /\ totals' = totals
      /\ expired' = expired /\ made' = made /\ args' = args /\ main' = main /\ i' = i
  BY DEF Lock, WorkerOnly
<1>2. args.shared /\ "load" \in Places
  BY <1>1, LockedIsShared DEF Places
<1>3. /\ Progress' /\ at' \in [Workers -> Places] /\ at'[w] = "load"
      /\ \A v \in Workers \ {w} : at'[v] = at[v]
      /\ Summed = {} /\ Summed' = {}
  BY <1>1, <1>2, MovesProgress
<1>4. ThreadTypeOK'
  BY <1>1, <1>3 DEF ThreadsOK, ThreadTypeOK
<1>5. MutexHeld'
  <2>1. \A v \in Workers : at'[v] \in {"load", "store", "unlock"} <=> mutex' = v
    BY <1>1, <1>3, WorkersFacts DEF ThreadsOK, MutexHeld
  <2>2. \A v \in Workers : at'[v] = "store" => register'[v] = totals'
    BY <1>1, <1>3 DEF ThreadsOK, MutexHeld
  <2>3. \A v \in Workers : at'[v] # "publish"
    BY <1>2, <1>3 DEF ThreadsOK, MutexHeld
  <2> QED BY <1>1, <1>2, <2>1, <2>2, <2>3 DEF MutexHeld
<1>6. CountsMade'
  BY <1>1, <1>2 DEF ThreadsOK, CountsMade, Owed
<1>7. Stored' = Stored
  BY <1>1, <1>3 DEF Stored
<1>8. TotalsStored'
  <2>1. local' \in [Workers -> Counts]
    BY <1>4 DEF ThreadTypeOK
  <2> QED BY <1>1, <1>3, <1>7, <2>1, TotalsKept
<1> QED BY <1>3, <1>4, <1>5, <1>6, <1>8 DEF ThreadsOK

\* The totals a worker has read cannot change under it: nobody else is there to store.
LEMMA LoadKeeps ==
    ASSUME ThreadsOK, NEW w \in Workers, Load(w)
    PROVE  ThreadsOK'
<1>1. /\ at[w] = "load" /\ register' = [register EXCEPT ![w] = totals] /\ Moves(w, "store")
      /\ local' = local /\ cell' = cell /\ mutex' = mutex /\ totals' = totals
      /\ expired' = expired /\ made' = made /\ args' = args /\ main' = main /\ i' = i
  BY DEF Load, WorkerOnly
<1>2. args.shared /\ "store" \in Places
  BY <1>1, LockedIsShared DEF Places
<1>3. /\ Progress' /\ at' \in [Workers -> Places] /\ at'[w] = "store"
      /\ \A v \in Workers \ {w} : at'[v] = at[v]
      /\ Summed = {} /\ Summed' = {}
  BY <1>1, <1>2, MovesProgress
<1>4. /\ register' \in [Workers -> Counts] /\ register'[w] = totals
      /\ \A v \in Workers \ {w} : register'[v] = register[v]
  BY <1>1 DEF ThreadsOK, ThreadTypeOK
<1>5. ThreadTypeOK'
  BY <1>1, <1>3, <1>4 DEF ThreadsOK, ThreadTypeOK
<1>6. MutexHeld'
  <2>1. \A v \in Workers : at'[v] \in {"load", "store", "unlock"} <=> mutex' = v
    BY <1>1, <1>3 DEF ThreadsOK, MutexHeld
  <2>2. \A v \in Workers : at'[v] = "store" => register'[v] = totals'
    BY <1>1, <1>3, <1>4 DEF ThreadsOK, MutexHeld
  <2>3. \A v \in Workers : at'[v] # "publish"
    BY <1>2, <1>3 DEF ThreadsOK, MutexHeld
  <2> QED BY <1>1, <1>2, <2>1, <2>2, <2>3 DEF MutexHeld
<1>7. CountsMade'
  BY <1>1, <1>2 DEF ThreadsOK, CountsMade, Owed
<1>8. Stored' = Stored
  BY <1>1, <1>3 DEF Stored
<1>9. TotalsStored'
  <2>1. local' \in [Workers -> Counts]
    BY <1>5 DEF ThreadTypeOK
  <2> QED BY <1>1, <1>3, <1>8, <2>1, TotalsKept
<1> QED BY <1>3, <1>5, <1>6, <1>7, <1>9 DEF ThreadsOK

\* What is stored is the sum of the others with this worker's counts.
LEMMA StoreKeeps ==
    ASSUME ThreadsOK, NEW w \in Workers, Store(w)
    PROVE  ThreadsOK'
<1>1. /\ at[w] = "store" /\ totals' = Plus(register[w], local[w]) /\ Moves(w, "unlock")
      /\ local' = local /\ cell' = cell /\ mutex' = mutex /\ register' = register
      /\ expired' = expired /\ made' = made /\ args' = args /\ main' = main /\ i' = i
  BY DEF Store, WorkerOnly
<1>2. args.shared /\ "unlock" \in Places /\ register[w] = totals
  BY <1>1, LockedIsShared DEF Places, ThreadsOK, MutexHeld
<1>3. /\ Progress' /\ at' \in [Workers -> Places] /\ at'[w] = "unlock"
      /\ \A v \in Workers \ {w} : at'[v] = at[v]
  BY <1>1, <1>2, MovesProgress
<1>4. local \in [Workers -> Counts] /\ totals \in Counts /\ local[w] \in Counts
  BY DEF ThreadsOK, ThreadTypeOK
<1>5. ThreadTypeOK'
  <2>1. totals' \in Counts
    BY <1>1, <1>2, <1>4, PlusIsCounts
  <2> QED BY <1>1, <1>3, <2>1 DEF ThreadsOK, ThreadTypeOK
<1>6. MutexHeld'
  <2>1. \A v \in Workers : at'[v] \in {"load", "store", "unlock"} <=> mutex' = v
    BY <1>1, <1>3 DEF ThreadsOK, MutexHeld
  <2>2. \A v \in Workers : at'[v] # "store"
    BY <1>1, <1>3 DEF ThreadsOK, MutexHeld
  <2>3. \A v \in Workers : at'[v] # "publish"
    BY <1>2, <1>3 DEF ThreadsOK, MutexHeld
  <2> QED BY <1>1, <1>2, <2>1, <2>2, <2>3 DEF MutexHeld
<1>7. CountsMade'
  BY <1>1, <1>2 DEF ThreadsOK, CountsMade, Owed
<1>8. /\ Stored' = Stored \cup {w} /\ w \in Workers \ Stored /\ Stored \in SUBSET Workers
  BY <1>1, <1>3 DEF Stored
<1>9. SumOver(local, Stored') = Plus(SumOver(local, Stored), local[w])
  BY <1>4, <1>8, SumOverMore
<1>10. totals = SumOver(local, Stored)
  BY <1>2 DEF ThreadsOK, TotalsStored
<1>11. TotalsStored'
  <2>1. totals' = SumOver(local', Stored')
    BY <1>1, <1>2, <1>9, <1>10
  <2> QED BY <1>1, <1>2, <2>1 DEF TotalsStored
<1> QED BY <1>3, <1>5, <1>6, <1>7, <1>11 DEF ThreadsOK

LEMMA UnlockKeeps ==
    ASSUME ThreadsOK, NEW w \in Workers, Unlock(w)
    PROVE  ThreadsOK'
<1>1. /\ at[w] = "unlock" /\ mutex' = -1 /\ Moves(w, "ended")
      /\ local' = local /\ cell' = cell /\ totals' = totals /\ register' = register
      /\ expired' = expired /\ made' = made /\ args' = args /\ main' = main /\ i' = i
  BY DEF Unlock, WorkerOnly
<1>2. args.shared /\ "ended" \in Places
  BY <1>1, LockedIsShared DEF Places
<1>3. /\ Progress' /\ at' \in [Workers -> Places] /\ at'[w] = "ended"
      /\ \A v \in Workers \ {w} : at'[v] = at[v]
      /\ Summed = {} /\ Summed' = {}
  BY <1>1, <1>2, MovesProgress
<1>4. ThreadTypeOK'
  BY <1>1, <1>3 DEF ThreadsOK, ThreadTypeOK
<1>5. MutexHeld'
  <2>1. \A v \in Workers : at'[v] \in {"load", "store", "unlock"} <=> mutex' = v
    BY <1>1, <1>3, WorkersFacts DEF ThreadsOK, MutexHeld
  <2>2. \A v \in Workers : at'[v] # "store"
    BY <1>1, <1>3 DEF ThreadsOK, MutexHeld
  <2>3. \A v \in Workers : at'[v] # "publish"
    BY <1>2, <1>3 DEF ThreadsOK, MutexHeld
  <2> QED BY <1>1, <1>2, <2>1, <2>2, <2>3 DEF MutexHeld
<1>6. CountsMade'
  BY <1>1, <1>2 DEF ThreadsOK, CountsMade, Owed
<1>7. Stored' = Stored
  BY <1>1, <1>3 DEF Stored
<1>8. TotalsStored'
  <2>1. local' \in [Workers -> Counts]
    BY <1>4 DEF ThreadTypeOK
  <2> QED BY <1>1, <1>3, <1>7, <2>1, TotalsKept
<1> QED BY <1>3, <1>4, <1>5, <1>6, <1>8 DEF ThreadsOK

\* bench_worker_no_racing: the cell was empty, and nobody adds it up yet.
LEMMA PublishKeeps ==
    ASSUME ThreadsOK, NEW w \in Workers, Publish(w)
    PROVE  ThreadsOK'
<1>1. /\ at[w] = "publish" /\ cell' = [cell EXCEPT ![w] = Plus(@, local[w])]
      /\ Moves(w, "ended") /\ local' = local /\ totals' = totals /\ mutex' = mutex
      /\ register' = register
      /\ expired' = expired /\ made' = made /\ args' = args /\ main' = main /\ i' = i
  BY DEF Publish, WorkerOnly
<1>2. ~args.shared /\ "ended" \in Places
  BY <1>1 DEF Places, ThreadsOK, MutexHeld
<1>3. /\ Progress' /\ at' \in [Workers -> Places] /\ at'[w] = "ended"
      /\ \A v \in Workers \ {w} : at'[v] = at[v]
      /\ Summed = {} /\ Summed' = {}
  BY <1>1, <1>2, MovesProgress
<1>4. local[w] \in Counts /\ cell \in [Workers -> Counts] /\ cell[w] = NoCounts
  BY <1>1, <1>2 DEF ThreadsOK, ThreadTypeOK, CountsMade
<1>5. Plus(cell[w], local[w]) = local[w]
  BY <1>4 DEF Plus, NoCounts, Counts
<1>6. /\ cell' \in [Workers -> Counts] /\ cell'[w] = local[w]
      /\ \A v \in Workers \ {w} : cell'[v] = cell[v]
  BY <1>1, <1>4, <1>5
<1>7. ThreadTypeOK'
  BY <1>1, <1>3, <1>6 DEF ThreadsOK, ThreadTypeOK
<1>8. MutexHeld'
  BY <1>1, <1>2, <1>3 DEF ThreadsOK, MutexHeld
<1>9. CountsMade'
  <2> SUFFICES ASSUME NEW v \in Workers
               PROVE  /\ local'[v] = Owed(made[v])
                      /\ ~args'.shared => cell'[v] = IF at'[v] = "ended" THEN local'[v] ELSE NoCounts
    BY <1>1 DEF CountsMade, Owed
  <2>1. CASE v = w
    BY <1>1, <1>3, <1>6, <2>1 DEF ThreadsOK, CountsMade
  <2>2. CASE v # w
    BY <1>1, <1>3, <1>6, <2>2 DEF ThreadsOK, CountsMade
  <2> QED BY <2>1, <2>2
<1>10. TotalsStored'
  <2>1. totals = SumOver(cell, {})
    BY <1>2, <1>3 DEF ThreadsOK, TotalsStored
  <2>2. totals' = SumOver(cell', Summed')
    BY <1>1, <1>3, <2>1, SumOverNone
  <2> QED BY <1>1, <1>2, <2>2 DEF TotalsStored
<1> QED BY <1>3, <1>7, <1>8, <1>9, <1>10 DEF ThreadsOK

LEMMA WorkerKeeps ==
    ASSUME ExchangeOK, ThreadsOK, NEW w \in Workers, Worker(w)
    PROVE  ExchangeOK' /\ ThreadsOK'
<1>1. CASE Test(w)
  <2>1. at[w] = "test" /\ args' = args /\ main' = main /\ i' = i /\ Local /\ UNCHANGED <<local, made>>
    BY <1>1 DEF Test, WorkerOnly
  <2>2. CASE Moves(w, IF args.shared THEN "lock" ELSE "publish") /\ UNCHANGED exchangeVars
    <3>1. ExchangeOK'
      BY <2>1, <2>2, ExchangeKept
    <3>2. PICK place \in {"lock", "publish"} :
             Moves(w, place) /\ (place = "lock" <=> args.shared)
      BY <2>2
    <3>3. place \in Places \ {"load", "store", "unlock", "ended"}
      BY <3>2 DEF Places
    <3>4. ThreadsOK'
      BY <2>1, <3>2, <3>3, QuietMove
    <3> QED BY <3>1, <3>4
  <2>3. CASE Moves(w, "busy") /\ Call(w)
    <3>1. ExchangeOK'
      <4>1. /\ Goes(w, "lookup") /\ UNCHANGED <<sock, addr, tls, got, ret, open, ready>>
            /\ ~tls[w] /\ sock[w] = NoFd
        BY <2>3 DEF Call, ExchangeOK, CallsOrdered, SocketsOwned
      <4>2. "lookup" \in Calls
        BY DEF Calls
      <4> QED BY <2>1, <4>1, <4>2, CallMoves
    <3>2. "busy" \in Places \ {"load", "store", "unlock", "ended"}
      BY DEF Places
    <3>3. ThreadsOK'
      BY <2>1, <2>3, <3>2, QuietMove
    <3> QED BY <3>1, <3>3
  <2> QED BY <1>1, <2>2, <2>3 DEF Test
<1>2. CASE Communicates(w)
  <2>1. /\ Exchange(w) /\ args' = args /\ UNCHANGED threadVars
    BY <1>2 DEF Communicates, Local, WorkerOnly, threadVars
  <2>2. ExchangeOK'
    BY <2>1, ExchangeKeeps
  <2>3. ThreadsOK'
    <3>1. /\ main' = main /\ i' = i /\ at' = at /\ local' = local /\ cell' = cell
          /\ register' = register /\ totals' = totals /\ mutex' = mutex
          /\ expired' = expired /\ made' = made
      BY <2>1 DEF threadVars
    <3>2. ThreadTypeOK' /\ Progress' /\ MutexHeld' /\ CountsMade'
      BY <2>1, <3>1 DEF ThreadsOK, ThreadTypeOK, Progress, MutexHeld, CountsMade, Owed
    <3>3. Stored' = Stored /\ Summed' = Summed /\ local \in [Workers -> Counts]
      BY <3>1 DEF Stored, Summed, ThreadsOK, ThreadTypeOK
    <3>4. TotalsStored'
      BY <2>1, <3>1, <3>3, TotalsKept
    <3> QED BY <3>2, <3>4 DEF ThreadsOK
  <2> QED BY <2>2, <2>3
<1>3. CASE Count(w)
  BY <1>3, CountKeeps
<1>4. CASE Publish(w) \/ Lock(w) \/ Load(w) \/ Store(w) \/ Unlock(w)
  <2>1. UNCHANGED <<args, exchangeVars>>
    BY <1>4 DEF Publish, Lock, Load, Store, Unlock, WorkerOnly
  <2>2. ExchangeOK'
    BY <2>1, ExchangeKept
  <2> QED BY <1>4, <2>2, PublishKeeps, LockKeeps, LoadKeeps, StoreKeeps, UnlockKeeps
<1> QED BY <1>1, <1>2, <1>3, <1>4 DEF Worker

-----------------------------------------------------------------------------
(* The thread that calls the bench, the clock and the end of the process.   *)

LEMMA CreateKeeps ==
    ASSUME ThreadsOK, Create
    PROVE  ThreadsOK'
<1>1. /\ main = "create" /\ Moves(i, "test") /\ totals' = totals /\ args' = args
      /\ local' = local /\ cell' = cell /\ register' = register /\ mutex' = mutex
      /\ expired' = expired /\ made' = made
  BY DEF Create, MainOnly
<1>2. /\ i \in Workers /\ i \in Nat /\ at \in [Workers -> Places]
      /\ \A w \in Workers : w >= i => at[w] = "none"
  BY <1>1 DEF ThreadsOK, ThreadTypeOK, Progress
<1>3. at[i] = "none" /\ "test" \in Places
  BY <1>2 DEF Places, Workers
<1>4. /\ at' \in [Workers -> Places] /\ at'[i] = "test"
      /\ \A v \in Workers \ {i} : at'[v] = at[v]
  BY <1>1, <1>2, <1>3 DEF Moves
<1>5. \/ i + 1 = Clients /\ main' = "join" /\ i' = 0
      \/ i + 1 # Clients /\ main' = "create" /\ i' = i + 1
  BY <1>1 DEF Create
<1>6. ThreadTypeOK'
  BY <1>1, <1>2, <1>4, <1>5 DEF ThreadsOK, ThreadTypeOK, Mains
<1>7. Progress'
  <2>1. i' \in Workers
    BY <1>2, <1>5, WorkersFacts
  <2>2. main' = "create" => \A w \in Workers : w >= i' => at'[w] = "none"
    BY <1>2, <1>4, <1>5, WorkersFacts
  <2>3. main' = "join" => \A w \in Workers : w < i' => at'[w] = "ended"
    BY <1>5, WorkersFacts
  <2> QED BY <1>5, <2>1, <2>2, <2>3 DEF Progress
<1>8. MutexHeld'
  <2>1. \A v \in Workers : at'[v] \in {"load", "store", "unlock"} <=> mutex' = v
    BY <1>1, <1>3, <1>4 DEF ThreadsOK, MutexHeld
  <2>2. \A v \in Workers : at'[v] = "store" => register'[v] = totals'
    BY <1>1, <1>4 DEF ThreadsOK, MutexHeld
  <2>3. \A v \in Workers : IF args'.shared THEN at'[v] # "publish"
                           ELSE at'[v] \notin {"lock", "load", "store", "unlock"}
    BY <1>1, <1>4 DEF ThreadsOK, MutexHeld
  <2> QED BY <2>1, <2>2, <2>3 DEF MutexHeld
<1>9. CountsMade'
  <2>1. \A v \in Workers : at'[v] = "ended" <=> at[v] = "ended"
    BY <1>3, <1>4
  <2> QED BY <1>1, <2>1 DEF ThreadsOK, CountsMade, Owed
<1>10. Stored' = Stored
  BY <1>3, <1>4 DEF Stored
<1>11. Summed' = Summed /\ local \in [Workers -> Counts]
  BY <1>1, <1>5 DEF Summed, ThreadsOK, ThreadTypeOK
<1>12. TotalsStored'
  BY <1>1, <1>10, <1>11, TotalsKept
<1> QED BY <1>6, <1>7, <1>8, <1>9, <1>12 DEF ThreadsOK

\* The steps of main that only move it on.
LEMMA MainMoves ==
    ASSUME ThreadsOK, MainOnly, UNCHANGED <<at, totals>>, main' \in Mains, i' \in Nat,
           Progress', ~args.shared => Summed' = Summed
    PROVE  ThreadsOK'
<1>1. /\ totals' = totals /\ at' = at /\ args' = args
      /\ local' = local /\ cell' = cell /\ register' = register /\ mutex' = mutex
      /\ expired' = expired /\ made' = made
  BY DEF MainOnly
<1>2. ThreadTypeOK' /\ MutexHeld' /\ CountsMade'
  BY <1>1 DEF ThreadsOK, ThreadTypeOK, MutexHeld, CountsMade, Owed
<1>3. Stored' = Stored /\ local \in [Workers -> Counts]
  BY <1>1 DEF Stored, ThreadsOK, ThreadTypeOK
<1>4. TotalsStored'
  BY <1>1, <1>3, TotalsKept
<1> QED BY <1>2, <1>4 DEF ThreadsOK

LEMMA JoinKeeps ==
    ASSUME ThreadsOK, args \in Command, Join
    PROVE  ThreadsOK'
<1>1. /\ main = "join" /\ at[i] = "ended" /\ UNCHANGED <<at, totals>> /\ MainOnly
      /\ at' = at /\ args' = args /\ args.shared \in BOOLEAN
  BY DEF Join, MainOnly, Command
<1>2. /\ i \in Workers /\ i \in Nat /\ \A w \in Workers : w < i => at[w] = "ended"
  BY <1>1 DEF ThreadsOK, ThreadTypeOK, Progress
<1>3. \A w \in Workers : w < i + 1 => at[w] = "ended"
  BY <1>1, <1>2, WorkersFacts
<1>4. CASE i + 1 # Clients
  <2>1. main' = "join" /\ i' = i + 1
    BY <1>1, <1>4 DEF Join
  <2>2. Progress'
    BY <1>1, <1>2, <1>3, <1>4, <2>1, WorkersFacts DEF Progress
  <2>3. Summed' = Summed
    BY <1>1, <2>1 DEF Summed
  <2> QED BY <1>1, <1>2, <2>1, <2>2, <2>3, MainMoves DEF Mains
<1>5. CASE i + 1 = Clients
  <2>1. main' = AfterJoins /\ i' = 0
    BY <1>1, <1>5 DEF Join
  <2>2. main' = IF args.shared THEN "done" ELSE "sum"
    BY <2>1 DEF AfterJoins
  <2>3. \A w \in Workers : at'[w] = "ended"
    BY <1>1, <1>3, <1>5, WorkersFacts
  <2>4. Progress'
    BY <1>1, <2>1, <2>2, <2>3, WorkersFacts DEF Progress
  <2>5. ~args.shared => Summed' = Summed
    BY <1>1, <2>1, <2>2 DEF Summed
  <2>6. main' \in Mains /\ i' \in Nat
    BY <2>1, <2>2 DEF Mains
  <2> QED BY <1>1, <2>4, <2>5, <2>6, MainMoves
<1> QED BY <1>4, <1>5

\* The loop after the joins of bench_with_no_racing: one cell more.
LEMMA SumKeeps ==
    ASSUME ThreadsOK, Sum
    PROVE  ThreadsOK'
<1>1. /\ main = "sum" /\ totals' = Plus(totals, cell[i]) /\ at' = at /\ args' = args
      /\ i' = i + 1 /\ main' = IF i + 1 = Clients THEN "done" ELSE "sum"
      /\ local' = local /\ cell' = cell /\ register' = register /\ mutex' = mutex
      /\ expired' = expired /\ made' = made
  BY DEF Sum, MainOnly
<1>2. /\ i \in Workers /\ i \in Nat /\ ~args.shared /\ \A w \in Workers : at[w] = "ended"
      /\ cell \in [Workers -> Counts] /\ totals \in Counts
  BY <1>1 DEF ThreadsOK, ThreadTypeOK, Progress
<1>3. ThreadTypeOK'
  <2>1. totals' \in Counts
    BY <1>1, <1>2, PlusIsCounts
  <2> QED BY <1>1, <1>2, <2>1 DEF ThreadsOK, ThreadTypeOK, Mains
<1>4. Progress'
  BY <1>1, <1>2, WorkersFacts DEF Progress
<1>5. MutexHeld' /\ CountsMade'
  BY <1>1, <1>2 DEF ThreadsOK, MutexHeld, CountsMade, Owed
<1>6. /\ Summed \in SUBSET Workers /\ i \in Workers \ Summed
      /\ Summed' = Summed \cup {i}
  <2>1. Summed = 0 .. i - 1
    BY <1>1 DEF Summed
  <2>2. Summed' = 0 .. i
    BY <1>1, <1>2 DEF Summed, Workers
  <2> QED BY <1>2, <2>1, <2>2 DEF Workers
<1>7. SumOver(cell, Summed') = Plus(SumOver(cell, Summed), cell[i])
  BY <1>2, <1>6, SumOverMore
<1>8. totals = SumOver(cell, Summed)
  BY <1>2 DEF ThreadsOK, TotalsStored
<1>9. TotalsStored'
  <2>1. totals' = SumOver(cell', Summed')
    BY <1>1, <1>7, <1>8
  <2> QED BY <1>1, <1>2, <2>1 DEF TotalsStored
<1> QED BY <1>3, <1>4, <1>5, <1>9 DEF ThreadsOK

LEMMA InitInductive == Init => Inductive
<1> SUFFICES ASSUME Init PROVE Inductive
  OBVIOUS
<1>1. ExchangeOK
  BY InitExchange DEF Init
<1>2. NoCounts \in Counts
  BY DEF NoCounts, Counts
<1>3. ThreadTypeOK
  BY <1>2 DEF Init, ThreadTypeOK, Mains, Places, NoResults, Results
<1>4. Progress /\ MutexHeld
  BY WorkersFacts DEF Init, Progress, MutexHeld
<1>5. CountsMade
  BY DEF Init, CountsMade, NoCounts, NoResults, Owed
<1>6. Stored = {} /\ Summed = {}
  BY DEF Init, Stored, Summed
<1>7. TotalsStored
  BY <1>6, SumOverNone DEF Init, TotalsStored
<1>8. refusing \in BOOLEAN
  BY DEF Init, ExchangeInit
<1> QED BY <1>1, <1>3, <1>4, <1>5, <1>7, <1>8, InductiveSplits DEF ThreadsOK

LEMMA StepInductive == Inductive /\ [Next]_vars => Inductive'
<1> SUFFICES ASSUME Inductive, [Next]_vars PROVE Inductive'
  OBVIOUS
<1>0. refusing' \in BOOLEAN
  <2>1. refusing \in BOOLEAN
    BY InductiveSplits
  <2>2. refusing' = refusing \/ Refuse
    BY DEF Next, Main, Create, CreateFails, Join, Sum, MainOnly, Worker, Test, Communicates, Count,
           Publish, Lock, Load, Store, Unlock, WorkerOnly, Tick, SocketsTurn, Killed, Terminated, vars
  <2>3. (~refusing) \in BOOLEAN
    OBVIOUS
  <2>4. CASE refusing' = refusing
    BY <2>1, <2>4
  <2>5. CASE Refuse
    BY <2>3, <2>5 DEF Refuse
  <2> QED BY <2>2, <2>4, <2>5
<1>1. ExchangeOK /\ ThreadsOK /\ args \in Command
  BY InductiveSplits DEF ExchangeOK, ExchangeTypeOK
<1>2. ASSUME UNCHANGED <<args, exchangeVars>>, ThreadsOK' PROVE Inductive'
  BY <1>0, <1>1, <1>2, ExchangeKept, InductiveSplitsNext
<1>3. CASE Create
  BY <1>1, <1>2, <1>3, CreateKeeps DEF Create, MainOnly
<1>4. CASE CreateFails
  <2>1. /\ main = "create" /\ main' = "abandoned" /\ i' = i /\ MainOnly /\ UNCHANGED <<at, totals>>
    BY <1>4 DEF CreateFails
  <2>2. Progress' /\ Summed' = Summed /\ main' \in Mains /\ i' \in Nat
    BY <1>1, <2>1 DEF Progress, Summed, Mains, ThreadsOK, ThreadTypeOK
  <2>3. ThreadsOK'
    BY <1>1, <2>1, <2>2, MainMoves
  <2> QED BY <1>2, <2>1, <2>3 DEF MainOnly
<1>5. CASE Join
  BY <1>1, <1>2, <1>5, JoinKeeps DEF Join, MainOnly
<1>6. CASE Sum
  BY <1>1, <1>2, <1>6, SumKeeps DEF Sum, MainOnly
<1>7. CASE \E w \in Workers : Worker(w)
  BY <1>0, <1>1, <1>7, WorkerKeeps, InductiveSplitsNext
<1>8. ASSUME NEW w \in Workers, Tick(w) PROVE Inductive'
  <2>1. /\ UNCHANGED <<args, exchangeVars>> /\ main' = main /\ i' = i /\ at' = at
        /\ local' = local /\ cell' = cell /\ register' = register /\ totals' = totals
        /\ mutex' = mutex /\ made' = made /\ args' = args
        /\ expired' = [expired EXCEPT ![w] = TRUE]
    BY <1>8 DEF Tick
  <2>2. ThreadTypeOK'
    BY <1>1, <2>1 DEF ThreadsOK, ThreadTypeOK
  <2>3. Progress' /\ MutexHeld' /\ CountsMade'
    BY <1>1, <2>1 DEF ThreadsOK, Progress, MutexHeld, CountsMade, Owed
  <2>4. Stored' = Stored /\ Summed' = Summed /\ local \in [Workers -> Counts]
    BY <1>1, <2>1 DEF Stored, Summed, ThreadsOK, ThreadTypeOK
  <2>5. TotalsStored'
    BY <1>1, <2>1, <2>4, TotalsKept
  <2> QED BY <1>2, <2>1, <2>2, <2>3, <2>5 DEF ThreadsOK
<1>9. CASE Killed
  <2>1. main' = "killed" /\ i' = i /\ MainOnly /\ UNCHANGED <<at, totals>>
    BY <1>9 DEF Killed
  <2>2. main \notin {"sum", "done"}
    BY <1>1, <1>9 DEF Killed, ThreadsOK, Progress
  <2>3. Progress' /\ Summed' = Summed /\ main' \in Mains /\ i' \in Nat
    BY <1>1, <2>1, <2>2 DEF Progress, Summed, Mains, ThreadsOK, ThreadTypeOK
  <2>4. ThreadsOK'
    BY <1>1, <2>1, <2>3, MainMoves
  <2> QED BY <1>2, <2>1, <2>4 DEF MainOnly
<1>10. CASE UNCHANGED vars
  <2>1. /\ UNCHANGED <<args, exchangeVars>> /\ main' = main /\ i' = i /\ at' = at
        /\ local' = local /\ cell' = cell /\ register' = register /\ totals' = totals
        /\ mutex' = mutex /\ made' = made /\ args' = args /\ expired' = expired
    BY <1>10 DEF vars, threadVars
  <2>2. MainOnly /\ UNCHANGED <<at, totals>>
    BY <1>10 DEF MainOnly, vars, threadVars
  <2>3. Progress' /\ Summed' = Summed /\ main' \in Mains /\ i' \in Nat
    BY <1>1, <2>1 DEF Progress, Summed, ThreadsOK, ThreadTypeOK
  <2>4. ThreadsOK'
    BY <1>1, <2>2, <2>3, MainMoves
  <2> QED BY <1>2, <2>1, <2>4
<1>11. CASE SocketsTurn
  <2>1. UNCHANGED <<args, exchangeVars, threadVars>>
    BY <1>11 DEF SocketsTurn
  <2>2. /\ main' = main /\ i' = i /\ at' = at /\ local' = local /\ cell' = cell
        /\ register' = register /\ totals' = totals /\ mutex' = mutex /\ made' = made
        /\ args' = args /\ expired' = expired
    BY <2>1 DEF threadVars
  <2>3. ThreadTypeOK' /\ Progress' /\ MutexHeld' /\ CountsMade'
    BY <1>1, <2>2 DEF ThreadsOK, ThreadTypeOK, Progress, MutexHeld, CountsMade, Owed
  <2>4. Stored' = Stored /\ Summed' = Summed /\ local \in [Workers -> Counts]
    BY <1>1, <2>2 DEF Stored, Summed, ThreadsOK, ThreadTypeOK
  <2>5. TotalsStored'
    BY <1>1, <2>2, <2>4, TotalsKept
  <2> QED BY <1>2, <2>1, <2>3, <2>5 DEF ThreadsOK
<1> QED BY <1>3, <1>4, <1>5, <1>6, <1>7, <1>8, <1>9, <1>10, <1>11 DEF Next, Main, Terminated

-----------------------------------------------------------------------------
(* The theorems.                                                            *)

\* The inductive invariant of both threaded benches: types, sockets, the order of an
\* exchange's calls, the mutex, and what the totals hold at every moment.
THEOREM InductiveInvariant == Spec => []Inductive
BY InitInductive, StepInductive, PTL DEF Spec

\* Whatever the exchanges run into, no socket leaks, is closed twice, or is another
\* thread's (communicator.c).
THEOREM SocketsTheorem == Spec => []SocketsOwned
<1>1. Inductive => SocketsOwned
  BY DEF Inductive
<1> QED BY <1>1, InductiveInvariant, PTL

\* communicate sends and receives only on an open socket, over TLS exactly if HTTPS was
\* asked for.
THEOREM ConnectedTheorem == Spec => []SendsConnected
<1>1. Inductive => SendsConnected
  <2> SUFFICES ASSUME Inductive, NEW w \in Workers, pc[w] \in {"send", "receive"}
               PROVE  sock[w] \in open /\ tls[w] = args.https
    BY DEF SendsConnected
  <2>1. sock[w] # NoFd /\ tls[w] = args.https
    BY DEF Inductive, CallsOrdered
  <2>2. sock[w] \in open
    BY <2>1, OwnedIsSole DEF Inductive, TypeOK, ExchangeTypeOK, Sole
  <2> QED BY <2>1, <2>2
<1> QED BY <1>1, InductiveInvariant, PTL

\* No addition to bench's shared totals is lost, at no moment.
THEOREM AdditionTheorem == Spec => []NoLostAddition
<1>1. Inductive => NoLostAddition
  BY DEF Inductive, TotalsStored, NoLostAddition
<1> QED BY <1>1, InductiveInvariant, PTL

\* At most one worker is between lock and unlock of stats_mutex.
Holding(w) == at[w] \in {"load", "store", "unlock"}
THEOREM MutualExclusion == Spec => [](\A v, w \in Workers : Holding(v) /\ Holding(w) => v = w)
<1>1. Inductive => \A v, w \in Workers : Holding(v) /\ Holding(w) => v = w
  BY DEF Inductive, MutexHeld, Holding
<1> QED BY <1>1, InductiveInvariant, PTL

\* Both benches report every exchange of every thread once, in the class its result is
\* put in, and only when every thread has ended.
THEOREM ReportTheorem == Spec => []ReportComplete
<1>1. Inductive => ReportComplete
  <2> SUFFICES ASSUME Inductive, main = "done"
               PROVE  /\ totals = SumOver([w \in Workers |-> Owed(made[w])], Workers)
                      /\ \A w \in Workers : at[w] = "ended"
    BY DEF ReportComplete
  <2>1. /\ local \in [Workers -> Counts] /\ cell \in [Workers -> Counts]
        /\ args.shared \in BOOLEAN /\ \A w \in Workers : at[w] = "ended"
    BY DEF Inductive, TypeOK, ExchangeTypeOK, Command, Progress
  <2>2. totals = SumOver(local, Workers)
    <3>1. CASE args.shared
      <4>1. Stored = Workers
        BY <2>1 DEF Stored
      <4> QED BY <3>1, <4>1 DEF Inductive, TotalsStored
    <3>2. CASE ~args.shared
      <4>1. Summed = Workers /\ \A w \in Workers : local[w] = cell[w]
        BY <2>1, <3>2 DEF Summed, Inductive, CountsMade
      <4>2. SumOver(cell, Workers) = SumOver(local, Workers)
        BY <2>1, <4>1, SumOverSame
      <4> QED BY <3>2, <4>1, <4>2 DEF Inductive, TotalsStored
    <3> QED BY <3>1, <3>2
  <2>3. local = [w \in Workers |-> Owed(made[w])]
    BY <2>1 DEF Inductive, CountsMade
  <2> QED BY <2>1, <2>2, <2>3
<1> QED BY <1>1, InductiveInvariant, PTL
=============================================================================
