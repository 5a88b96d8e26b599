------------------------------ MODULE Sockets -------------------------------
(***************************************************************************)
(* External: the sockets as the kernel shows them to the benches.  Fds is  *)
(* what the descriptor limit leaves to the process (0 to 2 are the         *)
(* standard streams); a socket is ready for IN, for OUT, or shows ERR,     *)
(* which stands for both EPOLLERR and EPOLLHUP and never goes away.        *)
(***************************************************************************)
EXTENDS Integers

CONSTANT Fds
ASSUME FdsAssumption == Fds \subseteq Nat \ {0}

VARIABLES open,    \* the descriptors in use
          ready    \* fd -> the conditions the socket is in

Bits == {"IN", "OUT", "ERR"}
\* ... and FIN once a read has found the end of the stream, which no read passes.
Conditions == Bits \cup {"FIN"}

SocketsTypeOK == open \subseteq Fds /\ ready \in [Fds -> SUBSET Conditions]

SocketsInit == open = {} /\ ready = [fd \in Fds |-> {}]

\* socket() returns the lowest descriptor that is free.
Lowest(fd) == fd \notin open /\ \A g \in Fds \ open : fd <= g

OpenSocket(fd) ==
    /\ Lowest(fd)
    /\ open' = open \cup {fd}
    /\ ready' = [ready EXCEPT ![fd] = {}]

CloseSocket(fd) ==
    /\ open' = open \ {fd}
    /\ ready' = [f \in Fds |-> IF f = fd THEN {} ELSE ready[f]]

\* close() of fd, then socket() again: the kernel gives the lowest free one.
ReopenSocket(fd, new) ==
    /\ new = fd \/ new \notin open
    /\ \A g \in Fds \ (open \ {fd}) : new <= g
    /\ open' = (open \ {fd}) \cup {new}
    /\ ready' = [f \in Fds |-> IF f \in {fd, new} THEN {} ELSE ready[f]]

\* What a connection attempt, the peer or the wire can do to a socket.
Arrival(fd, bits) ==
    /\ fd \in open
    /\ bits \in {{"OUT"}, {"IN"}, Bits}
    /\ ~(bits \subseteq ready[fd])
    /\ ready' = [ready EXCEPT ![fd] = @ \cup bits]

\* A call on fd may leave the socket with nothing more to do, and EAGAIN says
\* that it has; a broken socket stays ready.
Broken(fd) == "ERR" \in ready[fd]
Drain(fd, bits) == ready' = [ready EXCEPT ![fd] = @ \ bits]
MayDrain(fd, bits) ==
    UNCHANGED ready \/ (~Broken(fd) /\ ready[fd] \cap bits # {} /\ Drain(fd, bits))

\* The results of send, SSL_write (all or nothing), recv and SSL_read, and
\* SSL_connect: -1 is an error or the end of the stream, 0 is EAGAIN, WANT_READ
\* or WANT_WRITE, otherwise the number of chunks moved.
SendResults(fd, len) == IF Broken(fd) THEN {-1} ELSE 0 .. len
SslWriteResults(fd, len) == IF Broken(fd) THEN {-1} ELSE {-1, 0, len}
Ended(fd) == "FIN" \in ready[fd]
FindEnd(fd) == ready' = [ready EXCEPT ![fd] = @ \cup {"IN", "FIN"}]
RecvResults(fd, room) == IF Ended(fd) THEN {-1} ELSE IF Broken(fd) THEN (-1 .. room) \ {0} ELSE -1 .. room
SslConnectResults(fd) == IF Broken(fd) THEN {-1} ELSE {-1, 0, 1}
=============================================================================
