---------------------------- MODULE BenchSelect -----------------------------
(***************************************************************************)
(* bench_select.c: one thread drives every client's connection with        *)
(* select().  A round restarts the finished connections, marks every       *)
(* socket in the descriptor sets, and after the select offers every        *)
(* connection to its handler.  Unlike the other benches it ends the        *)
(* program when a socket cannot be had.                                    *)
(***************************************************************************)
EXTENDS Handlers

ASSUME BenchSelectAssumption == LowestPort = 1 /\ HighestProxy = 65534

VARIABLES
    phase,    \* where bench_select is
    i,        \* the index of its for loops over the connections
    reads,    \* read_fds
    writes,   \* write_fds
    max_fd,   \* the largest descriptor that was ever marked
    totals,   \* total_failed, total_speed, total_bytes
    expired   \* whether bench_time is over on the clock

loopVars == <<phase, i, reads, writes, max_fd, totals>>
vars == <<handlerVars, loopVars, expired>>

Phases == {"init", "start", "loop", "setup", "select", "handle", "report", "done", "exit"}

TypeOK ==
    /\ HandlersTypeOK
    /\ phase \in Phases
    /\ i \in Nat
    /\ reads \subseteq Fds /\ writes \subseteq Fds /\ max_fd \in Fds \cup {0}
    /\ totals \in Totals
    /\ expired \in BOOLEAN

Init ==
    /\ HandlersInit
    /\ phase = "init" /\ i = 0
    /\ reads = {} /\ writes = {} /\ max_fd = 0
    /\ totals = NoTotals
    /\ expired = FALSE

-----------------------------------------------------------------------------
(* Start-up, and the head of the loop.                                      *)

LastOr(last) == IF i + 1 = NumConnections THEN last ELSE phase

InitConnection ==
    /\ phase = "init"
    /\ FirstDial(i) /\ conn'[i].state # "IDLE"
    /\ i' = i + 1 /\ phase' = LastOr("start")
    /\ UNCHANGED <<reads, writes, max_fd, totals, expired>>

\* allocate_socket exits the program when it gets no socket.
AllocateFails ==
    /\ phase = "init" \/ (phase = "setup" /\ conn[i].state \in Over)
    /\ phase' = "exit"
    /\ UNCHANGED <<handlerVars, i, reads, writes, max_fd, totals, expired>>

Start ==
    /\ phase = "start"
    /\ phase' = "loop"
    /\ UNCHANGED <<handlerVars, i, reads, writes, max_fd, totals, expired>>

AfterHeadUntimed == "setup"
AfterHead == IF expired THEN "report" ELSE "setup"

\* FD_SETSIZE: the number of connections is cut to one less, but the sets are
\* indexed by descriptors.
FdSetSize == MaxConnections + 1
Behind == {fd \in Fds : fd >= FdSetSize}
\* No descriptor outside of the sets has been marked or offered to select.
InSets == max_fd < FdSetSize

\* FD_ZERO clears the sets, and leaves what FD_SET or select wrote behind them.
Zeroed(set) == IF InSets THEN {} ELSE set \cap Behind
LoopHeadKeepsSets ==
    /\ phase = "loop"
    /\ phase' = AfterHead
    /\ i' = 0
    /\ UNCHANGED <<handlerVars, reads, writes, max_fd, totals, expired>>
LoopHead ==
    /\ phase = "loop"
    /\ phase' = AfterHead
    /\ i' = 0
    /\ reads' = Zeroed(reads) /\ writes' = Zeroed(writes)
    /\ UNCHANGED <<handlerVars, max_fd, totals, expired>>

-----------------------------------------------------------------------------
(* setup_connection_fdsets.                                                 *)

\* A handshake without a TLS object waits for nothing.
WaitsForNoRoom(k) == IF k.state = "SENDING" THEN {} ELSE Interest(k.state)
WaitsFor(k) == IF k.state = "TLS_HANDSHAKE" /\ k.ssl = "NULL" THEN {} ELSE Interest(k.state)

\* FD_SET of k's socket, also behind the set.
FdSet(set, k, bit) == set \cup {fd \in {k.sockfd} : bit \in WaitsFor(k)}

\* max_fd follows whatever the connection waits for.
Marked(k) ==
    /\ max_fd' = IF k.sockfd > max_fd THEN k.sockfd ELSE max_fd
    /\ reads' = FdSet(reads, k, "IN")
    /\ writes' = FdSet(writes, k, "OUT")

SetupWaiting ==
    /\ phase = "setup" /\ conn[i].state \in Waiting
    /\ Marked(conn[i])
    /\ i' = i + 1 /\ phase' = LastOr("select")
    /\ UNCHANGED <<handlerVars, totals, expired>>

SetupRestart ==
    /\ phase = "setup" /\ conn[i].state \in Over
    /\ Redialled(i) /\ conn'[i].state # "IDLE"
    /\ Marked(conn'[i])
    /\ i' = i + 1 /\ phase' = LastOr("select")
    /\ UNCHANGED <<totals, expired>>

\* A fortified build aborts on a descriptor outside of the set.
SetupAborts ==
    /\ phase = "setup"
    /\ \/ conn[i].state \in Waiting /\ WaitsFor(conn[i]) # {} /\ Fd(i) >= FdSetSize
       \/ /\ conn[i].state \in Over /\ Dialable
          /\ LET free == Fds \ (open \ {Fd(i)})
             IN free # {} /\ \A fd \in free : fd >= FdSetSize
    /\ phase' = "exit"
    /\ UNCHANGED <<handlerVars, i, reads, writes, max_fd, totals, expired>>

-----------------------------------------------------------------------------
(* select: what is ready now, or nothing (select_timeout, 0 once used up).  *)
(* Some connection waits, so that max_fd is above 0 and select is called.   *)

\* Behind a set lies memory that may be the other set, or anything else: a bit written
\* there may be one of any socket, and select reads and writes whatever it finds.
Ready(set, bit) ==
    IF InSets THEN {{fd \in set : ready[fd] \cap {bit, "ERR"} # {}}} ELSE SUBSET Fds

Select ==
    /\ phase = "select"
    /\ reads' \in Ready(reads, "IN") /\ writes' \in Ready(writes, "OUT")
    /\ phase' = IF reads' \cup writes' = {} THEN "loop" ELSE "handle"
    /\ i' = 0
    /\ UNCHANGED <<handlerVars, max_fd, totals, expired>>

\* A result of -1 is not told from 0.
SelectFails ==
    /\ phase = "select"
    /\ phase' = "loop"
    /\ SetsErrno({"other"})
    /\ UNCHANGED <<conn, ctx, historyVars, socketVars, i, reads, writes, max_fd, totals, expired>>

-----------------------------------------------------------------------------
(* handle_ready_connection, for every connection in turn.                   *)

\* FD_ISSET of connection i in the two sets.
Answer == {b \in {"IN", "OUT"} : \/ b = "IN" /\ Fd(i) \in reads
                                 \/ b = "OUT" /\ Fd(i) \in writes}

Handled ==
    /\ phase = "handle"
    /\ i' = i + 1 /\ phase' = LastOr("loop")
    /\ UNCHANGED <<reads, writes, max_fd, totals, expired, attempts, open>>

\* Behind the sets a bit may be set for a socket that is not ready: a call that
\* needs the peer then says EAGAIN.
Stray ==
    /\ \/ conn[i].state = "PROXY_CONNECT" /\ TunnelRequestable
       \/ conn[i].state \in {"PROXY_RESPONSE", "SENDING"}
       \/ conn[i].state = "TLS_HANDSHAKE" /\ conn[i].ssl = "ready"
    /\ ready[Fd(i)] \cap (Interest(conn[i].state) \cup {"ERR"}) = {}

Handling(s) == Handled /\ conn[i].state = s /\ Answer \cap Interest(s) # {} /\ ~Stray

HandleConnecting == Handling("CONNECTING") /\ Connecting(i)

\* The CONNECT request is sent from its start and counts as sent, however much
\* of it the kernel took.
TunnelSentUnreset(k, n) ==
    IF n = -1 THEN Failed(k)
    ELSE IF n = 0 THEN k ELSE [k EXCEPT !.state = "PROXY_RESPONSE", !.bytes_sent = n]
TunnelSentUnchecked(k, n) ==
    IF n = 0 THEN k ELSE [k EXCEPT !.state = "PROXY_RESPONSE", !.bytes_sent = @ + n]
TunnelSent(k, n) ==
    IF n = -1 THEN Failed(k)
    ELSE IF n = 0 THEN k ELSE [k EXCEPT !.state = "PROXY_RESPONSE"]

HandleProxyConnect ==
    /\ Handling("PROXY_CONNECT")
    /\ \/ ~TunnelRequestable /\ Erroneous(i)
       \/ /\ TunnelRequestable
          /\ \E n \in SendResults(Fd(i), ConnectLen) :
                TunnelChunk(i, n) /\ Becomes(i, TunnelSent(conn[i], n))

\* handle_proxy_response: the 200 line must come in one piece, in a buffer of its
\* own; a failure to make the TLS context ends the attempt without counting it.
Abandoned(k) == [k EXCEPT !.state = "ERROR"]
HandleProxyResponse ==
    /\ Handling("PROXY_RESPONSE")
    /\ \E n \in RecvResults(Fd(i), 1) :
          \/ TunnelRecv(i, n)
          \/ /\ n > 0 /\ MayDrain(Fd(i), {"IN"})
             /\ \/ Becomes(i, Failed(conn[i])) /\ UNCHANGED <<ctx, errno>>
                \/ \E ssl \in SslState :
                      /\ SetupSsl(ssl) /\ errno' \in {errno, "other"}
                      /\ Becomes(i, IF ctx' THEN WithSsl(conn[i], ssl) ELSE Abandoned(conn[i]))
    /\ UNCHANGED wire

\* SSL_new returned NULL and SSL_set_fd may not survive that.
SslNewCrashes ==
    /\ phase = "handle" /\ conn[i].state = "PROXY_RESPONSE" /\ Fd(i) \in reads
    /\ "IN" \in ready[Fd(i)]
    /\ phase' = "exit"
    /\ UNCHANGED <<handlerVars, i, reads, writes, max_fd, totals, expired>>

HandleHandshake == Handling("TLS_HANDSHAKE") /\ conn[i].ssl # "NULL" /\ Handshaking(i)

HandleSending == Handling("SENDING") /\ Sending(i)

\* A full buffer counts as an answer, but its bytes do not.
AnsweredUncounted(k) == [k EXCEPT !.state = "COMPLETED", !.speed = @ + 1]
HandleReceiving ==
    /\ Handling("RECEIVING")
    /\ IF Room(conn[i]) = 0
       THEN /\ Becomes(i, AnsweredUncounted(conn[i]))
            /\ UNCHANGED <<ctx, errno, ready, wire>>
       ELSE Receiving(i)

HandleIgnored ==
    /\ Handled
    /\ Answer \cap WaitsFor(conn[i]) = {}
    /\ Dropped(i)

HandleStray ==
    /\ Handled
    /\ Answer \cap Interest(conn[i].state) # {} /\ Stray
    /\ Becomes(i, conn[i]) /\ SetsErrno({"EAGAIN"})
    /\ UNCHANGED <<ctx, ready, wire>>

Handle == \/ HandleConnecting \/ HandleProxyConnect \/ HandleProxyResponse
          \/ HandleHandshake \/ HandleSending \/ HandleReceiving
          \/ HandleIgnored \/ HandleStray

-----------------------------------------------------------------------------
(* After the loop: the totals, cleanup_connection and cleanup_ssl.          *)

ReportConnection ==
    /\ phase = "report"
    /\ totals' = Added(totals, conn[i])
    /\ Becomes(i, Cleaned(conn[i]))
    /\ CloseSocket(Fd(i))
    /\ i' = i + 1
    /\ phase' = LastOr("done")
    /\ ctx' = (ctx /\ i + 1 # NumConnections)
    /\ UNCHANGED <<reads, writes, max_fd, expired, errno, historyVars>>

\* A write to a socket the peer has reset raises SIGPIPE, which nothing blocks
\* or handles: in a handler, or in cleanup_connection's SSL_shutdown.
Writing ==
    \/ /\ phase = "handle"
       /\ \/ conn[i].state \in {"PROXY_CONNECT", "SENDING"} /\ Fd(i) \in writes
          \/ conn[i].state = "TLS_HANDSHAKE" /\ conn[i].ssl = "ready" /\ Answer # {}
    \/ /\ phase = "report" \/ (phase = "setup" /\ conn[i].state \in Over)
       /\ conn[i].ssl = "ready"
SigPipe ==
    /\ Writing /\ Broken(Fd(i))
    /\ phase' = "exit"
    /\ UNCHANGED <<handlerVars, i, reads, writes, max_fd, totals, expired>>

Bench == \/ InitConnection \/ AllocateFails \/ Start \/ LoopHead
         \/ SetupWaiting \/ SetupRestart \/ SetupAborts
         \/ Select \/ SelectFails
         \/ Handle \/ SslNewCrashes \/ SigPipe
         \/ ReportConnection

-----------------------------------------------------------------------------
(* The environment: the peers and the clock.                                *)

Network(c) ==
    /\ \E bits \in {{"OUT"}, {"IN"}, Bits} : PeerActs(c, bits)
    /\ UNCHANGED <<loopVars, expired>>

\* The clock starts before the connections are made.
Tick ==
    /\ ~expired
    /\ expired' = TRUE
    /\ UNCHANGED <<loopVars, handlerVars>>

Terminated == phase \in {"done", "exit"} /\ UNCHANGED vars

Next == Bench \/ (\E c \in Conns : Network(c)) \/ Tick \/ Terminated

Spec == Init /\ [][Next]_vars
\* The thread never stops by itself between two calls that return.
FairSpec == Spec /\ WF_vars(Bench)
\* ... select does not fail forever: no signal handler interrupts it and, as long as
\* InSets, every descriptor in its sets is open, so only a passing lack of memory is
\* left.
SelectSpec == FairSpec /\ SF_vars(Select)

-----------------------------------------------------------------------------
(* Safety.                                                                  *)

\* What select is asked, and what handle_ready_connection still looks up, by
\* descriptor: a bit set for one connection is never read for another, though
\* descriptors are closed and reused while the sets are filled, until a descriptor
\* outside of the sets has been marked.
SetsMatchStates ==
    InSets =>
        /\ phase = "select" =>
              /\ reads = {Fd(c) : c \in {d \in Conns : "IN" \in WaitsFor(conn[d])}}
              /\ writes = {Fd(c) : c \in {d \in Conns : "OUT" \in WaitsFor(conn[d])}}
        /\ phase = "handle" => \A c \in Conns : c >= i =>
              /\ Fd(c) \in reads => "IN" \in WaitsFor(conn[c])
              /\ Fd(c) \in writes => "OUT" \in WaitsFor(conn[c])

\* setup_connection_fdsets and the handlers work on the same connections: types,
\* the ownership of descriptors and the sets that are indexed by them agree.
Consistent == TypeOK /\ DescriptorOwnership /\ SetsMatchStates

\* The sets before that: nothing is set but for connections before n, and for each
\* of them what it waits for.
MarkedSoundly(c) ==
    /\ Fd(c) \in reads => "IN" \in WaitsFor(conn[c])
    /\ Fd(c) \in writes => "OUT" \in WaitsFor(conn[c])
MarkedFully(c) ==
    /\ "IN" \in WaitsFor(conn[c]) => Fd(c) \in reads
    /\ "OUT" \in WaitsFor(conn[c]) => Fd(c) \in writes
Filled(n) ==
    /\ reads \cup writes \subseteq {Fd(c) : c \in {d \in Conns : d < n}}
    /\ \A c \in Conns : c < n => MarkedSoundly(c) /\ MarkedFully(c)
SetsFilled ==
    InSets =>
        /\ phase = "setup" => Filled(i)
        /\ phase = "select" => Filled(NumConnections)
        /\ phase = "handle" => \A c \in Conns : c >= i => MarkedSoundly(c)

\* The loop index stays in the array, no connection is without a socket once the
\* first ones are made, every one waits for its socket when select is called, and
\* force mode never waits for an answer.
Bookkeeping ==
    /\ phase \in {"init", "setup", "handle", "report"} => i \in Conns
    /\ phase = "init" => \A c \in Conns : IF c >= i THEN conn[c] = Fresh ELSE conn[c].state # "IDLE"
    /\ phase \in {"start", "loop", "setup", "select", "handle"} =>
          \A c \in Conns : conn[c].state # "IDLE"
    /\ phase = "report" => \A c \in Conns : c >= i => conn[c].state # "IDLE"
    /\ phase = "setup" => \A c \in Conns : c < i => conn[c].state \in Waiting
    /\ phase = "select" => \A c \in Conns : conn[c].state \in Waiting
    /\ phase = "handle" => \A c \in Conns : c >= i => conn[c].state \in Waiting
    /\ Forced => \A c \in Conns : conn[c].state # "RECEIVING"

\* Only a run through a proxy makes tunnels, and send_proxy_connect leaves
\* bytes_sent alone here.
TunnelsUncounted ==
    \A c \in Conns :
        /\ conn[c].state = "PROXY_CONNECT" => conn[c].bytes_sent = 0
        /\ conn[c].state \in {"PROXY_CONNECT", "PROXY_RESPONSE"} => NeedProxy

\* The report leaves nothing of the connections it has passed, and frees the TLS
\* context after the last one.
CleanedUp ==
    /\ phase \in {"report", "done"} => \A c \in Conns : c < i => conn[c].state = "IDLE"
    /\ phase = "done" => i = NumConnections /\ ~ctx

\* The report has added up the connections it has passed, and nothing before it.
Reported ==
    /\ phase \in {"report", "done"} => totals = EarnedBy({c \in Conns : c < i})
    /\ phase \notin {"report", "done", "exit"} => totals = NoTotals

\* The inductive invariant of the proofs: the connections, their sockets and the
\* sets, and on top of them the order of every attempt and the report.
Core == TypeOK /\ DescriptorOwnership /\ Bookkeeping /\ SetsFilled
Inductive == Core /\ AttemptsInOrder /\ TunnelsUncounted /\ CleanedUp /\ Reported

\* bench_select.c:427: an attempt that ends without an answer, a forced request or
\* a failure on its client's account is one that found no TLS context behind its
\* tunnel, and there is none as long as any client holds a TLS object.
UncountedWithoutContext ==
    [][\A c \in Conns :
          conn[c].state \in Waiting /\ conn'[c].state \in Over =>
             \/ conn'[c].failed + conn'[c].speed = conn[c].failed + conn[c].speed + 1
             \/ Forced /\ conn'[c].state = "COMPLETED"
             \/ /\ conn[c].state = "PROXY_RESPONSE" /\ ~ctx'
                /\ \A d \in Conns : conn[d].ssl = "NULL"]_vars

\* The report of a bench that ends regularly is the sum over all clients, and
\* nothing of the connections is left behind.
ReportComplete ==
    phase = "done" =>
        /\ totals = Earned
        /\ open = {} /\ ~ctx /\ \A c \in Conns : conn[c].ssl = "NULL"

-----------------------------------------------------------------------------
(* What bench_select promises of its clients.                               *)

Stage == CASE phase \in {"init", "start"} -> "starting"
           [] phase \in {"loop", "setup", "select", "handle"} -> "running"
           [] phase \in {"report", "done"} -> "closing"
           [] phase = "exit" -> "aborted"

Promise == INSTANCE BenchClients WITH
    Slots <- Conns, Uncounted <- Forced,
    stage <- Stage,
    slot <- [c \in Conns |-> Slot(c)],
    count <- [c \in Conns |-> [good |-> conn[c].speed, bad |-> conn[c].failed]],
    closed <- IF phase \in {"report", "done"} THEN 0 .. i - 1 ELSE {},
    total <- IF phase = "exit" THEN [good |-> 0, bad |-> 0]
             ELSE [good |-> totals.speed, bad |-> totals.failed]

\* bench_select implements BenchClients as long as no attempt is abandoned in
\* PROXY_RESPONSE: every attempt is settled exactly once, every client reported
\* once, and a client without a socket aborts the bench.
ImplementsClients == Promise!ClientsSpec

-----------------------------------------------------------------------------
(* Liveness.                                                                *)

\* The bench ends once its time is over, whatever the peers do.
Termination == expired ~> phase \in {"done", "exit"}

\* A reset connection does not hold its client's slot until the end of the run,
\* although select reports no errors of their own: unless it waits in a
\* handshake without a TLS object, a read or a write runs into the error.
BrokenIsSettled ==
    \A c \in Conns :
        /\ conn[c].state \in Waiting /\ Broken(Fd(c))
        /\ conn[c].state = "TLS_HANDSHAKE" => conn[c].ssl # "NULL"
        ~> \/ conn[c].state \in Over \/ phase \in {"report", "done", "exit"}
           \/ conn[c].state = "TLS_HANDSHAKE" /\ conn[c].ssl = "NULL"
=============================================================================
