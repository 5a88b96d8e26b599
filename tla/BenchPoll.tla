----------------------------- MODULE BenchPoll ------------------------------
(***************************************************************************)
(* bench_poll.c: one thread drives every client's connection with poll().  *)
(* A round of the loop rebuilds an array of pollfds, one for every client  *)
(* that waits for its socket, and marks the client in a bitmap; after the  *)
(* poll a second pass over the clients pairs the k-th marked client with   *)
(* the k-th pollfd and handles it.                                         *)
(***************************************************************************)
EXTENDS Handlers, Bitmap, Sequences

CONSTANT
    PointerBytes  \* sizeof(char *): the bitmap's size as the TLS case sees it

ASSUME BenchPollAssumption ==
    /\ LowestPort = 1 /\ HighestProxy = 65535
    /\ PointerBytes \in Nat \ {0}
    /\ MaxConnections <= 65536  \* positions are unsigned shorts

VARIABLES
    phase,    \* where bench_poll is
    i,        \* the index of its for loops over the connections
    bitmap,   \* conn_setup_bitmap
    pollfds,  \* the pollfds of this round
    cursor,   \* curr_poll_fd, as an index of pollfds
    totals,   \* total_failed, total_speed, total_bytes
    expired,  \* whether bench_time is over on the clock
    restarted \* history: the connections dialled anew in this round

loopVars == <<phase, i, bitmap, pollfds, cursor, totals, restarted>>
vars == <<handlerVars, loopVars, expired>>

BitmapSizeRoundedDown == NumConnections \div CharBits
BitmapSize == (NumConnections \div CharBits) + (IF NumConnections % CharBits = 0 THEN 0 ELSE 1)

Phases == {"init", "start", "loop", "setup", "poll", "handle", "report", "done", "exit"}
PollFd == [fd : Nat, events : SUBSET Bits, revents : SUBSET Bits]

TypeOK ==
    /\ HandlersTypeOK
    /\ phase \in Phases
    /\ i \in Nat
    /\ bitmap \in Bitmaps(BitmapSize)
    /\ pollfds \in Seq(PollFd)
    /\ cursor \in Nat
    /\ totals \in Totals
    /\ expired \in BOOLEAN
    /\ restarted \subseteq Conns

Init ==
    /\ HandlersInit
    /\ phase = "init" /\ i = 0
    /\ bitmap = Cleared(BitmapSize) /\ pollfds = <<>> /\ cursor = 1
    /\ totals = NoTotals
    /\ expired = FALSE
    /\ restarted = {}

-----------------------------------------------------------------------------
(* Start-up, and the head of the loop.                                      *)

LastOr(last) == IF i + 1 = NumConnections THEN last ELSE phase

InitConnection ==
    /\ phase = "init"
    /\ FirstDial(i)
    /\ i' = i + 1
    /\ phase' = LastOr("start")
    /\ UNCHANGED <<bitmap, pollfds, cursor, totals, expired, restarted>>

\* The clock is started and the bitmap is made.
Start ==
    /\ phase = "start"
    /\ phase' = "loop"
    /\ UNCHANGED <<handlerVars, i, bitmap, pollfds, cursor, totals, expired, restarted>>

\* The array is rebuilt from nothing.  When connection 0 has no socket,
\* setup_connection_fdsets gives up and the loop goes round without a poll.
AfterHeadUntimed == IF conn[0].sockfd < 0 THEN "loop" ELSE "setup"
AfterHead == IF expired THEN "report"
             ELSE IF conn[0].sockfd < 0 THEN "loop" ELSE "setup"

LoopHead ==
    /\ phase = "loop"
    /\ phase' = AfterHead
    /\ i' = 0 /\ bitmap' = Cleared(BitmapSize) /\ pollfds' = <<>> /\ cursor' = 1
    /\ restarted' = {}
    /\ UNCHANGED <<handlerVars, totals, expired>>

-----------------------------------------------------------------------------
(* setup_connection_fdsets.                                                 *)

\* get_bitmap's error is not told from a set bit.
IsSet(position) == get_bitmap(position, bitmap, BitmapSize) # 0

\* The TLS case passes sizeof(conn_setup_bitmap), the size of a pointer.
SizePassed(state) == IF state = "TLS_HANDSHAKE" THEN PointerBytes ELSE BitmapSize

\* The for loop ends with connection i: poll, or start over if nobody waits.
NextSetup(fds) ==
    /\ i' = i + 1
    /\ phase' = LastOr(IF fds = <<>> THEN "loop" ELSE "poll")

SetupIdle ==
    /\ phase = "setup" /\ conn[i].state = "IDLE"
    /\ NextSetup(pollfds)
    /\ UNCHANGED <<handlerVars, bitmap, pollfds, cursor, totals, expired, restarted>>

SetupRestart ==
    /\ phase = "setup" /\ conn[i].state \in Over
    /\ Redialled(i) /\ restarted' = restarted \cup {i}
    /\ NextSetup(pollfds)
    /\ UNCHANGED <<bitmap, pollfds, cursor, totals, expired>>

Entry(c) == [fd |-> Fd(c), events |-> Interest(conn[c].state), revents |-> {}]
MarkedOnceConnected(position) ==
    bitmap' = IF conn[position].state = "CONNECTING" THEN bitmap ELSE set_bitmap(position, bitmap)
Marked(position) == bitmap' = set_bitmap(position, bitmap)

SetupWaiting ==
    /\ phase = "setup" /\ conn[i].state \in Waiting
    /\ InBitmap(i, SizePassed(conn[i].state))
    /\ Marked(i)
    /\ pollfds' = Append(pollfds, Entry(i))
    /\ NextSetup(pollfds')
    /\ UNCHANGED <<handlerVars, cursor, totals, expired, restarted>>

\* set_bitmap failed: the round is over, no connection is polled.
SetupFails ==
    /\ phase = "setup" /\ conn[i].state \in Waiting
    /\ ~InBitmap(i, SizePassed(conn[i].state))
    /\ phase' = "loop"
    /\ UNCHANGED <<handlerVars, i, bitmap, pollfds, cursor, totals, expired, restarted>>

-----------------------------------------------------------------------------
(* poll: what is ready now, nothing after 100 ms, or -1.                    *)

Revents(p) == ready[p.fd] \cap (p.events \cup {"ERR"})

Poll ==
    /\ phase = "poll"
    /\ pollfds' = [k \in DOMAIN pollfds |->
                      [pollfds[k] EXCEPT !.revents = Revents(pollfds[k])]]
    /\ phase' = IF \A k \in DOMAIN pollfds : Revents(pollfds[k]) = {} THEN "loop" ELSE "handle"
    /\ i' = 0
    /\ UNCHANGED <<handlerVars, bitmap, cursor, totals, expired, restarted>>

PollFails ==
    /\ phase = "poll"
    /\ phase' = "report" /\ i' = 0
    /\ UNCHANGED <<handlerVars, bitmap, pollfds, cursor, totals, expired, restarted>>

-----------------------------------------------------------------------------
(* The second pass: handle_ready_connection for every marked connection.    *)

Answer == pollfds[cursor].revents

NextHandleWhenReady(taken) ==
    /\ i' = i + 1
    /\ cursor' = IF Answer = {} THEN cursor ELSE cursor + taken
    /\ phase' = LastOr("loop")
    /\ UNCHANGED <<bitmap, pollfds, totals, expired, restarted>>
NextHandle(taken) ==
    /\ i' = i + 1
    /\ cursor' = cursor + taken
    /\ phase' = LastOr("loop")
    /\ UNCHANGED <<bitmap, pollfds, totals, expired, restarted>>

HandleUnmarked ==
    /\ phase = "handle" /\ ~IsSet(i)
    /\ NextHandle(0)
    /\ UNCHANGED handlerVars

Handled ==
    /\ phase = "handle" /\ IsSet(i)
    /\ NextHandle(1)
    /\ UNCHANGED <<attempts, open>>

HandleErrorWithObject ==
    /\ Handled /\ "ERR" \in Answer
    /\ IF conn[i].state = "TLS_HANDSHAKE" /\ conn[i].ssl = "NULL" THEN Dropped(i) ELSE Erroneous(i)
HandleError == Handled /\ "ERR" \in Answer /\ Erroneous(i)

\* The pollfd drives a step of connection i in state s, by one of bits.
Handling(s, bits) ==
    /\ Handled
    /\ "ERR" \notin Answer /\ Answer \cap bits # {}
    /\ conn[i].state = s

HandleConnecting == Handling("CONNECTING", {"OUT"}) /\ Connecting(i)

TunnelSentUnchecked(k, n) ==
    IF k.bytes_sent + n < ConnectLen THEN [k EXCEPT !.bytes_sent = @ + n]
    ELSE [k EXCEPT !.state = "PROXY_RESPONSE", !.bytes_sent = 0]
TunnelSentNotReset(k, n) ==
    IF n = -1 THEN Failed(k)
    ELSE IF k.bytes_sent + n < ConnectLen THEN [k EXCEPT !.bytes_sent = @ + n]
    ELSE [k EXCEPT !.state = "PROXY_RESPONSE"]
TunnelSentAtOnce(k, n) ==
    IF n = -1 THEN Failed(k)
    ELSE IF n = 0 THEN k
    ELSE [k EXCEPT !.state = "PROXY_RESPONSE", !.bytes_sent = 0]
TunnelSent(k, n) ==
    IF n = -1 THEN Failed(k)
    ELSE IF k.bytes_sent + n < ConnectLen THEN [k EXCEPT !.bytes_sent = @ + n]
    ELSE [k EXCEPT !.state = "PROXY_RESPONSE", !.bytes_sent = 0]

HandleProxyConnect ==
    /\ Handling("PROXY_CONNECT", {"OUT"})
    /\ \/ ~TunnelRequestable /\ Erroneous(i)
       \/ /\ TunnelRequestable
          /\ \E n \in SendResults(Fd(i), ConnectLen - conn[i].bytes_sent) :
                TunnelChunk(i, n) /\ Becomes(i, TunnelSent(conn[i], n))

HandleProxyResponse == Handling("PROXY_RESPONSE", {"IN"}) /\ AwaitingTunnel(i)

HandleHandshake ==
    /\ Handling("TLS_HANDSHAKE", {"IN", "OUT"}) /\ conn[i].ssl # "NULL"
    /\ Handshaking(i)

HandleSending == Handling("SENDING", {"OUT"}) /\ Sending(i)

HandleReceiving == Handling("RECEIVING", {"IN"}) /\ Receiving(i)

\* Nothing to do, or a handshake whose setup_ssl_context failed in
\* PROXY_RESPONSE: its events are never wanted.
Wanted == /\ Answer \cap Interest(conn[i].state) # {}
          /\ conn[i].state = "TLS_HANDSHAKE" => conn[i].ssl # "NULL"
HandleIgnored ==
    /\ Handled
    /\ "ERR" \notin Answer /\ ~Wanted
    /\ Dropped(i)

Handle == \/ HandleError \/ HandleConnecting \/ HandleProxyConnect \/ HandleProxyResponse
          \/ HandleHandshake \/ HandleSending \/ HandleReceiving \/ HandleIgnored

-----------------------------------------------------------------------------
(* After the loop: the totals, cleanup_connection and free_ssl_lib.         *)

ReportConnection ==
    /\ phase = "report"
    /\ totals' = Added(totals, conn[i])
    /\ Becomes(i, Cleaned(conn[i]))
    /\ IF Fd(i) > 0 THEN CloseSocket(Fd(i)) ELSE UNCHANGED socketVars
    /\ i' = i + 1
    /\ phase' = LastOr("done")
    /\ ctx' = (ctx /\ i + 1 # NumConnections)
    /\ UNCHANGED <<bitmap, pollfds, cursor, expired, restarted, errno, historyVars>>

\* A write to a socket the peer has reset raises SIGPIPE, which nothing blocks
\* or handles: in a handler, or in cleanup_connection's SSL_shutdown.
Writing ==
    \/ /\ phase = "handle" /\ IsSet(i) /\ "ERR" \notin Answer
       /\ Answer \cap Interest(conn[i].state) # {}
       /\ \/ conn[i].state \in {"PROXY_CONNECT", "SENDING"}
          \/ conn[i].state = "TLS_HANDSHAKE" /\ conn[i].ssl = "ready"
    \/ /\ phase = "report" \/ (phase = "setup" /\ conn[i].state \in Over)
       /\ conn[i].ssl = "ready"
SigPipe ==
    /\ Writing /\ Broken(Fd(i))
    /\ phase' = "exit"
    /\ UNCHANGED <<handlerVars, i, bitmap, pollfds, cursor, totals, expired, restarted>>

Bench == \/ InitConnection \/ Start \/ LoopHead
         \/ SetupIdle \/ SetupRestart \/ SetupWaiting \/ SetupFails
         \/ Poll \/ PollFails
         \/ HandleUnmarked \/ Handle \/ SigPipe
         \/ ReportConnection

-----------------------------------------------------------------------------
(* The environment: the peers and the clock.                                *)

Network(c) ==
    /\ \E bits \in {{"OUT"}, {"IN"}, Bits} : PeerActs(c, bits)
    /\ UNCHANGED <<loopVars, expired>>

Tick ==
    /\ phase \notin {"init", "start"} /\ ~expired
    /\ expired' = TRUE
    /\ UNCHANGED <<loopVars, handlerVars>>

Terminated == phase \in {"done", "exit"} /\ UNCHANGED vars

Next == Bench \/ (\E c \in Conns : Network(c)) \/ Tick \/ Terminated

Spec == Init /\ [][Next]_vars
\* The thread never stops by itself between two calls that return.
FairSpec == Spec /\ WF_vars(Bench)

-----------------------------------------------------------------------------
(* Safety.                                                                  *)

MarkedConns == {c \in Conns : IsSet(c)}
Rank(c) == Cardinality({d \in MarkedConns : d < c}) + 1

\* The second pass of bench_poll has only the bitmap to tell whose pollfd it is
\* looking at: the k-th pollfd is that of the k-th marked connection, it asked
\* for what that connection still waits for, and the cursor is where i is.
Paired(c) == /\ pollfds[Rank(c)].fd = Fd(c)
             /\ conn[c].state \in Waiting
             /\ pollfds[Rank(c)].events = Interest(conn[c].state)
PollPairing ==
    phase \in {"poll", "handle"} =>
        /\ Len(pollfds) = Cardinality(MarkedConns)
        /\ \A c \in MarkedConns : phase = "poll" \/ c >= i => Paired(c)
        /\ phase = "handle" => cursor = Rank(i)

\* Every connection that waits for its socket at the head of a round is polled
\* in it: the only ones left out are those restarted in the same round.
Polled(c) == conn[c].state \in Waiting => IsSet(c) \/ c \in restarted
WaitersPolled == phase = "poll" => \A c \in Conns : Polled(c)

\* Both, of the connections before i, while setup_connection_fdsets builds the round.
RoundBuilt ==
    phase = "setup" =>
        /\ Len(pollfds) = Cardinality(MarkedConns) /\ cursor = 1
        /\ \A c \in MarkedConns : c < i /\ Paired(c)
        /\ \A c \in Conns : c < i => Polled(c)

\* The loop index stays in the array, start-up finds the entries ahead of it
\* untouched, and force mode never waits for an answer.
Bookkeeping ==
    /\ phase \in {"init", "setup", "handle", "report"} => i \in Conns
    /\ phase = "init" => \A c \in Conns : c >= i => conn[c] = Fresh
    /\ phase = "poll" => cursor = 1
    /\ Forced => \A c \in Conns : conn[c].state # "RECEIVING"

\* The report leaves nothing of the connections it has passed, and frees the TLS
\* context after the last one.
CleanedUp ==
    /\ phase \in {"report", "done"} => \A c \in Conns : c < i => conn[c].state = "IDLE"
    /\ phase = "done" => i = NumConnections /\ ~ctx

\* The report has added up the connections it has passed, and nothing before it.
Reported ==
    /\ phase \in {"report", "done"} => totals = EarnedBy({c \in Conns : c < i})
    /\ phase \notin {"report", "done", "exit"} => totals = NoTotals

\* What makes TunnelRequestWhole inductive here, where send()'s result is looked
\* at: bytes_sent is what the kernel took of the CONNECT request.
TunnelsInOrder ==
    /\ TunnelRequestWhole
    /\ \A c \in Conns :
          /\ conn[c].state = "CONNECTING" => wire[c].tunnel = 0
          /\ conn[c].state = "PROXY_CONNECT" => /\ wire[c].tunnel = conn[c].bytes_sent
                                               /\ conn[c].bytes_sent < ConnectLen

\* The inductive invariant of the proofs: the round and its loop, and on top of
\* them the order of every attempt.
Core == /\ TypeOK /\ DescriptorOwnership /\ Bookkeeping
        /\ PollPairing /\ WaitersPolled /\ RoundBuilt
Inductive == /\ Core /\ AttemptsInOrder /\ TunnelsInOrder
             /\ AnswersFitBuffer /\ CleanedUp /\ Reported

\* bitmap.h:6, "bitmap_size: The size of the bitmap(How many chars in the bitmap
\* array)": told so, set_bitmap has room for every connection, and no round is
\* given up for a connection that waits for its socket.
RoundNotGivenUp ==
    [][phase = "setup" /\ phase' = "loop" => conn[i].state \notin Waiting]_vars

\* A round that has begun goes round without a poll only when nobody waits but the
\* clients dialled anew in it: the marks, the array and the size of the bitmap give no
\* other reason.  (Without a socket for connection 0 no round begins, and beyond a
\* pointer's bits a handshake gives the round up.)
RoundsPolled ==
    [][phase = "setup" /\ phase' = "loop" =>
          \A c \in Conns : conn'[c].state \in Waiting => c \in restarted']_vars

-----------------------------------------------------------------------------
(* What bench_poll promises of its clients.                                 *)

Stage == CASE phase \in {"init", "start"} -> "starting"
           [] phase \in {"loop", "setup", "poll", "handle"} -> "running"
           [] phase \in {"report", "done"} -> "closing"
           [] phase = "exit" -> "aborted"

Promise == INSTANCE BenchClients WITH
    Slots <- Conns, Uncounted <- Forced,
    stage <- Stage,
    slot <- [c \in Conns |-> Slot(c)],
    count <- [c \in Conns |-> [good |-> conn[c].speed, bad |-> conn[c].failed]],
    closed <- IF phase \in {"report", "done"} THEN 0 .. i - 1 ELSE {},
    total <- IF phase = "exit" THEN [good |-> 0, bad |-> 0]
             ELSE [good |-> totals.speed, bad |-> totals.failed]

\* bench_poll implements BenchClients: every attempt is settled exactly once, a
\* client without a socket stays so, every client is reported once.
ImplementsClients == Promise!ClientsSpec

-----------------------------------------------------------------------------
(* Liveness.                                                                *)

\* The bench ends once its time is over, whatever the peers do.
Termination == expired ~> phase \in {"done", "exit"}

\* A reset connection does not hold its client's slot until the end of the run,
\* as long as connection 0 has a socket and no client past a pointer's bits is in a
\* handshake (no round polls anything then).
PastPointer == \E c \in Conns : conn[c].state = "TLS_HANDSHAKE" /\ c >= PointerBytes * CharBits
BrokenIsSettled ==
    \A c \in Conns :
        conn[c].state \in Waiting /\ Broken(Fd(c)) ~>
            \/ conn[c].state \in Over \/ phase \in {"report", "done", "exit"}
            \/ conn[0].sockfd = NoFd \/ PastPointer
=============================================================================
