----------------------------- MODULE BenchEpoll -----------------------------
(***************************************************************************)
(* bench_epoll.c: one thread drives every client's connection through an   *)
(* edge-triggered epoll instance.  A round of the loop registers the       *)
(* connections (and restarts the finished ones), waits, and handles every  *)
(* reported event by one step of that connection's protocol; the           *)
(* descriptor is removed before the step and registered again, for what    *)
(* the new state waits for, in the next round.                             *)
(***************************************************************************)
EXTENDS Handlers, EpollKernel

CONSTANTS
    SizeMod,      \* 2^64: send_proxy_connect keeps its counters in size_t
    MaxWire       \* bound: CONNECT chunks one tunnel may be sent in all

ASSUME BenchEpollAssumption ==
    /\ LowestPort = 2 /\ HighestProxy = 65535
    /\ SizeMod \in Nat /\ SizeMod > ConnectLen
    /\ MaxWire \in Nat

VARIABLES
    phase,    \* where bench_epoll is
    i,        \* the index of its for loops over the connections
    active,   \* active_fds
    events,   \* connection -> the reported mask not handled yet
    totals,   \* total_failed, total_speed, total_bytes
    expired   \* whether bench_time is over on the clock

loopVars == <<phase, i, active, events, totals>>
vars == <<handlerVars, epollVars, loopVars, expired>>

Phases == {"init", "create", "loop", "setup", "wait", "handle", "report", "done", "exit"}

TypeOK ==
    /\ HandlersTypeOK
    /\ interest \in [Fds -> SUBSET {"IN", "OUT"}]
    /\ data \in [Fds -> Conns \cup {-1}]
    /\ armed \subseteq Fds
    /\ phase \in Phases
    /\ i \in Nat
    /\ active \in Nat
    /\ events \in [Conns -> SUBSET Bits]
    /\ totals \in Totals
    /\ expired \in BOOLEAN

NoEvents == [c \in Conns |-> {}]

Init ==
    /\ HandlersInit /\ EpollInit
    /\ phase = "init" /\ i = 0
    /\ active = 0 /\ events = NoEvents
    /\ totals = NoTotals
    /\ expired = FALSE

-----------------------------------------------------------------------------
(* Start-up: every client gets a socket or stays IDLE, then epoll_create1.  *)

Next0(last) == IF i + 1 = NumConnections THEN last ELSE phase

InitConnection ==
    /\ phase = "init"
    /\ FirstDial(i)
    /\ i' = i + 1
    /\ phase' = Next0("create")
    /\ UNCHANGED <<active, events, totals, expired, epollVars>>

CreateEpoll ==
    /\ phase = "create"
    /\ phase' \in {"loop", "exit"}
    /\ UNCHANGED <<i, active, events, totals, expired, handlerVars, epollVars>>

-----------------------------------------------------------------------------
(* The head of the loop and setup_connection_to_epoll_instance.             *)

AfterHeadUntimed == IF conn[0].sockfd < 0 THEN "exit" ELSE "setup"
AfterHead == IF expired THEN "report"
             ELSE IF conn[0].sockfd < 0 THEN "exit" ELSE "setup"

LoopHead ==
    /\ phase = "loop"
    /\ phase' = AfterHead
    /\ i' = 0 /\ active' = 0
    /\ UNCHANGED <<events, totals, expired, handlerVars, epollVars>>

\* The for loop ends with connection i; no descriptor to wait for: start over.
NextSetup(counted) ==
    /\ active' = active + counted
    /\ i' = i + 1
    /\ phase' = Next0(IF active + counted = 0 THEN "loop" ELSE "wait")

SetupIdle ==
    /\ phase = "setup" /\ conn[i].state = "IDLE"
    /\ NextSetup(0)
    /\ UNCHANGED <<events, totals, expired, handlerVars, epollVars>>

SetupRestart ==
    /\ phase = "setup" /\ conn[i].state \in Over
    /\ Redialled(i)
    /\ Forget({Fd(i)})
    /\ NextSetup(0)
    /\ UNCHANGED <<events, totals, expired>>

RegisterForBoth(c) == Add(Fd(c), {"IN", "OUT"}, c)
RegisterFirst(c) == Add(Fd(c), Interest(conn[c].state), 0)
Register(c) == Add(Fd(c), Interest(conn[c].state), c)

SetupRegister ==
    /\ phase = "setup" /\ conn[i].state \in Waiting
    /\ Register(i)
    /\ IF Registered(Fd(i)) THEN SetsErrno({"other"}) ELSE UNCHANGED errno
    /\ NextSetup(1)
    /\ UNCHANGED <<events, totals, expired, conn, ctx, attempts, wire, open, ready>>

\* An errno other than EEXIST (ENOMEM, ENOSPC) ends the whole program.
SetupAddFails ==
    /\ phase = "setup" /\ conn[i].state \in Waiting /\ ~Registered(Fd(i))
    /\ phase' = "exit"
    /\ UNCHANGED <<i, active, events, totals, expired, handlerVars, epollVars>>

-----------------------------------------------------------------------------
(* epoll_wait: up to active_fds events, none after 100 ms, or -1.           *)

Wait ==
    /\ phase = "wait"
    /\ \E S \in SUBSET Fds :
          /\ Report(S, active)
          /\ events' = [c \in Conns |->
                          UNION {Mask(fd) : fd \in {f \in S : data[f] = c}}]
          /\ phase' = IF S = {} THEN "loop" ELSE "handle"
    /\ UNCHANGED <<i, active, totals, expired, handlerVars>>

WaitFails ==
    /\ phase = "wait"
    /\ phase' = "report" /\ i' = 0
    /\ UNCHANGED <<active, events, totals, expired, handlerVars, epollVars>>

-----------------------------------------------------------------------------
(* handle_ready_connection, once for every reported event.                  *)

Pending(c) == phase = "handle" /\ events[c] # {}

DeregisterSkipped(c) == UNCHANGED epollVars
Deregister(c) == Forget({Fd(c)})

\* The event of c is used up and its descriptor left the instance by
\* EPOLL_CTL_DEL; usleep and the next round follow the last event.
Handled(c) ==
    /\ events' = [events EXCEPT ![c] = {}]
    /\ Deregister(c)
    /\ phase' = IF \A d \in Conns \ {c} : events[d] = {} THEN "loop" ELSE "handle"
    /\ UNCHANGED <<i, active, totals, expired, attempts, open>>

\* The event drives a step of a connection in state s, by one of bits.
Handling(c, s, bits) ==
    /\ Pending(c) /\ Registered(Fd(c))
    /\ "ERR" \notin events[c] /\ events[c] \cap bits # {}
    /\ conn[c].state = s
    /\ Handled(c)

HandleErrorWithObject(c) ==
    /\ Pending(c) /\ Registered(Fd(c)) /\ "ERR" \in events[c]
    /\ Handled(c)
    /\ IF conn[c].state = "TLS_HANDSHAKE" /\ conn[c].ssl = "NULL" THEN Dropped(c) ELSE Erroneous(c)
HandleErrorForgotten(c) ==
    /\ Pending(c) /\ Registered(Fd(c)) /\ "ERR" \in events[c]
    /\ Handled(c) /\ Dropped(c)
HandleError(c) ==
    /\ Pending(c) /\ Registered(Fd(c)) /\ "ERR" \in events[c]
    /\ Handled(c) /\ Erroneous(c)

HandleConnecting(c) == Handling(c, "CONNECTING", {"OUT"}) /\ Connecting(c)

\* send_proxy_connect keeps send()'s result n in a size_t: the test for a result
\* of -1 never succeeds, and -1 is added to bytes_sent modulo 2^64.
TunnelSentNotReset(k, n) ==
    IF k.bytes_sent + n >= ConnectLen THEN [k EXCEPT !.state = "PROXY_RESPONSE"]
    ELSE [k EXCEPT !.bytes_sent = (@ + n + SizeMod) % SizeMod]
TunnelSent(k, n) ==
    LET sent == (k.bytes_sent + n + SizeMod) % SizeMod
    IN  IF sent >= ConnectLen THEN [k EXCEPT !.state = "PROXY_RESPONSE", !.bytes_sent = 0]
        ELSE [k EXCEPT !.bytes_sent = sent]

HandleProxyConnect(c) ==
    /\ Handling(c, "PROXY_CONNECT", {"OUT"})
    /\ \/ ~TunnelRequestable /\ Erroneous(c)
       \/ /\ TunnelRequestable
          /\ \E n \in SendResults(Fd(c), ConnectLen - conn[c].bytes_sent) :
                /\ wire[c].tunnel + n <= MaxWire
                /\ TunnelChunk(c, n)
                /\ Becomes(c, TunnelSent(conn[c], IF n = 0 THEN -1 ELSE n))

HandleProxyResponse(c) == Handling(c, "PROXY_RESPONSE", {"IN"}) /\ AwaitingTunnel(c)

HandleHandshake(c) ==
    /\ Handling(c, "TLS_HANDSHAKE", {"IN", "OUT"}) /\ conn[c].ssl # "NULL"
    /\ Handshaking(c)

HandleSending(c) == Handling(c, "SENDING", {"OUT"}) /\ Sending(c)

HandleReceiving(c) == Handling(c, "RECEIVING", {"IN"}) /\ Receiving(c)

\* EPOLL_CTL_DEL fails, or no case of the switch wants the event: that of a
\* handshake whose setup_ssl_context failed in PROXY_RESPONSE never does.
Wanted(c) ==
    /\ Registered(Fd(c))
    /\ "ERR" \notin events[c] => events[c] \cap Interest(conn[c].state) # {}
    /\ "ERR" \notin events[c] /\ conn[c].state = "TLS_HANDSHAKE" => conn[c].ssl # "NULL"
HandleIgnored(c) ==
    /\ Pending(c) /\ ~Wanted(c)
    /\ Handled(c) /\ Dropped(c)

Handle(c) == \/ HandleError(c) \/ HandleConnecting(c) \/ HandleProxyConnect(c)
             \/ HandleProxyResponse(c) \/ HandleHandshake(c) \/ HandleSending(c)
             \/ HandleReceiving(c) \/ HandleIgnored(c)

-----------------------------------------------------------------------------
(* After the loop: the totals, cleanup_connection for every client, and     *)
(* free_ssl_lib for the TLS context.                                        *)

ReportConnection ==
    /\ phase = "report"
    /\ totals' = Added(totals, conn[i])
    /\ Becomes(i, Cleaned(conn[i]))
    /\ IF Fd(i) > 0 THEN CloseSocket(Fd(i)) /\ Forget({Fd(i)})
       ELSE UNCHANGED <<socketVars, epollVars>>
    /\ i' = i + 1
    /\ phase' = Next0("done")
    /\ ctx' = (ctx /\ i + 1 # NumConnections)
    /\ UNCHANGED <<active, events, expired, errno, historyVars>>

\* A write to a socket the peer has reset raises SIGPIPE, which nothing blocks
\* or handles: in a handler, or in cleanup_connection's SSL_shutdown.
Writing(c) ==
    \/ /\ Pending(c) /\ "ERR" \notin events[c]
       /\ \/ conn[c].state \in {"PROXY_CONNECT", "SENDING"}
          \/ conn[c].state = "TLS_HANDSHAKE" /\ conn[c].ssl = "ready"
    \/ /\ conn[c].ssl = "ready" /\ c = i
       /\ phase = "report" \/ (phase = "setup" /\ conn[c].state \in Over)
SigPipe(c) ==
    /\ Writing(c) /\ Broken(Fd(c))
    /\ phase' = "exit"
    /\ UNCHANGED <<i, active, events, totals, expired, handlerVars, epollVars>>

Bench == \/ InitConnection \/ CreateEpoll \/ LoopHead
         \/ SetupIdle \/ SetupRestart \/ SetupRegister \/ SetupAddFails
         \/ Wait \/ WaitFails
         \/ \E c \in Conns : Handle(c) \/ SigPipe(c)
         \/ ReportConnection

-----------------------------------------------------------------------------
(* The environment: the peers and the clock.                                *)

Network(c) ==
    /\ \E bits \in {{"OUT"}, {"IN"}, Bits} : PeerActs(c, bits) /\ Arm(Fd(c), bits)
    /\ UNCHANGED <<loopVars, expired>>

Tick ==
    /\ phase \notin {"init", "create"} /\ ~expired
    /\ expired' = TRUE
    /\ UNCHANGED <<loopVars, handlerVars, epollVars>>

Terminated == phase \in {"done", "exit"} /\ UNCHANGED vars

Next == Bench \/ (\E c \in Conns : Network(c)) \/ Tick \/ Terminated

Spec == Init /\ [][Next]_vars
\* The thread never stops by itself between two calls that return.
FairSpec == Spec /\ WF_vars(Bench)

-----------------------------------------------------------------------------
(* Safety.                                                                  *)

\* setup_connection_to_epoll_instance takes EEXIST for success: what is already
\* registered for a connection carries its pointer and is what its state needs.
InterestMatchesState ==
    \A fd \in Fds : Registered(fd) =>
        \E c \in Conns : /\ Fd(c) = fd /\ data[fd] = c
                         /\ conn[c].state \in Waiting
                         /\ interest[fd] = Interest(conn[c].state)

\* handle_ready_connection dereferences event.data.ptr and removes the socket it
\* finds there: every event not handled yet is one of a registered connection.
EventsCurrent ==
    \A c \in Conns : Pending(c) => Fd(c) \in Fds /\ Registered(Fd(c)) /\ data[Fd(c)] = c

\* Edge-triggered registrations: a registered socket that is ready is on its way
\* to a handler, it never waits for an edge that has already happened.
NoLostWakeup ==
    \A fd \in Fds : Registered(fd) /\ Mask(fd) # {} =>
        fd \in armed \/ events[data[fd]] # {}

\* active_fds, which bounds the events epoll_wait may write, is the number of
\* registered descriptors, and the events array has room for them.
ActiveIsRegistered ==
    phase = "wait" => /\ active = Cardinality({fd \in Fds : Registered(fd)})
                      /\ active \in 1 .. Clients

\* The report of a bench that ends regularly is the sum over all clients, and
\* nothing of the connections is left behind.
ReportComplete ==
    phase = "done" =>
        /\ totals = Earned
        /\ open = {} /\ ~ctx /\ \A c \in Conns : conn[c].ssl = "NULL"

\* What the properties of the inductive invariant rest on: the loop index stays in the array,
\* start-up finds the entries ahead of it untouched, the ready list holds only
\* registered descriptors, and force mode never waits for an answer.
Bookkeeping ==
    /\ phase \in {"init", "setup", "report"} => i \in Conns
    /\ phase = "init" => \A c \in Conns : c >= i => conn[c] = Fresh
    /\ \A fd \in armed : Registered(fd)
    /\ Forced => \A c \in Conns : conn[c].state # "RECEIVING"

\* Descriptor ownership, registrations and pending events of bench_epoll agree
\* with each other in every state.
Core == /\ TypeOK /\ DescriptorOwnership /\ InterestMatchesState
        /\ EventsCurrent /\ Bookkeeping

\* Events are pending only while they are handled (or were, when SIGPIPE struck).
Wakeups == NoLostWakeup /\ (phase \notin {"handle", "exit"} => events = NoEvents)

\* In setup_connection_to_epoll_instance, active_fds counts the registrations of
\* the connections before i.
Counting ==
    /\ ActiveIsRegistered
    /\ phase = "setup" =>
          /\ active <= i
          /\ active = Cardinality({fd \in Fds : Registered(fd) /\ data[fd] < i})

\* The report leaves nothing of the connections it has passed, and frees the TLS
\* context after the last one.
CleanedUp ==
    /\ phase \in {"report", "done"} => \A c \in Conns : c < i => conn[c].state = "IDLE"
    /\ phase = "done" => i = NumConnections /\ ~ctx

\* The report has added up the connections it has passed, and nothing before it.
Reported ==
    /\ phase \in {"report", "done"} => totals = EarnedBy({c \in Conns : c < i})
    /\ phase \notin {"report", "done", "exit"} => totals = NoTotals

\* The inductive invariant of the proofs.
Inductive == /\ Core /\ Wakeups /\ Counting
             /\ AttemptsInOrder /\ AnswersFitBuffer /\ CleanedUp /\ Reported

-----------------------------------------------------------------------------
(* What bench_epoll promises of its clients.                                *)

Stage == CASE phase \in {"init", "create"} -> "starting"
           [] phase \in {"loop", "setup", "wait", "handle"} -> "running"
           [] phase \in {"report", "done"} -> "closing"
           [] phase = "exit" -> "aborted"

Promise == INSTANCE BenchClients WITH
    Slots <- Conns, Uncounted <- Forced,
    stage <- Stage,
    slot <- [c \in Conns |-> Slot(c)],
    count <- [c \in Conns |-> [good |-> conn[c].speed, bad |-> conn[c].failed]],
    closed <- IF phase \in {"report", "done"} THEN 0 .. i - 1 ELSE {},
    total <- IF phase = "exit" THEN [good |-> 0, bad |-> 0]
             ELSE [good |-> totals.speed, bad |-> totals.failed]

\* bench_epoll implements BenchClients: every attempt is settled exactly once, a
\* client without a socket stays so, every client is reported once.
ImplementsClients == Promise!ClientsSpec

-----------------------------------------------------------------------------
(* Liveness.                                                                *)

\* The bench ends once its time is over, whatever the peers do.
Termination == expired ~> phase \in {"done", "exit"}

\* A reset connection does not hold its client's slot until the end of the run:
\* the error reaches a handler, whatever the connection was waiting for.
BrokenIsSettled ==
    \A c \in Conns :
        conn[c].state \in Waiting /\ Broken(Fd(c)) ~>
            conn[c].state \in Over \/ phase \in {"report", "done", "exit"}
=============================================================================
