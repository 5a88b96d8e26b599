---------------------------- MODULE EpollKernel -----------------------------
(***************************************************************************)
(* External: an epoll instance with edge-triggered registrations, as       *)
(* epoll_ctl(7) and epoll_wait(2) are used by bench_epoll.c.  A descriptor *)
(* is armed while it is on the instance's ready list.                      *)
(***************************************************************************)
EXTENDS Sockets, FiniteSets

VARIABLES interest,  \* fd -> the bits registered, {} when not registered
          data,      \* fd -> event.data.ptr, the index of a connection
          armed      \* the descriptors on the ready list

epollVars == <<interest, data, armed>>

Registered(fd) == interest[fd] # {}

EpollInit ==
    /\ interest = [fd \in Fds |-> {}]
    /\ data = [fd \in Fds |-> -1]
    /\ armed = {}

\* EPOLL_CTL_ADD: EEXIST leaves the old registration, mask included.
Add(fd, mask, ptr) ==
    IF Registered(fd) THEN UNCHANGED epollVars
    ELSE /\ interest' = [interest EXCEPT ![fd] = mask]
         /\ data' = [data EXCEPT ![fd] = ptr]
         /\ armed' = IF ready[fd] \cap (mask \cup {"ERR"}) # {} THEN armed \cup {fd}
                     ELSE armed

\* EPOLL_CTL_DEL, and what close() does to the registrations of fds.
Forget(fds) ==
    /\ interest' = [fd \in Fds |-> IF fd \in fds THEN {} ELSE interest[fd]]
    /\ data' = [fd \in Fds |-> IF fd \in fds THEN -1 ELSE data[fd]]
    /\ armed' = armed \ fds

\* A readiness edge puts a registered descriptor on the ready list.
Arm(fd, bits) ==
    /\ armed' = IF Registered(fd) /\ bits \cap (interest[fd] \cup {"ERR"}) # {}
                THEN armed \cup {fd} ELSE armed
    /\ UNCHANGED <<interest, data>>

\* What epoll_wait reports of fd now.
Mask(fd) == ready[fd] \cap (interest[fd] \cup {"ERR"})
Deliverable == {fd \in armed : Mask(fd) # {}}

\* epoll_wait reports the set S, as much of what is deliverable as maxevents
\* allows; edge-triggered, what is reported leaves the ready list.
Report(S, maxevents) ==
    /\ S \subseteq Deliverable
    /\ S = Deliverable \/ Cardinality(S) = maxevents
    /\ Cardinality(S) <= maxevents
    /\ armed' = IF S = Deliverable THEN {} ELSE armed \ S
    /\ UNCHANGED <<interest, data>>
=============================================================================
