---------------------------- MODULE BenchClients ----------------------------
(***************************************************************************)
(* What a bench promises of its clients, whatever engine drives them: one  *)
(* attempt of a client at a time, every attempt that ends is counted once  *)
(* (as an answer or as a failure, an unanswered forced request not at      *)
(* all), a client that could not be dialled is never tried again, and the  *)
(* report adds every client's counts up exactly once.                      *)
(***************************************************************************)
EXTENDS Integers

CONSTANTS Slots,      \* the clients
          Uncounted   \* force mode: a completed request is not an answer

VARIABLES
    stage,   \* "starting", "running", "closing" or "aborted"
    slot,    \* "free" (no attempt), "busy", or "over" (an attempt has ended)
    count,   \* how many attempts of a client were answered, how many failed
    closed,  \* the clients the report has covered
    total    \* the counts reported so far

clientVars == <<stage, slot, count, closed, total>>

NoCount == [good |-> 0, bad |-> 0]

ClientsInit ==
    /\ stage = "starting"
    /\ slot = [c \in Slots |-> "free"]
    /\ count = [c \in Slots |-> NoCount]
    /\ closed = {} /\ total = NoCount

Dial(c) ==
    /\ stage = "starting" /\ slot[c] = "free"
    /\ slot' = [slot EXCEPT ![c] = "busy"]
    /\ UNCHANGED <<stage, count, closed, total>>

Settle(c) ==
    /\ stage = "running" /\ slot[c] = "busy"
    /\ slot' = [slot EXCEPT ![c] = "over"]
    /\ \/ count' = [count EXCEPT ![c].bad = @ + 1]
       \/ count' = IF Uncounted THEN count ELSE [count EXCEPT ![c].good = @ + 1]
    /\ UNCHANGED <<stage, closed, total>>

Redial(c) ==
    /\ stage = "running" /\ slot[c] = "over"
    /\ \E s \in {"busy", "free"} : slot' = [slot EXCEPT ![c] = s]
    /\ UNCHANGED <<stage, count, closed, total>>

Close(c) ==
    /\ stage = "closing" /\ c \notin closed
    /\ slot' = [slot EXCEPT ![c] = "free"]
    /\ closed' = closed \cup {c}
    /\ total' = [good |-> total.good + count[c].good, bad |-> total.bad + count[c].bad]
    /\ UNCHANGED <<stage, count>>

Advance ==
    /\ \/ stage = "starting" /\ stage' = "running"
       \/ stage = "running" /\ stage' = "closing"
    /\ UNCHANGED <<slot, count, closed, total>>

\* A bench that is aborted reports nothing.
Abort ==
    /\ stage # "aborted" /\ stage' = "aborted"
    /\ closed' = {} /\ total' = NoCount
    /\ UNCHANGED <<slot, count>>

ClientsNext ==
    \/ Advance \/ Abort
    \/ \E c \in Slots : Dial(c) \/ Settle(c) \/ Redial(c) \/ Close(c)

ClientsSpec == ClientsInit /\ [][ClientsNext]_clientVars
=============================================================================
