---------------------------- MODULE BenchThreads ----------------------------
(***************************************************************************)
(* bench2.c: one thread per client, each repeating communicate() until its *)
(* own time is over.  bench adds what the threads counted to shared totals *)
(* under a mutex, bench_with_no_racing leaves it in a cell per thread and  *)
(* adds the cells up after the joins.                                      *)
(***************************************************************************)
EXTENDS Communicator, FiniteSets, Functions

CONSTANT MaxExchanges  \* bound: exchanges of one thread
ASSUME BenchThreadsAssumption == MaxExchanges \in Nat

VARIABLES
    main,      \* where bench or bench_with_no_racing is
    i,         \* the index of its loops over the threads
    at,        \* worker -> where bench_worker is
    local,     \* worker -> local_speed, local_failed, local_bytes
    cell,      \* worker -> speed, failed, bytes of its BenchDataNoRace
    register,  \* worker -> the totals as its thread has read them
    totals,    \* total_speed, total_failed, total_bytes
    mutex,     \* stats_mutex: the worker that holds it, or -1
    expired,   \* worker -> whether its bench_time is over
    made       \* history: a worker's exchanges, by the result that communicate returned

threadVars == <<main, i, at, local, cell, register, totals, mutex, expired, made>>
vars == <<args, refusing, exchangeVars, threadVars>>

Mains == {"create", "join", "sum", "done", "abandoned", "killed"}
Places == {"none", "test", "busy", "lock", "load", "store", "unlock", "publish", "ended"}
Counts == [speed : Nat, failed : Nat, bytes : Nat]
NoCounts == [speed |-> 0, failed |-> 0, bytes |-> 0]
Plus(a, b) == [speed |-> a.speed + b.speed, failed |-> a.failed + b.failed,
               bytes |-> a.bytes + b.bytes]

\* Results above 0, of 0 and below 0, and the sum of those above 0.
Results == [answered : Nat, silent : Nat, failed : Nat, bytes : Nat]
NoResults == [answered |-> 0, silent |-> 0, failed |-> 0, bytes |-> 0]
Noted(m, r) == [answered |-> m.answered + (IF r > 0 THEN 1 ELSE 0),
                silent |-> m.silent + (IF r = 0 THEN 1 ELSE 0),
                failed |-> m.failed + (IF r < 0 THEN 1 ELSE 0),
                bytes |-> m.bytes + (IF r > 0 THEN r ELSE 0)]

TypeOK ==
    /\ ExchangeTypeOK /\ refusing \in BOOLEAN
    /\ main \in Mains
    /\ i \in Nat
    /\ at \in [Workers -> Places]
    /\ local \in [Workers -> Counts]
    /\ cell \in [Workers -> Counts]
    /\ register \in [Workers -> Counts]
    /\ totals \in Counts
    /\ mutex \in Workers \cup {-1}
    /\ expired \in [Workers -> BOOLEAN]
    /\ made \in [Workers -> Results]

Init ==
    /\ ExchangeInit
    /\ main = "create" /\ i = 0
    /\ at = [w \in Workers |-> "none"]
    /\ local = [w \in Workers |-> NoCounts]
    /\ cell = [w \in Workers |-> NoCounts]
    /\ register = [w \in Workers |-> NoCounts]
    /\ totals = NoCounts
    /\ mutex = -1
    /\ expired = [w \in Workers |-> FALSE]
    /\ made = [w \in Workers |-> NoResults]

Alive == main \notin {"done", "killed"}
Moves(w, place) == at' = [at EXCEPT ![w] = place]

-----------------------------------------------------------------------------
(* The thread that calls the bench.                                         *)

MainOnly == UNCHANGED <<args, refusing, exchangeVars, local, cell, register, mutex, expired, made>>

Create ==
    /\ main = "create"
    /\ Moves(i, "test")
    /\ IF i + 1 = Clients THEN main' = "join" /\ i' = 0 ELSE i' = i + 1 /\ main' = main
    /\ UNCHANGED totals /\ MainOnly

\* The bench returns; the threads it has made go on until the process ends.
CreateFails ==
    /\ main = "create"
    /\ main' = "abandoned"
    /\ UNCHANGED <<i, at, totals>> /\ MainOnly

AfterJoins == IF args.shared THEN "done" ELSE "sum"
JoinNobody ==
    /\ main = "join"
    /\ IF i + 1 = Clients THEN main' = AfterJoins /\ i' = 0 ELSE i' = i + 1 /\ main' = main
    /\ UNCHANGED <<at, totals>> /\ MainOnly
Join ==
    /\ main = "join" /\ at[i] = "ended"
    /\ IF i + 1 = Clients THEN main' = AfterJoins /\ i' = 0 ELSE i' = i + 1 /\ main' = main
    /\ UNCHANGED <<at, totals>> /\ MainOnly

Sum ==
    /\ main = "sum"
    /\ totals' = Plus(totals, cell[i])
    /\ i' = i + 1
    /\ main' = IF i + 1 = Clients THEN "done" ELSE "sum"
    /\ UNCHANGED at /\ MainOnly

-----------------------------------------------------------------------------
(* bench_worker and bench_worker_no_racing.                                 *)

WorkerOnly == UNCHANGED <<args, refusing, main, i>>
Local == UNCHANGED <<cell, register, totals, mutex, expired>>

Test(w) ==
    /\ Alive /\ at[w] = "test"
    /\ \/ /\ expired[w]
          /\ Moves(w, IF args.shared THEN "lock" ELSE "publish")
          /\ UNCHANGED exchangeVars
       \/ /\ ~expired[w] /\ made[w].answered + made[w].silent + made[w].failed < MaxExchanges
          /\ Moves(w, "busy") /\ Call(w)
    /\ UNCHANGED <<local, made>> /\ Local /\ WorkerOnly

Communicates(w) ==
    /\ Alive /\ at[w] = "busy" /\ Exchange(w)
    /\ UNCHANGED <<at, local, made>> /\ Local /\ WorkerOnly

\* The two workers differ in what they take a result of 0 for.
Succeeded(r) == IF args.shared THEN r >= 0 ELSE r > 0
CountedNegative(k, r) == Plus(k, [speed |-> IF Succeeded(r) THEN 1 ELSE 0,
                                  failed |-> IF Succeeded(r) THEN 0 ELSE 1, bytes |-> r])
Counted(k, r) == Plus(k, IF Succeeded(r) THEN [speed |-> 1, failed |-> 0, bytes |-> r]
                         ELSE [speed |-> 0, failed |-> 1, bytes |-> 0])

Count(w) ==
    /\ Alive /\ at[w] = "busy" /\ pc[w] = "returned"
    /\ local' = [local EXCEPT ![w] = Counted(@, ret[w])]
    /\ made' = [made EXCEPT ![w] = Noted(@, ret[w])]
    /\ Moves(w, "test") /\ Goes(w, "idle")
    /\ UNCHANGED <<sock, addr, tls, got, ret, open, ready>> /\ Local /\ WorkerOnly

\* bench_worker: lock, read the totals, write them back increased, unlock.
LockIgnored(w) ==
    /\ Alive /\ at[w] = "lock"
    /\ mutex' = w /\ Moves(w, "load")
    /\ UNCHANGED <<exchangeVars, local, cell, register, totals, expired, made>> /\ WorkerOnly
Lock(w) ==
    /\ Alive /\ at[w] = "lock" /\ main # "abandoned"
    /\ mutex = -1 /\ mutex' = w /\ Moves(w, "load")
    /\ UNCHANGED <<exchangeVars, local, cell, register, totals, expired, made>> /\ WorkerOnly

Load(w) ==
    /\ Alive /\ at[w] = "load" /\ main # "abandoned"
    /\ register' = [register EXCEPT ![w] = totals] /\ Moves(w, "store")
    /\ UNCHANGED <<exchangeVars, local, cell, totals, mutex, expired, made>> /\ WorkerOnly

Store(w) ==
    /\ Alive /\ at[w] = "store" /\ main # "abandoned"
    /\ totals' = Plus(register[w], local[w]) /\ Moves(w, "unlock")
    /\ UNCHANGED <<exchangeVars, local, cell, register, mutex, expired, made>> /\ WorkerOnly

UnlockForgotten(w) ==
    /\ Alive /\ at[w] = "unlock" /\ main # "abandoned"
    /\ Moves(w, "ended")
    /\ UNCHANGED <<exchangeVars, local, cell, register, totals, mutex, expired, made>>
    /\ WorkerOnly
Unlock(w) ==
    /\ Alive /\ at[w] = "unlock" /\ main # "abandoned"
    /\ mutex' = -1 /\ Moves(w, "ended")
    /\ UNCHANGED <<exchangeVars, local, cell, register, totals, expired, made>> /\ WorkerOnly

\* bench_worker_no_racing: the cell is its own, and it is not freed early.
Publish(w) ==
    /\ Alive /\ at[w] = "publish"
    /\ cell' = [cell EXCEPT ![w] = Plus(@, local[w])] /\ Moves(w, "ended")
    /\ UNCHANGED <<exchangeVars, local, register, totals, mutex, expired, made>> /\ WorkerOnly

Worker(w) == \/ Test(w) \/ Communicates(w) \/ Count(w) \/ Publish(w)
             \/ Lock(w) \/ Load(w) \/ Store(w) \/ Unlock(w)

-----------------------------------------------------------------------------
(* The clock, and the ways the process ends.                                *)

Tick(w) ==
    /\ Alive /\ at[w] # "none" /\ ~expired[w]
    /\ expired' = [expired EXCEPT ![w] = TRUE]
    /\ UNCHANGED <<args, refusing, exchangeVars, main, i, at, local, cell, register, totals, mutex, made>>

SocketsTurn == Alive /\ Refuse /\ UNCHANGED <<args, exchangeVars, threadVars>>

\* After bench has returned early, the caller ends the process, or a thread uses
\* the mutex and the totals of a stack frame that is gone.
Killed ==
    /\ \/ \E w \in Workers : Alive /\ at[w] = "busy" /\ Fatal(w)
       \/ main = "abandoned"
    /\ main' = "killed"
    /\ UNCHANGED <<i, at, totals>> /\ MainOnly

Terminated == main \in {"done", "killed"} /\ UNCHANGED vars

Main == Create \/ CreateFails \/ Join \/ Sum

Next == \/ Main \/ (\E w \in Workers : Worker(w) \/ Tick(w))
        \/ SocketsTurn \/ Killed \/ Terminated

Spec == Init /\ [][Next]_vars
\* Every thread goes on while its calls return; when a peer answers is its own affair.
FairSpec == /\ Spec /\ WF_vars(Main)
            /\ \A w \in Workers : WF_vars(Worker(w) /\ ~AwaitsPeer(w))

-----------------------------------------------------------------------------
(* Properties.                                                              *)

Speeds(counts) == [w \in Workers |-> counts[w].speed]
Failures(counts) == [w \in Workers |-> counts[w].failed]
Bytes(counts) == [w \in Workers |-> counts[w].bytes]
SumOver(counts, S) == [speed |-> SumFunctionOnSet(Speeds(counts), S),
                       failed |-> SumFunctionOnSet(Failures(counts), S),
                       bytes |-> SumFunctionOnSet(Bytes(counts), S)]

\* The threads whose counts are in the shared totals.
Stored == {w \in Workers : at[w] \in {"unlock", "ended"}}

\* stats_mutex: the shared totals are at every moment what the threads that have
\* stored their counts counted, no addition of one is lost in another's.
NoLostAddition == args.shared /\ main # "abandoned" => totals = SumOver(local, Stored)

\* What results amount to: an answer is a success, and bench takes an exchange without
\* a byte (forced, or closed by the server) for one too, bench_with_no_racing for a
\* failure, though communicator.h:31 has 0 mean a success with force mode; the bytes are those of the results, not what was received before a failure.
Owed(m) == [speed |-> m.answered + (IF args.shared THEN m.silent ELSE 0),
            failed |-> m.failed + (IF args.shared THEN 0 ELSE m.silent),
            bytes |-> m.bytes]

\* The joins: what is reported is every exchange of every thread once, each in the
\* class its bench puts its result in, and nothing before every thread has ended.
ReportComplete ==
    main = "done" =>
        /\ totals = SumOver([w \in Workers |-> Owed(made[w])], Workers)
        /\ \A w \in Workers : at[w] = "ended"

\* communicator.c:170, "Try next address.": when socket() has come to fail for good, a
\* thread of the running process does not stay with the address it failed for.
NextAddressTried ==
    <>[]refusing => \A w \in Workers : pc[w] = "socket" ~> pc[w] # "socket" \/ ~Alive

\* Once the time of every thread is over, as long as no peer keeps one waiting for
\* ever and socket() fails in the end only for want of a descriptor of the threads'
\* own, the bench ends: no thread waits for the mutex, a descriptor or a join that does
\* not come.
Termination ==
    (\A w \in Workers : []<>~AwaitsPeer(w)) /\ <>[]~refusing =>
        ((\A w \in Workers : expired[w]) ~> main \in {"done", "abandoned", "killed"})
-----------------------------------------------------------------------------
(* The inductive invariant.                                                 *)

\* Between create and join nobody is missing, and nothing is added up or reported
\* before every thread has ended.
Progress ==
    /\ main \in {"create", "join", "sum"} => i \in Workers
    /\ main = "create" => \A w \in Workers : w >= i => at[w] = "none"
    /\ main = "join" => \A w \in Workers : w < i => at[w] = "ended"
    /\ main \in {"sum", "done"} => \A w \in Workers : at[w] = "ended"
    /\ main = "sum" => ~args.shared

\* stats_mutex is held by the one worker that is between lock and unlock, which has
\* read the totals as they are when it writes them; the other bench has no mutex.
MutexHeld ==
    /\ \A w \in Workers : at[w] \in {"load", "store", "unlock"} <=> mutex = w
    /\ \A w \in Workers : at[w] = "store" => register[w] = totals
    /\ \A w \in Workers : IF args.shared THEN at[w] # "publish"
                           ELSE at[w] \notin {"lock", "load", "store", "unlock"}

\* A worker's own counts are what its exchanges amount to, and its cell is empty until
\* it publishes them.
CountsMade ==
    \A w \in Workers :
        /\ local[w] = Owed(made[w])
        /\ ~args.shared => cell[w] = IF at[w] = "ended" THEN local[w] ELSE NoCounts

\* The workers whose cells bench_with_no_racing has added up.
Summed == IF main = "sum" THEN 0 .. i - 1 ELSE IF main = "done" THEN Workers ELSE {}

TotalsStored ==
    /\ args.shared => totals = SumOver(local, Stored)
    /\ ~args.shared => totals = SumOver(cell, Summed)

Inductive == /\ TypeOK /\ SocketsOwned /\ CallsOrdered
             /\ Progress /\ MutexHeld /\ CountsMade /\ TotalsStored
=============================================================================
