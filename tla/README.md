# WebBench2: specification, model checking and proofs

WebBench2 loads a web server with `-c` clients for `-t` seconds, over HTTP or
HTTPS, directly or through a proxy, and reports how many requests were answered,
how many failed and how many bytes came back. This directory holds TLA+ modules
translated from its source, the TLC configurations that check them, and the
theorems TLAPS proves about them. Paths such as `src/bench_epoll.c` are relative
to the repository.

## 1. Inventory

| Part | State | Operations | Modelled by |
|---|---|---|---|
| epoll bench, `src/bench_epoll.c` (the one `main` runs) | an array of connections (state, socket, TLS object, `bytes_sent`, `bytes_received`, three counters), the global TLS context, an epoll instance with edge-triggered registrations, `active_fds` and the reported events | `init_connection`, `allocate_socket`, `cleanup_connection`, `setup_connection_to_epoll_instance`, `epoll_wait`, `handle_ready_connection` and its callees, the report | `Connection`, `Sockets`, `Handlers`, `EpollKernel`, `BenchEpoll` |
| poll bench, `src/bench_poll.c` | the same connections, a bitmap of the connections that are polled, an array of pollfds rebuilt in every round, a cursor into it | `setup_connection_fdsets`, `poll`, the pairing pass, `handle_ready_connection`, the report | `Connection`, `Sockets`, `Handlers`, `BenchPoll` |
| select bench, `src/bench_select.c` | the same connections, two `fd_set`s, the largest descriptor marked | `setup_connection_fdsets`, `select`, `handle_ready_connection` for every client, the report; a socket that cannot be had ends the program | `Connection`, `Sockets`, `Handlers`, `BenchSelect` |
| bitmap, `src/bitmap.c` | a `char` array | `set_bitmap`, `get_bitmap` | `Bitmap` |
| threaded benches, `src/bench2.c` | one thread per client; totals shared under a mutex, or a cell per thread | `bench`, `bench_with_no_racing` and their workers | `BenchThreads` |
| communicator, `src/communicator.c` | one blocking exchange: socket, TLS context and object | `communicate` and its callees | `Communicator` |
| arguments, `src/arguments.c` | the `Arguments` record, `optind`, `errno` | `set_arguments_values` with one step per option, `set_arguments_from_url` | `Arguments` |
| request, `src/request.c` | the request text, the version in `Arguments` | `build_request` | `Request` |
| main, `src/webbench2.c` | none of its own | parse, build, `bench_epoll` | `WebBench2` |
| tests, playground, build | | | not modelled; read as statements about the code |
| kernel and OpenSSL | sockets, readiness, the epoll ready list; TLS objects | `socket`, `close`, `send`, `recv`, `epoll_ctl`, `epoll_wait`, `poll`, `select`, `SSL_*` | external: `Sockets`, `EpollKernel` |

**Interaction.** `main` fills an `Arguments` record and an `HTTPRequest`, both
constant from then on, and calls one bench; `WebBench2` ends where the benches'
modules begin, and its `Bench` instance of `Connection` reads what one is told off
the record the other has filled. A bench is a single thread; it shares
nothing with other threads, but every call it makes races with the peers, which
may establish, answer or reset a connection between any two calls, and with the
clock. The kernel calls back only through results: readiness is read by one call,
acted on by later ones, and may be older than what those find.

**What is hard.**

* *Readiness that is stale when used.* An event mask, a pollfd or an `fd_set` bit
  is read for all connections at once and used one connection after another,
  while sockets are closed and their numbers reused for other clients.
* *Edges.* `bench_epoll` takes a descriptor out of the instance before each step
  and adds it again in the next round, edge-triggered; `EEXIST` counts as success.
* *Pairing by counting.* `bench_poll` has only the order of bits in a bitmap to
  tell which pollfd belongs to which client.
* *One counter for several things.* `bytes_sent` counts the CONNECT request, then
  the bench's own request, then the next attempt's; `received_response` holds the
  proxy's answer, then the server's.
* *Partial failure.* `socket`, `epoll_ctl`, `SSL_CTX_new`, `SSL_new`,
  `SSL_set_fd`, `send` can fail at any step; some results are ignored, some end
  the client, some end the program.
* *Ending.* The only way out of a loop is the clock, read at its head.
* *Integers.* `send()`'s -1 in a `size_t`; the size of a pointer where the size
  of an array is meant; descriptors compared with a limit on connections; a `long`
  checked before it is cut to an `int`.
* *`errno`.* One variable for all connections, written by every failing call and
  read after some that did not fail.
* *Order of words.* Options may come in any order, after the URL, and repeatedly.

The full list, each at its line, is under `hazards` in `PROJECT.json`.

**What makes each part correct.** The event-driven benches: a socket belongs to
exactly one client and is closed exactly once; what the kernel is asked about a
client is what its state needs, and what it answers is handled by that client; no
readiness is lost; the request goes out whole and once per attempt; an attempt is
counted once; the report adds every client up; the bench ends when its time is
over and a reset never blocks a client. The threaded benches: no count is lost or
reported early. The communicator: its return value means what its header says,
nothing leaks. The command line: what is refused is wrong, what is accepted is what
was asked for, and it starts a bench that can run. Bitmap: setting one position
changes no other.

## 2. Modules

    Connection ---- Handlers ---- BenchEpoll ---- MCBenchEpoll
    Sockets ----/           \ \       |
       \                     \ \------|---- BenchPoll, BenchSelect ---- MCBenchPoll, MCBenchSelect
        EpollKernel ----------\-------/          |
                               \   Bitmap ------/ (BenchPoll)
    Sums ---- HandlersProofs ---- BenchEpollProofs ---- BenchEpollEvents
                        \---- BenchPollProofs, BenchSelectProofs
    BenchClients: instantiated by the three benches with a refinement mapping
    Sockets ---- Communicator ---- BenchThreads ---- MCBenchThreads, BenchThreadsProofs
    Arguments ---- Request ---- WebBench2 ---- MCWebBench2, WebBench2Proofs
    Connection: instantiated by WebBench2

Every `...Proofs` module extends the module it is about; `BenchThreadsProofs` and
`WebBench2Proofs` extend `Sums` as well.

* **Connection**: the record kept for a client and the pure functions on it.
  A state is the enum constant without its prefix (`CONN_SENDING` is `"SENDING"`);
  `ssl` is NULL, an object without a socket (`SSL_set_fd` failed), or ready. Where
  a connection is dialled (`NeedProxy`, `Dialable`, `TunnelRequestable`) follows
  from the constants, which are the fields of `Arguments`. Sizes are in chunks: the
  code compares them only with the request's, the CONNECT request's and the
  buffer's length.
* **Sockets** (external): which descriptors are open and which readiness bits
  they show. `socket()` takes the lowest free descriptor of `Fds`; `ERR` stands
  for both `EPOLLERR` and `EPOLLHUP` and never goes away. A call's results depend
  on whether the socket is broken; a call may leave the socket drained, and
  EAGAIN means it is. `FIN` is the end of the stream once a read has found it, and
  from then on every read finds it.
* **EpollKernel** (external): registrations, the pointer in their event data, and
  the ready list of an edge-triggered instance.
* **Handlers**: the cases of `handle_ready_connection`, `allocate_socket`,
  `cleanup_connection` and the report's sums, in the form the three engines have
  in common, and the safety properties every engine owes. `errno` is the thread's,
  as far as the code asks (`EAGAIN`, or something else): `handle_proxy_response` reads
  it after a `recv` that may have returned 0 and set nothing (`TunnelRecv`). It is
  followed only where there is a tunnel, since no other code looks at an old value
  (`SetsErrno`). `attempts` and `wire`
  are history: dials of a client, and chunks of CONNECT and of the request that
  the kernel took in the current attempt. `restarted` (poll) is history too: the clients
  dialled anew in the current round.
* **BenchEpoll, BenchPoll, BenchSelect**: the loop of each engine. `phase` and
  `i` are the program counter: every connection's turn in each `for` loop is one
  step, and one call of `handle_ready_connection` is one step, so the peers and
  the clock interleave at that grain. Inside one turn a handler makes at most one
  call that moves data; what a peer does between two calls of the same turn shows
  in that call's nondeterministic result.
* **Bitmap**: the array of chars, a char as the set of offsets of its bits that are
  set; a position is cut to an unsigned short, and `get_bitmap` answers -1 out of
  bounds, which `BenchPoll` takes for a set bit like the code (`IsSet`).
* **Arguments, Request, WebBench2**: a word of the command line is a record of what
  the code can tell of its text: which option, what `strtol` finds in it, where its
  colon is, whether a URL has a slash at its end, how long it is and whether its port's
  text fits the ten chars it is copied to. The names of hosts
  are a set `Hosts` of which only the empty text (`NoHost`) and 127.0.0.1 (`Loopback`)
  matter to the code. Every turn of
  the `getopt_long` loop is a step; `k` is `optind`. A request is the set of its
  headers with its method, target, version and end. `pc` is where the process is:
  it ends at `bench`, where a bench takes over, or at `exit` or `crash`.
* **BenchClients**: the abstract promise, below.
* **Communicator, BenchThreads**: one exchange of a worker, a step per blocking
  call, and the threads around it. `pc` is where a worker is inside
  `communicate()`, `at` where it is in `bench_worker`; an addition to the shared
  totals is a read and a write (`Load`, `Store`) between `Lock` and `Unlock`, so
  that the mutex has something to protect. Blocking sends take all or fail. When
  `pthread_create` fails the bench is `abandoned`: the threads go on with their
  exchanges, and what they would do with the mutex and the totals of the frame that
  is gone is undefined, so that the process may end at any point. `refusing` is
  whether `socket()` fails for a cause outside of the exchanges (external, it comes and
  goes as it likes). `made` is history: how many exchanges of a worker had a result
  above, of, and below 0, and the bytes of the results, which `ReportComplete` compares
  with the totals class by class. `args` is chosen among
  `Commands` in the initial state, which stands for the command lines.
* **Sums, HandlersProofs, BenchEpollProofs, BenchEpollEvents, BenchPollProofs,
  BenchSelectProofs, BenchThreadsProofs, WebBench2Proofs**: theorems and proofs
  (section 4). The inductive invariants are defined beside the models, so that TLC
  checks them as well.
* **MC...**: the module TLC is run on; parameters are in the `.cfg` files.

Beside a definition there may be variants of it whose names say what they get
wrong (`CleanedKeepsSsl`, `TunnelSentNotReset`, `RegisterFirst`, ...). No action
uses them: each is a plausible slip in the code, and replacing the definition by it
must make a property fail. They are how the properties themselves are tested;
`mutants` in `PROJECT.json` says which property each one breaks.

Three places where the engines differ, and the modules with them: the lowest
accepted port (`LowestPort`: the epoll bench refuses port 1), the CONNECT request
(`TunnelSent`: the epoll bench adds `send`'s result as a `size_t`, the poll bench
sends the rest in the next round, the select bench sends from the start and takes
any part for the whole), and connection 0 without a socket (the epoll bench exits,
the poll bench goes round until the clock ends it, the select bench never has one).

### The abstract promise

`BenchClients` has clients whose slot is free, busy or over, two counts for each,
and a report. One attempt of a client runs at a time; an attempt that ends is
counted once, as answered or as failed (a completed forced request not at all); a
client that could not be dialled is never tried again; the report covers every
client once; a bench that aborts reports nothing. Each bench is shown to implement
it by `ImplementsClients`, an INSTANCE with a refinement mapping: `slot` is read
off the connection's state, `count` off its `speed` and `failed`, `closed` off the
report's loop index.

## 3. What the runs show

| Run | Instance | Question |
|---|---|---|
| `epoll_http` | 2 clients, plain HTTP, fairness | registrations, pending events and wakeups agree; `ImplementsClients`; the bench ends; a reset is settled |
| `epoll_tls` | `-c 3` capped to 2 HTTPS clients behind a proxy, one descriptor for them, partial sends and receives, fairness | the inductive invariant of the proofs, with a client that never gets a socket; the shared offsets, the buffer, the TLS object's life; a reset is settled, also in a handshake without a TLS object |
| `epoll_tunnel_whole` | 1 HTTPS client behind a proxy | **violated**: see Findings |
| `epoll_tunnel_end` | 1 HTTPS client behind a proxy | **violated**: see Findings |
| `poll_http` | 2 clients, plain HTTP, fairness | bitmap, array and connections stay paired; nobody is left out of a round but who was dialled anew in it; `ImplementsClients`; liveness |
| `poll_tls` | 2 HTTPS clients behind a proxy, force mode, fairness | the inductive invariant; CONNECT and request go out whole, a TLS object belongs to the current socket; failing `set_bitmap`; a reset is settled, also in a handshake without a TLS object |
| `poll_bitmap` | 2 HTTPS clients | **violated**: see Findings |
| `select_http` | 2 clients, plain HTTP, fairness | connections, descriptors and sets agree through reuse of descriptors; `ImplementsClients`; liveness |
| `select_tls` | 2 HTTPS clients behind a proxy, `FD_SETSIZE` 4, so that descriptor 4 is outside of the sets | the inductive invariant, before and after that descriptor is marked, with any bits behind the sets; which attempts end without being counted |
| `threads` | 2 threads, 2 exchanges each, one descriptor; four command lines over HTTP, HTTPS, proxy, force and both benches | the inductive invariant; nothing leaks or is closed twice, no addition is lost, the report is complete, the bench ends |
| `threads_socket` | 2 threads, two addresses, fairness | **violated**: see Findings |
| `command_line` | every line of up to three words of about fifty, and of up to five of those that decide the version of HTTP | the inductive invariant; what is refused, what is understood, what is sent and what the bench is started with |

Properties, by what they guard against:

* `DescriptorOwnership`: leaks, double closes, two clients on one descriptor.
* `InterestMatchesState`, `EventsCurrent`, `NoLostWakeup` (epoll): an old
  registration behind an `EEXIST`; an event whose pointer or descriptor is no longer
  the client's; an edge lost between DEL and ADD. `ActiveIsRegistered`, a conjunct of
  `Inductive`: an events array smaller than what `epoll_wait` may report.
* `PollPairing`, `WaitersPolled`, `RoundsPolled` (poll): a client handed another one's
  pollfd; a client that waits and is left out of a round, in any state, `CONNECTING`
  included; a round given up.
* `Consistent` (select), that is, types, `DescriptorOwnership` and
  `SetsMatchStates`: a bit set for a socket read for its successor, until a descriptor
  outside of the sets is marked (`InSets`).
* `UncountedWithoutContext` (select): an attempt that ends without a count for any
  reason but a TLS context that could not be made, or while others use one.
* `RequestOnWire`, `AnswersFitBuffer`, `TlsLifecycle`, `TunnelRequestWhole`: the
  protocol of a connection.
* `ImplementsClients`: every attempt counted once, every client reported once.
* `SocketsOwned`, `SendsConnected` (threads): a leak or a double close on one of the
  error paths; a request sent without a socket after an unchecked -1.
* `NoLostAddition`, `ReportComplete` (threads): a race on the totals, a report
  before the last thread, a result in another class than the bench puts it in.
* `OptionsAsAsked`, `RefusedForCause` (command line): an option that undoes or mixes
  with an earlier one, a good port refused for another number's `ERANGE`, a bad one
  let through, a crash for any cause but the two URLs of `Fatal`. They are stated over
  all words at once (`Last`, `Legal`), while the code sees one word at a time.
* `RequestAsAsked`: three rules that raise the version of HTTP one after another, and
  the header for a reload behind a proxy. Without a proxy nothing asks
  for a reload, and it says nothing of one (section 5).
* `HandedOver`: `main` checks nothing between parsing and the bench. The property
  says which legal command lines start a bench that can run; `Runnable` lists what
  a command line must keep to besides being accepted.
* `TunnelEndSettled`: a tunnel awaited on a stream that has ended. `RoundNotGivenUp`:
  a round given up for a client that waits. `NextAddressTried`: a thread kept with an
  address whose `socket()` fails for good. These, and `TunnelRequestWhole` of the epoll
  bench, are violated (section 5).
* `Termination`, `BrokenIsSettled`: liveness.

That the totals of the three single-threaded engines are the sums over their clients,
with nothing left open, is no property of a run of its own: it follows from `Reported`
and `CleanedUp`, conjuncts of the `Inductive` that `epoll_tls`, `poll_tls` and
`select_tls` check, and is proved (the `ReportTheorem` of each). `ActiveIsRegistered`
is another conjunct of the `Inductive` of the epoll bench.

### Bounds, and why they are enough

* Two clients (one where the data is richer): every property is about one client
  or about a pair of them (two owners of a descriptor, the one before and the one
  after in an array, set or bitmap). `Fds` has as many descriptors as clients, so
  that a closed one is always reused at once and by whom the kernel's lowest-free
  rule picks; the runs with one descriptor have `socket()` fail.
* `MaxAttempts`: after so many dials of a client its peer is silent, which bounds
  the counters. Two live attempts and a silent third show state carried from one
  attempt into the next, whether the first was answered, failed or partly sent.
* Sizes of one to three chunks: enough for a partial send or receive, an exact fit
  and a full buffer (`BufferSize` keeps one for the terminating zero).
* `MaxWire` bounds the CONNECT chunks of a tunnel in `BenchEpoll`, where the wrap
  of `bytes_sent` would let them grow. `SizeMod` is 2^64 scaled down to 16; only
  that it exceeds every length matters.
* `IntLimit` and `LongLimit` are 2^20 and 2^24 for 2^31 and 2^63 (TLC's integers
  have 32 bits): numbers below the first, between the two, and beyond the second are
  among the words. `MaxUrlLen` is the code's 1024, with URLs of 1022 to 1024
  characters. Three words hold every pair of options with a URL among them, in
  every order.
* `CharBits` and `PointerBytes` (poll) are 8 and 8; `poll_bitmap` and `poll_tls`
  scale them to 1, so that the second client is past a pointer's bits like the
  65th is in the program. `MaxConnections + 1` is `FD_SETSIZE` in
  `BenchSelect`: 1024 but in `select_tls`, which makes it 4, so that of the
  descriptors 3 and 4 the second is outside of the sets. There CONNECT and the request
  are one chunk each, the select bench taking a part of a CONNECT for the whole anyway;
  that the invariant holds for other lengths is proved.
* One descriptor for two threads makes one of them wait for the other's close and
  then reuse the number; `Addresses = 2` lets the first address fail, and
  `MaxExchanges = 2` carries state from one exchange into the next.
* `Tick` happens once: all the code asks of the clock is whether the time is over.

### Fairness

`FairSpec` is weak fairness of `Bench`, the one thread: every call it makes
returns (sockets are non-blocking, the waits have a timeout), so it takes
its next step. Nothing is assumed of the peers, nor of the clock: `Termination`
says what happens once the time is over, and `BrokenIsSettled` holds without its
help. `SelectSpec` adds strong fairness of `Select`, that is, `select` does not
fail for ever: no signal handler interrupts it and every descriptor in its sets is
open (`DescriptorOwnership`), so only a passing lack of memory is left. That holds as long as every descriptor is within the sets, as in `select_http`,
which uses it: what select is asked about behind them may not be open. Without it
a reset could stay unseen, since `bench_select` does not tell -1 from a timeout.

`FairSpec` of `BenchThreads` is weak fairness of `bench` and of every worker while
it is not in a call that only its peer ends (`AwaitsPeer`: blocking sockets have no
timeout on what they receive, while `connect` and name lookups give up by
themselves). `Termination` therefore has two premises: no worker is kept waiting for
ever by a peer, and `socket()` does not fail for ever for a cause outside of the
threads (`<>[]~refusing`). The second is needed because `Socket()` retries a failed
`socket()` on the same address without a pause or a look at the clock: a retry is a
step that changes nothing, so a lasting failure leaves the worker where it is, which
`threads_socket` shows. Under both premises the bench ends: a descriptor that another
thread holds is closed in the end.

## 4. What is proved

Every safety property that a passing run checks is also a theorem, for every number
of clients, threads, descriptors and words, every length, port and flag. `PROJECT.json`
lists the theorems with the property each one states; in short:

| Module | Theorems |
|---|---|
| `BenchEpollProofs`, `BenchEpollEvents` | `[]Inductive`, and from it `TypeOK`, `DescriptorOwnership`, `InterestMatchesState`, `EventsCurrent`, `NoLostWakeup`, `ActiveIsRegistered`, `RequestOnWire`, `TlsLifecycle`, `AnswersFitBuffer`, `ReportComplete`; `ImplementsClients` |
| `BenchPollProofs` | `[]Inductive`, `DescriptorOwnership`, `PollPairing`, `WaitersPolled`, `RequestOnWire`, `TunnelRequestWhole`, `TlsLifecycle`, `AnswersFitBuffer`, the report; `ImplementsClients`; under a hypothesis, the action property `RoundsPolled` |
| `BenchSelectProofs` | `[]Inductive`, `DescriptorOwnership`, `Consistent`, `RequestOnWire`, `TlsLifecycle`, `ReportComplete`, the action property `UncountedWithoutContext`; under a hypothesis, `ImplementsClients` |
| `BenchThreadsProofs` | `[]Inductive`, `SocketsOwned`, `SendsConnected`, mutual exclusion, `NoLostAddition`, `ReportComplete` |
| `WebBench2Proofs` | `[]Inductive`, `OptionsAsAsked`, `RefusedForCause`, `RequestAsAsked`, `HandedOver` |
| `Sums` | what the sum of a function over a finite set is, and how it changes |

**Assumptions.** Those of the models on their constants, which TLC evaluates on
every run: there is a client, a request is not empty, a buffer has room for a
byte and the terminating zero (`ConnectionAssumption`, `CommunicatorAssumption`);
descriptor 0 is never handed out (`FdsAssumption`), which is what lets the code
take 0 for none; `SIZE_MAX` exceeds the CONNECT request (`BenchEpollAssumption`);
positions fit an unsigned short and a char has a bit (`BenchPollAssumption`,
`BitmapAssumption`); an `int` holds every port (`ArgumentsAssumption`). The bounds
`MaxAttempts` and `MaxExchanges` may be any number.

Two theorems have a hypothesis of their own, and without it a run shows the property
violated or the code does something else than the promise. `RoundTheorem` of the poll
bench asks for plain HTTP or for no more connections than a pointer has bits
(64): beyond them a handshake gives the round up (`poll_bitmap`). With it, a round
that has begun goes by without a poll only when everybody who waits was dialled anew
in it. A round begins only if connection 0 has a socket: without one
`setup_connection_fdsets` fails at once in every round (`AfterHead`), and the theorem
says nothing of such rounds.
`Implementation` of the select bench asks that there are no tunnels: behind one an
attempt can be abandoned without a count, which is no behaviour of `BenchClients`;
`UncountedTheorem` says for every run that nothing else goes uncounted.

`ConsistentTheorem` of the select bench has none, but speaks of the sets only until a
descriptor outside of them is marked. `FD_SET` then writes behind the set, `FD_ZERO`
leaves the bit there (`Zeroed`), and what lies there may be the other set, or anything
else; from then on the model has `select` find any bits (`Ready`), so the theorems about
descriptors, attempts, TLS objects and the report hold whatever a stray bit makes a
handler do (`HandleStray`).

### The event-driven benches

None of the named properties is inductive alone. `Core` is what the loop rests on:
types, `DescriptorOwnership` (what is open is exactly what the clients hold, and no two
hold the same), `Bookkeeping` (the loop index stays in the array, start-up finds
the entries ahead of it untouched, force mode never receives) and what the engine
keeps about readiness. The rest of `Inductive` is built on it:

* *Attempts.* `AttemptsInOrder` adds to `RequestOnWire` and `TlsLifecycle` that
  tunnel and handshake are steps of an HTTPS run and that `bytes_sent` is 0 again
  wherever the request is about to be sent. `TunnelsInOrder` (poll) and
  `TunnelsUncounted` (select) say what the counter is during a tunnel.
* *Answers.* `AnswersFitBuffer` is inductive given `Core`. The select bench has no
  such theorem because the property is false of it: an answer that fills the
  buffer adds no bytes (section 5).
* *Report.* `Reported` says that the totals are the sum over the connections the
  report has passed; one more is one more element (`Sums`).

`HandlersProofs` shows once for all engines that every case of
`handle_ready_connection` makes of a waiting connection an `Outcome` (it waits on
with its counts unchanged, or it is over and exactly one count has grown by one),
that it keeps the attempt in order, and that dialling, cleaning up and reporting keep
the descriptors owned. An engine's proof adds its own tunnel and its own loop, one
lemma per action; its refinement uses only the `Outcome` of a handler. In the select
bench `GivenUp` is a further outcome, the abandoned attempt.

* *epoll.* An event may be dereferenced because it was reported for a registration,
  and a registration carries its client's pointer; handling one event removes only its
  own registration because no two clients share a descriptor. No wakeup is lost
  because ADD looks at the socket again. `active_fds` is inductive as a count of
  the registrations of the connections that setup has passed (`Counting`).
* *poll.* `set_bitmap` marks its position and no other (`SetMarks`, from the
  uniqueness of quotient and remainder, for every width of a char), so the marked
  connections before `i` are a set that grows by its last element, and the k-th entry
  of the array is the one with k - 1 marked ones before it (`RankNext`,
  `RankAdded`, `RoundBuilt`). A round that `set_bitmap` fails leaves the array empty.
* *select.* A closed descriptor's bit can be set and its number reused in the same
  pass; `SetsFilled` says of every place of the loop whose bits may be set, so that the
  restarted connection's are its own. `max_fd` only grows, so that `InSets` of a later
  state is `InSets` of the state before.

### The threaded benches

`MutexHeld`: the mutex is held by exactly the worker between `lock` and `unlock`, and
what a worker has read is still what the totals are when it writes. With it
`TotalsStored` is inductive: the totals are the sum of the local counts of the
workers that have stored them, or of the cells that `bench_with_no_racing` has passed.
`CountsMade` ties a worker's counts to the results it has had, class by class (`Owed`), `Progress` the main
thread's loops to the places of the workers; together they are `ReportComplete`.
Sockets are owned because a call holds one from `connect` until it closes it
(`CallsOrdered`), whichever step fails.

### The command line

`OptionsAsAsked` speaks of all words read so far through `Last`, a CHOOSE; one word
more either is the last of its kinds or leaves the last where it was
(`LastMoves`), and `OptionsRead` follows for each field. Existence of a last word is an
induction over their number (`SetInduction`). `RefusedForCause` needs `Accepted`: a
number that does not end the program leaves `errno` at 0, so the URL's port, read
into an `errno` nobody clears, is judged by itself. `HandedOver` follows
from what the options and the URL have set (`UrlAsAsked`).

### Sums

The totals are `SumFunctionOnSet`, a fold that the library defines by recursion on the
set. The induction theorems of the library take an operator as a parameter, which
the provers cannot instantiate; `SetInduction` is the same for a set of naturals,
derived from the well-foundedness of `<`. From it `Sums` proves that the recursion has
one solution and that the order of the elements makes no difference, and from
that `SumOfOneMore`, `SumOfChanged`, `SumOfBoth`.

**Only model-checked:** liveness (`Termination`, `BrokenIsSettled`: fairness and
ENABLED are beyond the prover). The properties of the four runs that expect a
violation are refuted, by TLC.

## 5. Findings

* `epoll_tunnel_whole`: `send_proxy_connect` in `src/bench_epoll.c:158` keeps the
  result of `send()` in a `size_t`, so `bytes_sent <= 0` misses -1; an EAGAIN or an
  error adds SIZE_MAX to `conn->bytes_sent`, the sum passes for a complete request
  and the function returns 1, "The whole request has been sent." The run shows a
  connection waiting for the proxy's answer with nothing of the request sent. The
  poll bench uses `ssize_t` and keeps the promise (`poll_tls`).
* `epoll_tunnel_end`: `recv()` that returns 0, the end of the proxy's stream, sets no
  `errno`, but `handle_proxy_response` (`src/bench_epoll.c:246`) asks `errno` whether
  to fail or to wait: "Means it is not an acutally error, just re-try next time." With
  an EAGAIN left by an earlier call, of this or of another connection, the client
  waits on for a proxy that has closed, woken in every round by the end it does not
  see, until some other call fails. The poll and select benches decide the same way.
* `poll_bitmap`: the handshake case of `setup_connection_fdsets`
  (`src/bench_poll.c:457`) passes `sizeof(conn_setup_bitmap)`, the size of a
  pointer, where `bitmap.h` wants the number of chars. With more than 64 HTTPS
  clients a handshake of a later one makes `set_bitmap` fail, and no client is
  polled in that round nor in any later one.
* `threads_socket`: after a failed `socket()`, `continue; // Try next address.`
  (`src/communicator.c:170`) skips `rp = rp->ai_next`, so that the same address is tried
  again. If `socket()` fails for good, the thread never looks at the clock again, and
  the join of its bench never ends.

Further places where a text of the repository says something else than the code does.
They follow from one definition each, without a run of their own:

* `bench_worker_no_racing` takes only `ret > 0` for a success (`src/bench2.c:62`), while
  `communicator.h:31` says that zero "means successful communication with force mode"
  and `bench_worker` counts it as one: in force mode `bench_with_no_racing` reports
  nothing but failures (`Counted`).
* `communicate` returns the number of bytes received (`src/communicator.c:311`), which is
  0 when an HTTP server closes without an answer or `recv` fails before a byte, also
  without force mode; `communicator.h:29-34` keeps 0 for force mode and has negative
  numbers for what failed. `bench` counts such an exchange as answered. `ReportComplete`
  keeps results above, of, and below 0 apart, by what each bench makes of them.
* `build_request` adds the no-cache header only behind a proxy (`src/request.c:92`); the
  usage text promises "Send reload request - Pragma: no-cache." for `-r` without that
  condition (`src/arguments.c:230`), and behind a proxy HTTP/1.1 sends Cache-Control
  instead (`HeadersOf`).
* A number that exceeds an `int` is accepted and cut to it (`src/arguments.c:122`, `:180`),
  which may leave a bench without clients or time, where the usage text
  (`src/arguments.c:231`, `:233`) promises `<sec>` seconds and `<n>` clients (`ToInt`).

Behaviour that is modelled as it is and that no text of the repository
contradicts: `bench_select` caps connections at `FD_SETSIZE - 1` while `FD_SET` is
indexed by descriptors; the results of `setup_ssl_context` that are ignored behind
a tunnel (a handshake whose events nobody wants, until the run ends); attempts
abandoned by `bench_select` without a count, and its answers that fill the buffer
and add no bytes; SIGPIPE on a
write to a reset connection, which ends the program without a report; a bench
whose connection 0 has no socket; threads left running when `pthread_create` fails.
On the command line: a number's trailing letters are
ignored (`-c 10abc`); ports beyond 65535 are accepted, and a proxy with one is
silently not used; a colon in the path of a URL without a port leaves no host;
`http://` alone ends in a crash, and a URL's port of ten or more characters overruns
`port_str` before it can be refused; an HTTP/0.9 request has no line end, so that a
server may wait for the rest of its line (the usage text says only "HTTP/0.9 style
requests"); HTTPS behind a proxy names the whole URL and sends
no `Host`.

## 6. What is not modelled

* `usleep` at the end of a round, the decay of `select_timeout`, and the `nfds` of
  `poll` and `select`: they change how long a round takes or how far the kernel looks, and
  with them a round still reports what is ready.
* `create_nonblocking_socket`'s loop over the addresses of `getaddrinfo`: it ends
  with a socket that is connecting, or with none; both are outcomes of a dial. A
  connection that is established or refused at once is an arrival before the next
  step.
* Decrypted bytes kept inside a TLS object: a receive may drain the socket and
  leave the headers unfinished, which has the same effect on the loop.
* The text of requests and answers: whether an answer holds the end of its headers
  or the proxy's 200 line is a choice of the peer.
* The width of counters other than `bytes_sent` in `send_proxy_connect`.
* Names that do not fit the arrays they are copied to, and what may follow. Of a port's
  text in a URL that does not fit, only that the process may die or read it as it is.
* What lies behind the `fd_set`s of `bench_select` but bits: a descriptor beyond
  `FD_SETSIZE` may as well overwrite other variables of the frame, or end the process
  (`_FORTIFY_SOURCE`).
* Messages printed to the terminal; the tests, the playground and the build.

## 7. Plan

Done: the three event-driven benches over their bitmap and descriptor sets, the
abstract promise, the threaded benches, the command line up to the call of the
bench, and proofs of all their safety properties. Left, in this order:

1. An abstract promise for the threaded benches (every exchange counted once, the
   report once), with a refinement mapping, so that the threaded and the event-driven
   benches are measured by the same report.
2. `EAGAIN` left by one connection and read by another (`TunnelEndSettled`): what the
   benches guarantee if `errno` were cleared.
