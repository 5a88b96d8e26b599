----------------------------- MODULE WebBench2 ------------------------------
(***************************************************************************)
(* webbench2.c: main reads the command line, builds the request and hands  *)
(* both to a bench.  What the bench is told is the constants of Connection *)
(* from then on.                                                           *)
(***************************************************************************)
EXTENDS Request, FiniteSets

VARIABLE request  \* http_request, none before it is built

vars == <<argumentVars, request>>

NoRequest == [method |-> "get", target |-> "/", version |-> 0, headers |-> {},
              ended |-> FALSE]

TypeOK ==
    /\ pc \in {"start", "options", "url", "request", "bench", "exit", "crash"}
    /\ argv \in Seq(Word)
    /\ k \in 1 .. Len(argv) + 1
    /\ args \in ArgumentsRecord
    /\ errno \in {"0", "ERANGE"}
    /\ request \in HTTPRequest

Init ==
    /\ pc = "start" /\ argv \in CommandLines /\ k = 1
    /\ args = create_default_arguments
    /\ errno = "0"
    /\ request = NoRequest

\* Without a word on the command line main prints the usage.
Start ==
    /\ pc = "start"
    /\ pc' = IF argv = <<>> THEN "exit" ELSE "options"
    /\ UNCHANGED <<argv, k, args, errno, request>>

BuildRequest ==
    /\ pc = "request"
    /\ args' = [args EXCEPT !.http10 = Adjusted(args)]
    /\ request' = RequestOf(args')
    /\ pc' = "bench"
    /\ UNCHANGED <<argv, k, errno>>

Terminated == pc \in {"bench", "exit", "crash"} /\ UNCHANGED vars

Next == \/ Start
        \/ set_arguments_values /\ UNCHANGED request
        \/ BuildRequest
        \/ Terminated

Spec == Init /\ [][Next]_vars

-----------------------------------------------------------------------------
(* What the first n words of a command line ask for: of several options    *)
(* that set the same thing the last one counts.                             *)

Given(words, n, kinds) == \E j \in 1 .. n : words[j].kind \in kinds
IsLast(words, n, kinds, j) == /\ words[j].kind \in kinds
                              /\ \A l \in 1 .. n : words[l].kind \in kinds => l <= j
Last(words, n, kinds) == CHOOSE j \in 1 .. n : IsLast(words, n, kinds, j)

\* value is what Of says of the last of the words of these kinds.
Set(words, n, kinds, value, Of(_), default) ==
    value = IF Given(words, n, kinds) THEN Of(words[Last(words, n, kinds)]) ELSE default

NumberOf(w) == ToInt(w.number.value)
ProxyHostOf(w) == IF w.host = NoHost /\ w.port.colon = "inside" THEN Loopback ELSE w.host
ProxyPortOf(w) == IF w.port.colon = "inside" THEN ToInt(w.port.number.value) ELSE 80
KindOf(w) == w.kind
VersionOf(w) == Versions[w.kind]

OptionsAsked(a, words, n) ==
    /\ Set(words, n, {"clients"}, a.clients, NumberOf, 1)
    /\ Set(words, n, {"time"}, a.bench_time, NumberOf, 30)
    /\ Set(words, n, {"proxy"}, a.proxy_host, ProxyHostOf, NoHost)
    /\ Set(words, n, {"proxy"}, a.proxy_port, ProxyPortOf, 80)
    /\ Set(words, n, Methods, a.method, KindOf, "get")
    /\ a.force <=> Given(words, n, {"force"})
    /\ a.force_reload <=> Given(words, n, {"reload"})

VersionAsked(version, words, n) == Set(words, n, DOMAIN Versions, version, VersionOf, 2)

\* A number that can be refused only for itself.
Good(number) == number.digits /\ 0 < number.value /\ number.value < LongLimit

LegalOption(w) ==
    /\ w.kind \notin {"help", "version"}
    /\ w.kind \in {"time", "clients"} => Good(w.number)
    /\ w.kind = "proxy" /\ w.port.colon = "inside" => Good(w.port.number)

LegalUrl(u) == /\ Supported(u)
               /\ ~u.bare /\ u.port.colon # "none" => Good(u.port.number)

Legal == /\ \A j \in DOMAIN argv : LegalOption(argv[j])
         /\ \E j \in DOMAIN argv : IsFirstUrl(j) /\ LegalUrl(argv[j])

-----------------------------------------------------------------------------
(* Safety.                                                                  *)

\* The loop of set_arguments_values: whatever the order of the options, and
\* however often one is repeated, the record holds what the last of each asks for,
\* a proxy's host and port from the same option; build_request changes only the
\* version.
OptionsAsAsked ==
    /\ pc \in {"options", "url", "request", "bench"} => OptionsAsked(args, argv, k - 1)
    /\ pc \in {"options", "url", "request"} => VersionAsked(args.http10, argv, k - 1)

\* A command line is refused exactly when something in it is wrong: no port is
\* refused for the errno another number left (arguments.c:302), no bad one gets
\* through to the bench.  The process dies of nothing but a URL that is cut off or
\* whose port's text does not fit (arguments.c:259, 288), with all options in order.
RefusedForCause ==
    /\ pc = "exit" => ~Legal
    /\ pc \in {"request", "bench"} => Legal
    /\ pc = "crash" =>
          /\ \A j \in DOMAIN argv : LegalOption(argv[j])
          /\ \E j \in DOMAIN argv : IsFirstUrl(j) /\ Supported(argv[j]) /\ Fatal(argv[j])

\* build_request: the method asked for is sent in a version of HTTP that knows it,
\* newer than the one asked for only if it has to be.  Behind a proxy a reload is
\* asked for with the one header of that version; without a proxy nothing asks for
\* it (request.c:92).
RequestAsAsked ==
    pc = "bench" =>
        /\ request.method = args.method /\ request.version = args.http10
        /\ \E asked \in 0 .. 2 :
              /\ VersionAsked(asked, argv, Len(argv))
              /\ request.version >= asked
              /\ request.version > asked =>
                    \/ request.method \in {"options", "trace"} /\ request.version = 2
                    \/ request.version = 1 /\ (request.method = "head" \/ args.force_reload)
        /\ request.method = "head" => request.version >= 1
        /\ request.method \in {"options", "trace"} => request.version = 2
        /\ args.force_reload /\ args.proxy_host # NoHost =>
              Cardinality(request.headers \cap {"Pragma", "Cache-Control"}) = 1
        /\ request.headers # {} => request.ended

-----------------------------------------------------------------------------
(* The bench that main starts.                                              *)

Bench == INSTANCE Connection WITH
    Clients <- args.clients, MaxConnections <- 1000,
    Https <- args.protocol = "https", Forced <- args.force,
    ProxyHost <- args.proxy_host # NoHost, ProxyPort <- args.proxy_port,
    TargetHost <- args.target_host # NoHost, TargetPort <- args.target_port,
    RequestLen <- 1, ConnectLen <- 1, BufferSize <- 8096,
    LowestPort <- 2, HighestProxy <- 65535

\* bench_epoll.c: it has connections and time, each connection has an address to
\* dial, and behind a proxy the tunnel can be asked for.
CanRun ==
    /\ Bench!NumConnections > 0 /\ args.bench_time > 0
    /\ Bench!Dialable
    /\ args.proxy_host # NoHost => Bench!NeedProxy
    /\ args.proxy_host # NoHost /\ args.protocol = "https" => Bench!TunnelRequestable

\* What the command line must keep to besides being legal.
IsPort(number) == 1 < number.value /\ number.value <= 65535
Runnable ==
    \A j \in DOMAIN argv :
        /\ argv[j].kind \in {"time", "clients"} => argv[j].number.value < IntLimit
        /\ argv[j].kind = "proxy" /\ argv[j].port.colon = "inside" =>
              IsPort(argv[j].port.number)
        /\ IsFirstUrl(j) =>
              /\ argv[j].host # NoHost /\ ~argv[j].bare
              /\ argv[j].port.colon = "none" => ~argv[j].late
              /\ argv[j].port.colon # "none" => IsPort(argv[j].port.number)

\* main checks nothing between set_arguments_values and bench_epoll: a legal
\* command line starts a bench that can run if its numbers fit an int, its ports
\* exist, and its URL names a host with no colon behind it but the port's.
HandedOver == pc = "bench" /\ Runnable => CanRun

-----------------------------------------------------------------------------
(* The inductive invariant.                                                 *)

\* A number that does not make the program exit leaves errno as it was, so that it is
\* still clear when the URL's port is read.
Accepted ==
    /\ pc \in {"start", "options", "url"} => errno = "0"
    /\ pc \in {"options", "url"} => \A j \in 1 .. k - 1 : LegalOption(argv[j])
    /\ pc \in {"url", "request", "bench"} => k = Len(argv) + 1
    /\ pc = "start" => k = 1 /\ args = create_default_arguments

\* What the URL sets, and that no option does.
UrlAsked(a, u) ==
    /\ ~u.bare /\ a.protocol = u.scheme
    /\ a.target_host = IF u.late /\ u.port.colon = "none" THEN NoHost ELSE u.host
    /\ a.target_port = IF u.port.colon # "none" THEN ToInt(u.port.number.value)
                       ELSE IF u.scheme = "https" THEN 443 ELSE 80
UrlAsAsked ==
    /\ pc \in {"start", "options", "url"} =>
          args.protocol = "http" /\ args.target_host = NoHost /\ args.target_port = 80
    /\ pc \in {"request", "bench"} =>
          \E j \in DOMAIN argv : IsFirstUrl(j) /\ UrlAsked(args, argv[j])

Inductive ==
    /\ TypeOK /\ Accepted /\ OptionsAsAsked /\ UrlAsAsked
    /\ RefusedForCause /\ RequestAsAsked
    /\ pc = "bench" => request = RequestOf(args)
=============================================================================
