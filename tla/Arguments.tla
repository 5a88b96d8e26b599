----------------------------- MODULE Arguments ------------------------------
(***************************************************************************)
(* arguments.c: set_arguments_values reads the options one after another   *)
(* into the Arguments record, then the URL.  A word of the command line is *)
(* a record of what the code can tell of its text; a number is what strtol *)
(* finds in it.  Texts fit the arrays they are copied to, the port of a    *)
(* URL excepted.                                                           *)
(***************************************************************************)
EXTENDS Integers, Sequences

CONSTANTS
    CommandLines,  \* the argv a process may be started with, without argv[0]
    IntLimit,      \* an int is at least -IntLimit and below IntLimit
    LongLimit,     \* the same of a long
    MaxUrlLen,     \* MAX_URL_LEN
    Hosts,         \* the texts that stand for a host
    NoHost,        \* the empty one
    Loopback       \* 127.0.0.1

Flags == {"force", "reload", "http09", "http10", "http11", "get", "head", "options", "trace",
          "help", "version"}
Numeral == [digits : BOOLEAN, value : Int]
\* Where the colon is that a port follows: nowhere, at the end, before some text.
Port == [colon : {"none", "last", "inside"}, number : Numeral]
Word ==
    [kind : Flags]
    \cup [kind : {"time", "clients"}, number : Numeral]
    \cup [kind : {"proxy"}, host : Hosts, port : Port]
    \cup [kind : {"url"}, scheme : {"http", "https", "other"},
          bare : BOOLEAN,     \* nothing follows the first "://"
          host : Hosts, port : Port,
          late : BOOLEAN,     \* the first colon comes behind the first slash
          ends : BOOLEAN,     \* the text ends with a slash
          fits : BOOLEAN,     \* the port's text is shorter than port_str; one that
                              \* is no long is not
          length : Nat]

ASSUME ArgumentsAssumption ==
    /\ CommandLines \subseteq Seq(Word)
    /\ IntLimit \in Nat /\ LongLimit \in Nat /\ 65535 < IntLimit /\ IntLimit < LongLimit
    /\ MaxUrlLen \in Nat \ {0}
    /\ {NoHost, Loopback} \subseteq Hosts /\ NoHost # Loopback

VARIABLES
    pc,     \* where the process is
    argv,   \* its command line
    k,      \* the next word getopt_long looks at
    args,   \* the Arguments record
    errno   \* "0", or what the last strtol left

argumentVars == <<pc, argv, k, args, errno>>

VersionsLiteral == [http09 |-> 9, http10 |-> 10, http11 |-> 11]
Versions == [http09 |-> 0, http10 |-> 1, http11 |-> 2]
Methods == {"get", "head", "options", "trace"}

ArgumentsRecord ==
    [clients : Int, bench_time : Int, force : BOOLEAN, force_reload : BOOLEAN,
     proxy_host : Hosts, proxy_port : Int, target_host : Hosts, target_port : Int,
     protocol : {"http", "https"}, http10 : 0 .. 2, method : Methods]

create_default_arguments ==
    [clients |-> 1, bench_time |-> 30, force |-> FALSE, force_reload |-> FALSE,
     proxy_host |-> NoHost, proxy_port |-> 80, target_host |-> NoHost, target_port |-> 80,
     protocol |-> "http", http10 |-> 2, method |-> "get"]

-----------------------------------------------------------------------------
(* strtol, and the cast of its result.                                      *)

OutOfRange(n) == n.digits /\ (n.value >= LongLimit \/ n.value < -LongLimit)
Strtol(n) == IF ~n.digits THEN 0
             ELSE IF n.value >= LongLimit THEN LongLimit - 1
             ELSE IF n.value < -LongLimit THEN -LongLimit ELSE n.value
ToInt(l) == ((l + IntLimit) % (2 * IntLimit)) - IntLimit

\* errno after a strtol that finds it as e, and whether the result is refused.
ErrnoAfter(n, e) == IF OutOfRange(n) THEN "ERANGE" ELSE e
RefusedUnranged(n, e) == ~n.digits \/ Strtol(n) <= 0
RefusedNegatives(n, e) == ErrnoAfter(n, e) # "0" \/ ~n.digits \/ Strtol(n) < 0
Refused(n, e) == ErrnoAfter(n, e) # "0" \/ ~n.digits \/ Strtol(n) <= 0

-----------------------------------------------------------------------------
(* The loop over the options.                                               *)

Reading(kinds) == /\ pc = "options" /\ k <= Len(argv) /\ argv[k].kind \in kinds
                  /\ k' = k + 1
                  /\ UNCHANGED argv

\* getopt_long moves the words that are no options behind the options.
SkipWord == Reading({"url"}) /\ UNCHANGED <<pc, args, errno>>

TakeFlag ==
    /\ Reading(Flags \ {"help", "version"})
    /\ LET kind == argv[k].kind IN
       args' = IF kind = "force" THEN [args EXCEPT !.force = TRUE]
               ELSE IF kind = "reload" THEN [args EXCEPT !.force_reload = TRUE]
               ELSE IF kind \in Methods THEN [args EXCEPT !.method = kind]
               ELSE [args EXCEPT !.http10 = Versions[kind]]
    /\ UNCHANGED <<pc, errno>>

\* "help" stands for -h, -? and whatever getopt_long does not understand.
TakeExit == Reading({"help", "version"}) /\ pc' = "exit" /\ UNCHANGED <<args, errno>>

TakeNumber ==
    /\ Reading({"time", "clients"})
    /\ LET n == argv[k].number
           value == ToInt(Strtol(n)) IN
       /\ errno' = ErrnoAfter(n, "0")
       /\ IF Refused(n, "0") THEN pc' = "exit" /\ UNCHANGED args
          ELSE /\ args' = IF argv[k].kind = "time" THEN [args EXCEPT !.bench_time = value]
                          ELSE [args EXCEPT !.clients = value]
               /\ UNCHANGED pc

TakeProxyKeepsPort ==
    /\ Reading({"proxy"})
    /\ LET w == argv[k]
           n == w.port.number IN
       IF w.port.colon # "inside"
       THEN args' = [args EXCEPT !.proxy_host = w.host] /\ UNCHANGED <<pc, errno>>
       ELSE /\ errno' = ErrnoAfter(n, "0")
            /\ IF Refused(n, "0") THEN pc' = "exit" /\ UNCHANGED args
               ELSE /\ args' = [args EXCEPT
                          !.proxy_host = IF w.host = NoHost THEN Loopback ELSE w.host,
                          !.proxy_port = ToInt(Strtol(n))]
                    /\ UNCHANGED pc

\* "host", "host:", "host:port" or ":port".
TakeProxy ==
    /\ Reading({"proxy"})
    /\ LET w == argv[k]
           n == w.port.number IN
       IF w.port.colon # "inside"
       THEN /\ args' = [args EXCEPT !.proxy_host = w.host, !.proxy_port = 80]
            /\ UNCHANGED <<pc, errno>>
       ELSE /\ errno' = ErrnoAfter(n, "0")
            /\ IF Refused(n, "0") THEN pc' = "exit" /\ UNCHANGED args
               ELSE /\ args' = [args EXCEPT
                          !.proxy_host = IF w.host = NoHost THEN Loopback ELSE w.host,
                          !.proxy_port = ToInt(Strtol(n))]
                    /\ UNCHANGED pc

-----------------------------------------------------------------------------
(* The URL: the first word that is no option.                               *)

IsFirstUrl(j) == /\ j \in DOMAIN argv /\ argv[j].kind = "url"
                 /\ \A l \in DOMAIN argv : l < j => argv[l].kind # "url"

EndOfOptions ==
    /\ pc = "options" /\ k > Len(argv)
    /\ pc' = IF \E j \in DOMAIN argv : IsFirstUrl(j) THEN "url" ELSE "exit"
    /\ UNCHANGED <<argv, k, args, errno>>

\* A slash is appended where the array has room for one.
EndsWithSlash(u) == u.ends \/ u.length + 1 < MaxUrlLen
Supported(u) == u.length < MaxUrlLen /\ u.scheme # "other" /\ EndsWithSlash(u)

ForScheme(u) == IF u.scheme = "https"
                THEN [args EXCEPT !.protocol = "https", !.target_port = 443] ELSE args

\* Nothing follows "://": strncpy is given the distance from a null pointer.  A port's
\* text that does not fit port_str is written over what lies behind it.
Fatal(u) == u.bare \/ (u.port.colon # "none" /\ ~u.fits)

\* set_arguments_from_url reads the port into an errno it does not clear; a URL
\* without a port whose first colon is in its path sets no host.  A port's text that does
\* not fit may still be read as it is, a bare URL never.
TakeUrl ==
    /\ pc = "url"
    /\ \E j \in DOMAIN argv : IsFirstUrl(j) /\ LET u == argv[j]
                                                   n == u.port.number IN
         \/ /\ ~Supported(u)
            /\ pc' = "exit" /\ UNCHANGED <<args, errno>>
         \/ /\ Supported(u) /\ ~u.bare /\ u.port.colon = "none"
            /\ args' = IF u.late THEN ForScheme(u)
                       ELSE [ForScheme(u) EXCEPT !.target_host = u.host]
            /\ pc' = "request" /\ UNCHANGED errno
         \/ /\ Supported(u) /\ ~u.bare /\ u.port.colon # "none"
            /\ errno' = ErrnoAfter(n, errno)
            /\ IF Refused(n, errno) THEN pc' = "exit" /\ UNCHANGED args
               ELSE /\ args' = [ForScheme(u) EXCEPT !.target_host = u.host,
                                                    !.target_port = ToInt(Strtol(n))]
                    /\ pc' = "request"
         \/ /\ Supported(u) /\ Fatal(u)
            /\ pc' = "crash" /\ UNCHANGED <<args, errno>>
    /\ UNCHANGED <<argv, k>>

set_arguments_values ==
    \/ SkipWord \/ TakeFlag \/ TakeExit \/ TakeNumber \/ TakeProxy
    \/ EndOfOptions \/ TakeUrl
=============================================================================
