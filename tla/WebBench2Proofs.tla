-------------------------- MODULE WebBench2Proofs ---------------------------
(***************************************************************************)
(* Theorems about the command line for every line of words, whatever their *)
(* number and order: what is refused, what the record of arguments holds,  *)
(* what is sent, and that the bench main starts can run.                   *)
(***************************************************************************)
EXTENDS WebBench2, Sums

-----------------------------------------------------------------------------
(* The last of the words of some kinds.                                     *)

\* Of the words of some kinds among the first n, if there are any, one is the last.
LEMMA LastExists ==
    ASSUME NEW words, NEW kinds, NEW n \in Nat, Given(words, n, kinds)
    PROVE  \E j \in 1 .. n : IsLast(words, n, kinds, j)
<1> DEFINE S == {m \in Nat : Given(words, m, kinds) => \E j \in 1 .. m : IsLast(words, m, kinds, j)}
<1>1. 0 \in S
  BY DEF Given
<1>2. ASSUME NEW m \in Nat, m \in S PROVE m + 1 \in S
  <2> SUFFICES ASSUME Given(words, m + 1, kinds)
               PROVE  \E j \in 1 .. m + 1 : IsLast(words, m + 1, kinds, j)
    OBVIOUS
  <2>1. CASE words[m + 1].kind \in kinds
    <3>1. m + 1 \in 1 .. m + 1 /\ IsLast(words, m + 1, kinds, m + 1)
      BY <2>1 DEF IsLast
    <3> QED BY <3>1
  <2>2. CASE words[m + 1].kind \notin kinds
    <3>1. \A j \in 1 .. m + 1 : words[j].kind \in kinds => j \in 1 .. m
      BY <2>2
    <3>2. Given(words, m, kinds)
      BY <3>1 DEF Given
    <3>3. PICK j \in 1 .. m : IsLast(words, m, kinds, j)
      BY <1>2, <3>2
    <3>4. j \in 1 .. m + 1 /\ IsLast(words, m + 1, kinds, j)
      BY <3>1, <3>3 DEF IsLast
    <3> QED BY <3>4
  <2> QED BY <2>1, <2>2
<1> HIDE DEF S
<1>3. n \in S
  BY <1>1, <1>2, SetInduction
<1> QED BY <1>3 DEF S

\* It is the only one.
LEMMA LastIs ==
    ASSUME NEW words, NEW kinds, NEW n \in Nat, NEW j \in 1 .. n, IsLast(words, n, kinds, j)
    PROVE  Last(words, n, kinds) = j
<1>1. /\ Last(words, n, kinds) \in 1 .. n /\ IsLast(words, n, kinds, Last(words, n, kinds))
  BY DEF Last
<1> QED BY <1>1 DEF IsLast

LEMMA LastGiven ==
    ASSUME NEW words, NEW kinds, NEW n \in Nat, Given(words, n, kinds)
    PROVE  /\ Last(words, n, kinds) \in 1 .. n
           /\ words[Last(words, n, kinds)].kind \in kinds
BY LastExists, LastIs DEF IsLast

\* A word of these kinds is the last one until the next.
LEMMA LastTaken ==
    ASSUME NEW words, NEW kinds, NEW n \in Nat \ {0}, words[n].kind \in kinds
    PROVE  Given(words, n, kinds) /\ Last(words, n, kinds) = n
<1>1. n \in 1 .. n /\ IsLast(words, n, kinds, n)
  BY DEF IsLast
<1> QED BY <1>1, LastIs DEF Given, IsLast

LEMMA LastLeft ==
    ASSUME NEW words, NEW kinds, NEW n \in Nat \ {0}, words[n].kind \notin kinds
    PROVE  /\ Given(words, n, kinds) <=> Given(words, n - 1, kinds)
           /\ Given(words, n - 1, kinds) => Last(words, n, kinds) = Last(words, n - 1, kinds)
<1>1. \A j \in 1 .. n : words[j].kind \in kinds => j \in 1 .. n - 1
  <2>1. \A j \in 1 .. n : j # n => j \in 1 .. n - 1
    OBVIOUS
  <2> QED BY <2>1
<1>2. \A j \in 1 .. n - 1 : j \in 1 .. n
  OBVIOUS
<1>3. Given(words, n, kinds) <=> Given(words, n - 1, kinds)
  BY <1>1, <1>2 DEF Given
<1>4. ASSUME Given(words, n - 1, kinds)
      PROVE  Last(words, n, kinds) = Last(words, n - 1, kinds)
  <2>0. n - 1 \in Nat
    OBVIOUS
  <2>1. PICK j \in 1 .. n - 1 : IsLast(words, n - 1, kinds, j)
    BY <1>4, <2>0, LastExists
  <2>2. j \in 1 .. n /\ IsLast(words, n, kinds, j)
    BY <1>1, <1>2, <2>1 DEF IsLast
  <2>3. Last(words, n, kinds) = j
    BY <2>2, LastIs
  <2>4. Last(words, n - 1, kinds) = j
    BY <2>0, <2>1, LastIs
  <2> QED BY <2>3, <2>4
<1> QED BY <1>3, <1>4

-----------------------------------------------------------------------------
(* Words, numbers and the record.                                           *)

LEMMA Limits == IntLimit \in Nat /\ LongLimit \in Nat /\ 65535 < IntLimit /\ IntLimit < LongLimit
BY ArgumentsAssumption
LEMMA HostTexts == NoHost \in Hosts /\ Loopback \in Hosts /\ NoHost # Loopback
BY ArgumentsAssumption

LEMMA WordFields ==
    ASSUME NEW w \in Word
    PROVE  /\ w.kind \in Flags \cup {"time", "clients", "proxy", "url"}
           /\ w.kind \in {"time", "clients"} => w.number \in Numeral
           /\ w.kind = "proxy" => w.host \in Hosts /\ w.port \in Port
           /\ w.kind = "url" => /\ w.host \in Hosts /\ w.port \in Port
                                /\ w.scheme \in {"http", "https", "other"}
                                /\ w.bare \in BOOLEAN /\ w.late \in BOOLEAN /\ w.ends \in BOOLEAN
                                /\ w.length \in Nat
BY DEF Word, Flags

LEMMA ToIntType ==
    ASSUME NEW l \in Int
    PROVE  /\ ToInt(l) \in Int
           /\ 0 < l /\ l < IntLimit => ToInt(l) = l
<1>1. l + IntLimit \in Int /\ 2 * IntLimit \in Nat /\ 2 * IntLimit > 0
  BY Limits
<1>2. (l + IntLimit) % (2 * IntLimit) \in Int
  BY <1>1
<1>3. ASSUME 0 < l, l < IntLimit PROVE (l + IntLimit) % (2 * IntLimit) = l + IntLimit
  BY <1>1, <1>3, Limits
<1> QED BY <1>2, <1>3, Limits DEF ToInt

\* With a clear errno a number is refused exactly if it is not good, and a number that
\* is not refused is what was written.
LEMMA RefusedIsBad ==
    ASSUME NEW n \in Numeral
    PROVE  /\ Refused(n, "0") <=> ~Good(n)
           /\ ErrnoAfter(n, "0") \in {"0", "ERANGE"} /\ ToInt(Strtol(n)) \in Int
           /\ ~Refused(n, "0") => Strtol(n) = n.value /\ ErrnoAfter(n, "0") = "0"
<1>1. n.digits \in BOOLEAN /\ n.value \in Int
  BY DEF Numeral
<1>2. Strtol(n) \in Int
  BY <1>1, Limits DEF Strtol
<1>3. Refused(n, "0") <=> OutOfRange(n) \/ ~n.digits \/ Strtol(n) <= 0
  BY DEF Refused, ErrnoAfter
<1>4. ~OutOfRange(n) /\ n.digits => Strtol(n) = n.value
  BY <1>1 DEF OutOfRange, Strtol
<1>5. Refused(n, "0") <=> ~Good(n)
  BY <1>1, <1>3, <1>4, Limits DEF Good, OutOfRange
<1> QED BY <1>2, <1>3, <1>4, <1>5, ToIntType DEF ErrnoAfter

RecordFields(a) ==
    /\ a.clients \in Int /\ a.bench_time \in Int /\ a.force \in BOOLEAN
    /\ a.force_reload \in BOOLEAN /\ a.proxy_host \in Hosts /\ a.proxy_port \in Int
    /\ a.target_host \in Hosts /\ a.target_port \in Int /\ a.protocol \in {"http", "https"}
    /\ a.http10 \in 0 .. 2 /\ a.method \in Methods

LEMMA RecordHas ==
    ASSUME NEW a \in ArgumentsRecord PROVE RecordFields(a)
BY DEF ArgumentsRecord, RecordFields

LEMMA RecordSets ==
    ASSUME NEW a \in ArgumentsRecord, NEW h \in Hosts, NEW p \in Int
    PROVE  /\ [a EXCEPT !.force = TRUE] \in ArgumentsRecord
           /\ [a EXCEPT !.force_reload = TRUE] \in ArgumentsRecord
           /\ [a EXCEPT !.proxy_host = h, !.proxy_port = p] \in ArgumentsRecord
BY DEF ArgumentsRecord

-----------------------------------------------------------------------------
(* A turn of the loop over the options.                                     *)

\* What a word does to the record: the options it is one of, and nothing else.
WordTaken(a, b, w) ==
    /\ b.clients = IF w.kind = "clients" THEN NumberOf(w) ELSE a.clients
    /\ b.bench_time = IF w.kind = "time" THEN NumberOf(w) ELSE a.bench_time
    /\ b.proxy_host = IF w.kind = "proxy" THEN ProxyHostOf(w) ELSE a.proxy_host
    /\ b.proxy_port = IF w.kind = "proxy" THEN ProxyPortOf(w) ELSE a.proxy_port
    /\ b.method = IF w.kind \in Methods THEN w.kind ELSE a.method
    /\ b.http10 = IF w.kind \in DOMAIN Versions THEN Versions[w.kind] ELSE a.http10
    /\ (b.force <=> a.force \/ w.kind = "force")
    /\ (b.force_reload <=> a.force_reload \/ w.kind = "reload")
    /\ b.target_host = a.target_host /\ b.target_port = a.target_port
    /\ b.protocol = a.protocol

\* Which word is the last of some kinds, after one word more.
LastMoves(words, n, kinds) ==
    IF words[n].kind \in kinds
    THEN Given(words, n, kinds) /\ Last(words, n, kinds) = n
    ELSE /\ Given(words, n, kinds) <=> Given(words, n - 1, kinds)
         /\ Given(words, n - 1, kinds) => Last(words, n, kinds) = Last(words, n - 1, kinds)

LEMMA LastRead ==
    ASSUME NEW words, NEW n \in Nat \ {0} PROVE \A kinds : LastMoves(words, n, kinds)
BY LastTaken, LastLeft DEF LastMoves

\* Taking one word after another leaves what the last of each kind asks for.
LEMMA OptionsRead ==
    ASSUME NEW words, NEW n \in Nat \ {0}, NEW a, NEW b, WordTaken(a, b, words[n]),
           OptionsAsked(a, words, n - 1), VersionAsked(a.http10, words, n - 1)
    PROVE  OptionsAsked(b, words, n) /\ VersionAsked(b.http10, words, n)
<1>1. Set(words, n, {"clients"}, b.clients, NumberOf, 1)
  <2>1. a.clients = IF Given(words, n - 1, {"clients"})
                    THEN NumberOf(words[Last(words, n - 1, {"clients"})]) ELSE 1
    BY DEF OptionsAsked, Set
  <2>2. b.clients = IF words[n].kind \in {"clients"} THEN NumberOf(words[n]) ELSE a.clients
    BY DEF WordTaken
  <2>3. LastMoves(words, n, {"clients"})
    BY LastRead
  <2> QED BY <2>1, <2>2, <2>3 DEF Set, LastMoves
<1>2. Set(words, n, {"time"}, b.bench_time, NumberOf, 30)
  <2>1. a.bench_time = IF Given(words, n - 1, {"time"})
                       THEN NumberOf(words[Last(words, n - 1, {"time"})]) ELSE 30
    BY DEF OptionsAsked, Set
  <2>2. b.bench_time = IF words[n].kind \in {"time"} THEN NumberOf(words[n]) ELSE a.bench_time
    BY DEF WordTaken
  <2>3. LastMoves(words, n, {"time"})
    BY LastRead
  <2> QED BY <2>1, <2>2, <2>3 DEF Set, LastMoves
<1>3. Set(words, n, {"proxy"}, b.proxy_host, ProxyHostOf, NoHost)
  <2>1. a.proxy_host = IF Given(words, n - 1, {"proxy"})
                       THEN ProxyHostOf(words[Last(words, n - 1, {"proxy"})]) ELSE NoHost
    BY DEF OptionsAsked, Set
  <2>2. b.proxy_host = IF words[n].kind \in {"proxy"} THEN ProxyHostOf(words[n]) ELSE a.proxy_host
    BY DEF WordTaken
  <2>3. LastMoves(words, n, {"proxy"})
    BY LastRead
  <2> QED BY <2>1, <2>2, <2>3 DEF Set, LastMoves
<1>4. Set(words, n, {"proxy"}, b.proxy_port, ProxyPortOf, 80)
  <2>1. a.proxy_port = IF Given(words, n - 1, {"proxy"})
                       THEN ProxyPortOf(words[Last(words, n - 1, {"proxy"})]) ELSE 80
    BY DEF OptionsAsked, Set
  <2>2. b.proxy_port = IF words[n].kind \in {"proxy"} THEN ProxyPortOf(words[n]) ELSE a.proxy_port
    BY DEF WordTaken
  <2>3. LastMoves(words, n, {"proxy"})
    BY LastRead
  <2> QED BY <2>1, <2>2, <2>3 DEF Set, LastMoves
<1>5. Set(words, n, Methods, b.method, KindOf, "get")
  <2>1. a.method = IF Given(words, n - 1, Methods)
                   THEN KindOf(words[Last(words, n - 1, Methods)]) ELSE "get"
    BY DEF OptionsAsked, Set
  <2>2. b.method = IF words[n].kind \in Methods THEN KindOf(words[n]) ELSE a.method
    BY DEF WordTaken, KindOf
  <2>3. LastMoves(words, n, Methods)
    BY LastRead
  <2> QED BY <2>1, <2>2, <2>3 DEF Set, LastMoves
<1>6. VersionAsked(b.http10, words, n)
  <2>1. a.http10 = IF Given(words, n - 1, DOMAIN Versions)
                   THEN VersionOf(words[Last(words, n - 1, DOMAIN Versions)]) ELSE 2
    BY DEF VersionAsked, Set
  <2>2. b.http10 = IF words[n].kind \in DOMAIN Versions THEN VersionOf(words[n]) ELSE a.http10
    BY DEF WordTaken, VersionOf
  <2>3. LastMoves(words, n, DOMAIN Versions)
    BY LastRead
  <2> QED BY <2>1, <2>2, <2>3 DEF Set, LastMoves, VersionAsked
<1>7. b.force <=> Given(words, n, {"force"})
  <2>1. a.force <=> Given(words, n - 1, {"force"})
    BY DEF OptionsAsked, Set
  <2>2. b.force <=> (a.force \/ words[n].kind \in {"force"})
    BY DEF WordTaken
  <2>3. LastMoves(words, n, {"force"})
    BY LastRead
  <2> QED BY <2>1, <2>2, <2>3 DEF LastMoves
<1>8. b.force_reload <=> Given(words, n, {"reload"})
  <2>1. a.force_reload <=> Given(words, n - 1, {"reload"})
    BY DEF OptionsAsked, Set
  <2>2. b.force_reload <=> (a.force_reload \/ words[n].kind \in {"reload"})
    BY DEF WordTaken
  <2>3. LastMoves(words, n, {"reload"})
    BY LastRead
  <2> QED BY <2>1, <2>2, <2>3 DEF LastMoves
<1> QED BY <1>1, <1>2, <1>3, <1>4, <1>5, <1>6, <1>7, <1>8 DEF OptionsAsked, Set, VersionAsked

-----------------------------------------------------------------------------
(* The steps of the loop.                                                   *)

LEMMA TypesOf ==
    ASSUME Inductive
    PROVE  /\ argv \in Seq(Word) /\ Len(argv) \in Nat /\ k \in 1 .. Len(argv) + 1
           /\ args \in ArgumentsRecord /\ request \in HTTPRequest /\ errno \in {"0", "ERANGE"}
           /\ \A j \in 1 .. Len(argv) : argv[j] \in Word
           /\ DOMAIN argv = 1 .. Len(argv)
BY DEF Inductive, TypeOK

\* The loop goes on: the word was legal and did what it says.
LEMMA LoopKeeps ==
    ASSUME Inductive, pc = "options", k \in 1 .. Len(argv), k' = k + 1, argv' = argv,
           pc' = pc, errno' = "0", request' = request, args' \in ArgumentsRecord,
           WordTaken(args, args', argv[k]), LegalOption(argv[k])
    PROVE  Inductive'
<1>1. TypeOK'
  BY TypesOf DEF TypeOK, Inductive
<1>2. Accepted'
  <2>1. \A j \in 1 .. k - 1 : LegalOption(argv[j])
    BY DEF Inductive, Accepted
  <2>2. \A j \in 1 .. k' - 1 : j = k \/ j \in 1 .. k - 1
    OBVIOUS
  <2>3. \A j \in 1 .. k' - 1 : LegalOption(argv[j])
    BY <2>1, <2>2
  <2> QED BY <2>3 DEF Accepted
<1>3. OptionsAsAsked'
  <2>1. k \in Nat \ {0} /\ k' - 1 = k
    BY TypesOf
  <2>2. OptionsAsked(args, argv, k - 1) /\ VersionAsked(args.http10, argv, k - 1)
    BY DEF Inductive, OptionsAsAsked
  <2>3. OptionsAsked(args', argv, k) /\ VersionAsked(args'.http10, argv, k)
    BY <2>1, <2>2, OptionsRead
  <2>4. OptionsAsked(args', argv', k' - 1) /\ VersionAsked(args'.http10, argv', k' - 1)
    BY <2>1, <2>3
  <2> QED BY <2>4 DEF OptionsAsAsked
<1>4. UrlAsAsked'
  BY DEF Inductive, UrlAsAsked, WordTaken
<1>5. RefusedForCause' /\ RequestAsAsked' /\ pc' # "bench"
  BY DEF RefusedForCause, RequestAsAsked
<1> QED BY <1>1, <1>2, <1>3, <1>4, <1>5 DEF Inductive

\* The process exits because something on the command line is wrong.
LEMMA ExitKeeps ==
    ASSUME Inductive, pc' = "exit", argv' = argv, k' \in 1 .. Len(argv) + 1,
           args' \in ArgumentsRecord, errno' \in {"0", "ERANGE"}, request' = request, ~Legal
    PROVE  Inductive'
<1>1. TypeOK'
  BY TypesOf DEF TypeOK
<1>2. ~Legal'
  BY DEF Legal, IsFirstUrl
<1>3. Accepted' /\ OptionsAsAsked' /\ UrlAsAsked' /\ RefusedForCause' /\ RequestAsAsked' /\ pc' # "bench"
  BY <1>2 DEF Accepted, OptionsAsAsked, UrlAsAsked, RefusedForCause, RequestAsAsked
<1> QED BY <1>1, <1>3 DEF Inductive

LEMMA ReadingFacts ==
    ASSUME Inductive, NEW kinds, Reading(kinds)
    PROVE  /\ pc = "options" /\ k \in 1 .. Len(argv) /\ k' = k + 1 /\ argv' = argv
           /\ argv[k] \in Word /\ argv[k].kind \in kinds /\ errno = "0"
           /\ k' \in 1 .. Len(argv) + 1
<1>1. pc = "options" /\ k <= Len(argv) /\ k' = k + 1 /\ argv' = argv /\ argv[k].kind \in kinds
  BY DEF Reading
<1>2. k \in 1 .. Len(argv) /\ k' \in 1 .. Len(argv) + 1
  BY <1>1, TypesOf
<1> QED BY <1>1, <1>2, TypesOf DEF Inductive, Accepted

\* A word that is not legal makes the line illegal.
LEMMA BadWord ==
    ASSUME Inductive, k \in 1 .. Len(argv), ~LegalOption(argv[k])
    PROVE  ~Legal
BY TypesOf DEF Legal

LEMMA SkipWordKeeps ==
    ASSUME Inductive, SkipWord, request' = request
    PROVE  Inductive'
<1>1. Reading({"url"}) /\ pc' = pc /\ args' = args /\ errno' = errno
  BY DEF SkipWord
<1>2. argv[k].kind = "url"
  BY <1>1, ReadingFacts
<1>3. LegalOption(argv[k])
  BY <1>2 DEF LegalOption
<1>4. WordTaken(args, args', argv[k])
  BY <1>1, <1>2 DEF WordTaken, Methods, Versions
<1> QED BY <1>1, <1>3, <1>4, ReadingFacts, TypesOf, LoopKeeps

LEMMA TakeFlagKeeps ==
    ASSUME Inductive, TakeFlag, request' = request
    PROVE  Inductive'
<1> DEFINE w == argv[k]
<1>1. /\ Reading(Flags \ {"help", "version"}) /\ pc' = pc /\ errno' = errno
      /\ args' = IF w.kind = "force" THEN [args EXCEPT !.force = TRUE]
                 ELSE IF w.kind = "reload" THEN [args EXCEPT !.force_reload = TRUE]
                 ELSE IF w.kind \in Methods THEN [args EXCEPT !.method = w.kind]
                 ELSE [args EXCEPT !.http10 = Versions[w.kind]]
  BY DEF TakeFlag
<1>2. w.kind \in Flags \ {"help", "version"}
  BY <1>1, ReadingFacts
<1>3. LegalOption(w)
  BY <1>2 DEF LegalOption, Flags
<1>4. args \in ArgumentsRecord
  BY TypesOf
<1>5. args' \in ArgumentsRecord /\ WordTaken(args, args', w)
  <2>1. CASE w.kind = "force"
    <3>1. args' = [args EXCEPT !.force = TRUE]
      BY <1>1, <2>1
    <3>2. args' \in ArgumentsRecord
      <4>1. 0 \in Int /\ NoHost \in Hosts
        BY HostTexts
      <4> QED BY <1>4, <3>1, <4>1, RecordSets, Zenon
    <3>3. /\ args'.force /\ args'.force_reload = args.force_reload
          /\ args'.clients = args.clients /\ args'.bench_time = args.bench_time
          /\ args'.proxy_host = args.proxy_host /\ args'.proxy_port = args.proxy_port
          /\ args'.method = args.method /\ args'.http10 = args.http10
          /\ args'.target_host = args.target_host /\ args'.target_port = args.target_port
          /\ args'.protocol = args.protocol
      BY <1>4, <3>1 DEF ArgumentsRecord
    <3> HIDE DEF w
    <3> QED BY <2>1, <3>2, <3>3 DEF WordTaken, Methods, Versions
  <2>2. CASE w.kind = "reload"
    <3>1. args' = [args EXCEPT !.force_reload = TRUE]
      BY <1>1, <2>2
    <3>2. args' \in ArgumentsRecord
      <4>1. 0 \in Int /\ NoHost \in Hosts
        BY HostTexts
      <4> QED BY <1>4, <3>1, <4>1, RecordSets, Zenon
    <3>3. /\ args'.force = args.force /\ args'.force_reload
          /\ args'.clients = args.clients /\ args'.bench_time = args.bench_time
          /\ args'.proxy_host = args.proxy_host /\ args'.proxy_port = args.proxy_port
          /\ args'.method = args.method /\ args'.http10 = args.http10
          /\ args'.target_host = args.target_host /\ args'.target_port = args.target_port
          /\ args'.protocol = args.protocol
      BY <1>4, <3>1 DEF ArgumentsRecord
    <3> HIDE DEF w
    <3> QED BY <2>2, <3>2, <3>3 DEF WordTaken, Methods, Versions
  <2>3. CASE w.kind \in Methods
    <3>1. args' = [args EXCEPT !.method = w.kind]
      BY <1>1, <2>3 DEF Methods
    <3>2. args' \in ArgumentsRecord
      BY <1>4, <2>3, <3>1 DEF ArgumentsRecord
    <3> QED BY <1>4, <2>3, <3>1, <3>2 DEF ArgumentsRecord, WordTaken, Methods, Versions
  <2>4. CASE w.kind \in {"http09", "http10", "http11"}
    <3>1. args' = [args EXCEPT !.http10 = Versions[w.kind]]
      BY <1>1, <2>4 DEF Methods
    <3>2. Versions[w.kind] \in 0 .. 2 /\ w.kind \in DOMAIN Versions
      BY <2>4 DEF Versions
    <3>3. w.kind \notin Methods /\ w.kind \notin {"force", "reload", "clients", "time", "proxy"}
      BY <2>4 DEF Methods
    <3>4. args' \in ArgumentsRecord
      BY <1>4, <3>1, <3>2 DEF ArgumentsRecord
    <3> QED BY <1>4, <3>1, <3>2, <3>3, <3>4 DEF ArgumentsRecord, WordTaken
  <2> QED BY <1>2, <2>1, <2>2, <2>3, <2>4 DEF Flags, Methods
<1> HIDE DEF w
<1> QED BY <1>1, <1>3, <1>5, ReadingFacts, LoopKeeps DEF w

LEMMA TakeExitKeeps ==
    ASSUME Inductive, TakeExit, request' = request
    PROVE  Inductive'
<1>1. Reading({"help", "version"}) /\ pc' = "exit" /\ args' = args /\ errno' = errno
  BY DEF TakeExit
<1>2. ~LegalOption(argv[k])
  BY <1>1, ReadingFacts DEF LegalOption
<1> QED BY <1>1, <1>2, ReadingFacts, BadWord, TypesOf, ExitKeeps

LEMMA TakeNumberKeeps ==
    ASSUME Inductive, TakeNumber, request' = request
    PROVE  Inductive'
<1> DEFINE w == argv[k]
           n == w.number
<1>1. /\ Reading({"time", "clients"}) /\ errno' = ErrnoAfter(n, "0")
      /\ IF Refused(n, "0") THEN pc' = "exit" /\ args' = args
         ELSE /\ args' = IF w.kind = "time" THEN [args EXCEPT !.bench_time = ToInt(Strtol(n))]
                         ELSE [args EXCEPT !.clients = ToInt(Strtol(n))]
              /\ pc' = pc
  BY DEF TakeNumber
<1>2. w.kind \in {"time", "clients"} /\ w \in Word
  BY <1>1, ReadingFacts
<1>3. n \in Numeral
  BY <1>2, WordFields
<1>4. args \in ArgumentsRecord
  BY TypesOf
<1>5. CASE Refused(n, "0")
  <2>1. ~LegalOption(w)
    BY <1>2, <1>3, <1>5, RefusedIsBad DEF LegalOption
  <2> QED BY <1>1, <1>3, <1>4, <1>5, <2>1, RefusedIsBad, ReadingFacts, BadWord, ExitKeeps
<1>6. CASE ~Refused(n, "0")
  <2>1. errno' = "0" /\ Good(n) /\ NumberOf(w) = ToInt(Strtol(n)) /\ ToInt(Strtol(n)) \in Int
    BY <1>1, <1>3, <1>6, RefusedIsBad DEF NumberOf
  <2>2. PICK v \in Int : v = ToInt(Strtol(n))
    BY <2>1
  <2>3. LegalOption(w)
    BY <1>2, <2>1 DEF LegalOption
  <2>4. args' \in ArgumentsRecord /\ WordTaken(args, args', w)
    <3>1. CASE w.kind = "time"
      <4>1. args' = [args EXCEPT !.bench_time = v] /\ NumberOf(w) = v
        BY <1>1, <1>6, <2>1, <2>2, <3>1
      <4> HIDE DEF w, n
      <4> QED BY <1>4, <3>1, <4>1 DEF ArgumentsRecord, WordTaken, Methods, Versions
    <3>2. CASE w.kind = "clients"
      <4>1. args' = [args EXCEPT !.clients = v] /\ NumberOf(w) = v
        BY <1>1, <1>6, <2>1, <2>2, <3>2
      <4> HIDE DEF w, n
      <4> QED BY <1>4, <3>2, <4>1 DEF ArgumentsRecord, WordTaken, Methods, Versions
    <3> QED BY <1>2, <3>1, <3>2
  <2>5. pc' = pc
    BY <1>1, <1>6
  <2> QED BY <1>1, <2>1, <2>3, <2>4, <2>5, ReadingFacts, LoopKeeps
<1> QED BY <1>5, <1>6

LEMMA TakeProxyKeeps ==
    ASSUME Inductive, TakeProxy, request' = request
    PROVE  Inductive'
<1> DEFINE w == argv[k]
           n == w.port.number
<1>1. /\ Reading({"proxy"})
      /\ IF w.port.colon # "inside"
         THEN /\ args' = [args EXCEPT !.proxy_host = w.host, !.proxy_port = 80]
              /\ pc' = pc /\ errno' = errno
         ELSE /\ errno' = ErrnoAfter(n, "0")
              /\ IF Refused(n, "0") THEN pc' = "exit" /\ args' = args
                 ELSE /\ args' = [args EXCEPT
                            !.proxy_host = IF w.host = NoHost THEN Loopback ELSE w.host,
                            !.proxy_port = ToInt(Strtol(n))]
                      /\ pc' = pc
  BY DEF TakeProxy
<1>2. w.kind = "proxy" /\ w \in Word /\ errno = "0"
  BY <1>1, ReadingFacts
<1>3. w.host \in Hosts /\ w.port \in Port
  BY <1>2, WordFields
<1>4. n \in Numeral
  BY <1>3 DEF Port
<1>5. args \in ArgumentsRecord
  BY TypesOf
<1>6. ASSUME NEW h \in Hosts, NEW p \in Int, h = ProxyHostOf(w), p = ProxyPortOf(w),
             args' = [args EXCEPT !.proxy_host = h, !.proxy_port = p]
      PROVE  args' \in ArgumentsRecord /\ WordTaken(args, args', w)
  <2>1. args' \in ArgumentsRecord
    BY <1>5, <1>6, RecordSets, Zenon
  <2>2. /\ args'.proxy_host = h /\ args'.proxy_port = p
        /\ args'.clients = args.clients /\ args'.bench_time = args.bench_time
        /\ args'.force = args.force /\ args'.force_reload = args.force_reload
        /\ args'.method = args.method /\ args'.http10 = args.http10
        /\ args'.target_host = args.target_host /\ args'.target_port = args.target_port
        /\ args'.protocol = args.protocol
    BY <1>5, <1>6 DEF ArgumentsRecord
  <2> HIDE DEF w, n
  <2> QED BY <1>2, <1>6, <2>1, <2>2 DEF WordTaken, Methods, Versions
<1>7. CASE w.port.colon # "inside"
  <2>1. ProxyHostOf(w) = w.host /\ ProxyPortOf(w) = 80
    BY <1>7 DEF ProxyHostOf, ProxyPortOf
  <2>2. PICK h \in Hosts, p \in Int : h = w.host /\ p = 80
    BY <1>3
  <2>3. args' \in ArgumentsRecord /\ WordTaken(args, args', w)
    <3>1. args' = [args EXCEPT !.proxy_host = h, !.proxy_port = p]
      BY <1>1, <1>7, <2>2
    <3>2. h = ProxyHostOf(w) /\ p = ProxyPortOf(w)
      BY <2>1, <2>2
    <3> HIDE DEF w, n
    <3> QED BY <1>6, <3>1, <3>2, Zenon
  <2>4. LegalOption(w)
    BY <1>2, <1>7 DEF LegalOption
  <2> QED BY <1>1, <1>2, <1>7, <2>3, <2>4, ReadingFacts, LoopKeeps
<1>8. CASE w.port.colon = "inside" /\ Refused(n, "0")
  <2>1. ~LegalOption(w)
    BY <1>2, <1>4, <1>8, RefusedIsBad DEF LegalOption
  <2> QED BY <1>1, <1>4, <1>5, <1>8, <2>1, RefusedIsBad, ReadingFacts, BadWord, ExitKeeps
<1>9. CASE w.port.colon = "inside" /\ ~Refused(n, "0")
  <2>1. errno' = "0" /\ Good(n) /\ Strtol(n) = n.value /\ ToInt(Strtol(n)) \in Int
    BY <1>1, <1>4, <1>9, RefusedIsBad
  <2>2. PICK h \in Hosts : h = IF w.host = NoHost THEN Loopback ELSE w.host
    BY <1>3, HostTexts
  <2>3. PICK p \in Int : p = ToInt(Strtol(n))
    BY <2>1
  <2>4. h = ProxyHostOf(w) /\ p = ProxyPortOf(w)
    BY <1>9, <2>1, <2>2, <2>3 DEF ProxyHostOf, ProxyPortOf
  <2>5. args' = [args EXCEPT !.proxy_host = h, !.proxy_port = p]
    BY <1>1, <1>9, <2>2, <2>3
  <2>6. args' \in ArgumentsRecord /\ WordTaken(args, args', w)
    <3> HIDE DEF w, n
    <3> QED BY <1>6, <2>4, <2>5, Zenon
  <2>7. LegalOption(w)
    BY <1>2, <2>1 DEF LegalOption
  <2>8. pc' = pc
    BY <1>1, <1>9
  <2> QED BY <1>1, <2>1, <2>6, <2>7, <2>8, ReadingFacts, LoopKeeps
<1> QED BY <1>7, <1>8, <1>9

-----------------------------------------------------------------------------
(* The URL.                                                                 *)

LEMMA OneFirstUrl ==
    ASSUME Inductive, NEW j, IsFirstUrl(j), NEW l, IsFirstUrl(l)
    PROVE  j = l
<1>1. j \in 1 .. Len(argv) /\ l \in 1 .. Len(argv)
  BY TypesOf DEF IsFirstUrl
<1>2. ~(j < l) /\ ~(l < j)
  BY <1>1, TypesOf DEF IsFirstUrl
<1> QED BY <1>1, <1>2, TypesOf

\* After the options every word of the line is legal but for its URL.
LEMMA OptionsLegal ==
    ASSUME Inductive, pc = "url"
    PROVE  \A l \in DOMAIN argv : LegalOption(argv[l])
<1>1. k - 1 = Len(argv)
  BY TypesOf DEF Inductive, Accepted
<1> QED BY <1>1, TypesOf DEF Inductive, Accepted

\* After the options the line is legal exactly if its URL is.
LEMMA UrlDecides ==
    ASSUME Inductive, pc = "url", NEW j, IsFirstUrl(j)
    PROVE  Legal <=> LegalUrl(argv[j])
<1>1. j \in DOMAIN argv
  BY DEF IsFirstUrl
<1>2. \A l \in DOMAIN argv : LegalOption(argv[l])
  BY OptionsLegal
<1> QED BY <1>1, <1>2, OneFirstUrl DEF Legal

LEMMA EndOfOptionsKeeps ==
    ASSUME Inductive, EndOfOptions, request' = request
    PROVE  Inductive'
<1>1. /\ pc = "options" /\ k > Len(argv) /\ argv' = argv /\ k' = k /\ args' = args
      /\ errno' = errno
      /\ pc' = IF \E j \in DOMAIN argv : IsFirstUrl(j) THEN "url" ELSE "exit"
  BY DEF EndOfOptions
<1>2. k = Len(argv) + 1
  BY <1>1, TypesOf
<1>3. CASE \E j \in DOMAIN argv : IsFirstUrl(j)
  <2>1. pc' = "url"
    BY <1>1, <1>3
  <2>2. TypeOK'
    BY <1>1, <2>1, TypesOf DEF TypeOK
  <2>3. Accepted' /\ OptionsAsAsked' /\ UrlAsAsked' /\ RefusedForCause' /\ RequestAsAsked'
    BY <1>1, <1>2, <2>1
       DEF Inductive, Accepted, OptionsAsAsked, UrlAsAsked, RefusedForCause, RequestAsAsked
  <2> QED BY <2>1, <2>2, <2>3 DEF Inductive
<1>4. CASE ~\E j \in DOMAIN argv : IsFirstUrl(j)
  <2>1. pc' = "exit" /\ ~Legal
    BY <1>1, <1>4 DEF Legal
  <2> QED BY <1>1, <2>1, TypesOf, ExitKeeps
<1> QED BY <1>3, <1>4

\* The fields that the options set.
SameOptions(a, b) ==
    /\ b.clients = a.clients /\ b.bench_time = a.bench_time
    /\ b.proxy_host = a.proxy_host /\ b.proxy_port = a.proxy_port
    /\ b.method = a.method /\ b.force = a.force /\ b.force_reload = a.force_reload

LEMMA SameAsked ==
    ASSUME NEW a, NEW b, SameOptions(a, b), NEW words, NEW n, OptionsAsked(a, words, n)
    PROVE  OptionsAsked(b, words, n)
BY DEF SameOptions, OptionsAsked, Set

LEMMA UrlKeeps ==
    ASSUME Inductive, pc = "url", NEW j, IsFirstUrl(j), LegalUrl(argv[j]),
           pc' = "request", argv' = argv, k' = k, request' = request,
           errno' \in {"0", "ERANGE"}, args' \in ArgumentsRecord,
           SameOptions(args, args'), args'.http10 = args.http10, UrlAsked(args', argv[j])
    PROVE  Inductive'
<1>1. TypeOK'
  BY TypesOf DEF TypeOK
<1>2. Accepted' /\ RequestAsAsked'
  BY DEF Inductive, Accepted, RequestAsAsked
<1>3. OptionsAsked(args, argv, k - 1) /\ VersionAsked(args.http10, argv, k - 1)
  BY DEF Inductive, OptionsAsAsked
<1>4. OptionsAsked(args', argv', k' - 1) /\ VersionAsked(args'.http10, argv', k' - 1)
  BY <1>3, SameAsked
<1>5. OptionsAsAsked'
  BY <1>4 DEF OptionsAsAsked
<1>6. UrlAsAsked'
  <2>1. j \in DOMAIN argv' /\ IsFirstUrl(j)' /\ UrlAsked(args', argv'[j])
    BY DEF IsFirstUrl
  <2> QED BY <2>1 DEF UrlAsAsked
<1>7. RefusedForCause'
  <2>1. Legal
    BY UrlDecides
  <2>2. Legal'
    BY <2>1 DEF Legal, IsFirstUrl
  <2> QED BY <2>2 DEF RefusedForCause
<1> QED BY <1>1, <1>2, <1>5, <1>6, <1>7 DEF Inductive

\* What the scheme sets of the record.
LEMMA SchemeSets ==
    ASSUME Inductive, pc = "url", NEW u, u.scheme \in {"http", "https"}, NEW a, a = ForScheme(u)
    PROVE  /\ a \in ArgumentsRecord /\ SameOptions(args, a) /\ a.http10 = args.http10
           /\ a.protocol = u.scheme /\ a.target_host = NoHost
           /\ a.target_port = IF u.scheme = "https" THEN 443 ELSE 80
<1>1. /\ args \in ArgumentsRecord /\ args.protocol = "http" /\ args.target_host = NoHost
      /\ args.target_port = 80
  BY TypesOf DEF Inductive, UrlAsAsked
<1>2. CASE u.scheme = "https"
  <2>1. a = [args EXCEPT !.protocol = "https", !.target_port = 443]
    BY <1>2 DEF ForScheme
  <2>2. /\ a \in ArgumentsRecord /\ SameOptions(args, a) /\ a.http10 = args.http10
        /\ a.protocol = "https" /\ a.target_host = args.target_host /\ a.target_port = 443
    <3>1. PICK s \in {"http", "https"}, p \in Int : s = "https" /\ p = 443
      OBVIOUS
    <3>2. a = [args EXCEPT !.protocol = s, !.target_port = p]
      BY <2>1, <3>1
    <3>3. a \in ArgumentsRecord
      <4>1. PICK r \in ArgumentsRecord : r = args
        BY <1>1
      <4>2. [r EXCEPT !.protocol = s, !.target_port = p] \in ArgumentsRecord
        BY DEF ArgumentsRecord
      <4> QED BY <3>2, <4>1, <4>2
    <3>4. /\ SameOptions(args, a) /\ a.http10 = args.http10
          /\ a.protocol = s /\ a.target_host = args.target_host /\ a.target_port = p
      BY <1>1, <3>2, <3>3 DEF ArgumentsRecord, SameOptions
    <3> QED BY <3>1, <3>3, <3>4
  <2> QED BY <1>1, <1>2, <2>2
<1>3. CASE u.scheme # "https"
  <2>1. a = args
    BY <1>3 DEF ForScheme
  <2> QED BY <1>1, <1>3, <2>1 DEF SameOptions
<1> QED BY <1>2, <1>3

LEMMA TargetSet ==
    ASSUME NEW a \in ArgumentsRecord, NEW h \in Hosts, NEW p \in Int
    PROVE  [a EXCEPT !.target_host = h, !.target_port = p] \in ArgumentsRecord
BY DEF ArgumentsRecord

LEMMA HostSet ==
    ASSUME NEW a \in ArgumentsRecord, NEW h \in Hosts, NEW b, b = [a EXCEPT !.target_host = h]
    PROVE  /\ b \in ArgumentsRecord /\ SameOptions(a, b) /\ b.http10 = a.http10
           /\ b.protocol = a.protocol /\ b.target_host = h /\ b.target_port = a.target_port
<1>1. b \in ArgumentsRecord
  BY DEF ArgumentsRecord
<1> QED BY <1>1 DEF ArgumentsRecord, SameOptions

LEMMA TakeUrlKeeps ==
    ASSUME Inductive, TakeUrl, request' = request
    PROVE  Inductive'
<1>1. pc = "url" /\ argv' = argv /\ k' = k /\ errno = "0"
  BY DEF TakeUrl, Inductive, Accepted
<1> DEFINE Taken(u, n) ==
              \/ ~Supported(u) /\ pc' = "exit" /\ args' = args /\ errno' = errno
              \/ /\ Supported(u) /\ ~u.bare /\ u.port.colon = "none"
                 /\ args' = IF u.late THEN ForScheme(u)
                            ELSE [ForScheme(u) EXCEPT !.target_host = u.host]
                 /\ pc' = "request" /\ errno' = errno
              \/ /\ Supported(u) /\ ~u.bare /\ u.port.colon # "none"
                 /\ errno' = ErrnoAfter(n, errno)
                 /\ IF Refused(n, errno) THEN pc' = "exit" /\ args' = args
                    ELSE /\ args' = [ForScheme(u) EXCEPT !.target_host = u.host,
                                                         !.target_port = ToInt(Strtol(n))]
                         /\ pc' = "request"
              \/ Supported(u) /\ Fatal(u) /\ pc' = "crash" /\ args' = args /\ errno' = errno
<1>2. PICK j \in DOMAIN argv : IsFirstUrl(j) /\ Taken(argv[j], argv[j].port.number)
  BY Zenon DEF TakeUrl
<1>2a. PICK u : u = argv[j]
  OBVIOUS
<1>2b. PICK n : n = u.port.number
  OBVIOUS
<1>2c. Taken(u, n)
  BY <1>2, <1>2a, <1>2b
<1>3. u = argv[j] /\ u \in Word /\ u.kind = "url" /\ n = u.port.number
  BY <1>2, <1>2a, <1>2b, TypesOf DEF IsFirstUrl
<1>4. /\ u.host \in Hosts /\ u.port \in Port /\ u.bare \in BOOLEAN /\ u.late \in BOOLEAN
      /\ n \in Numeral
  BY <1>3, WordFields DEF Port
<1>5. Legal <=> LegalUrl(u)
  BY <1>1, <1>2, <1>3, UrlDecides
<1>6. args \in ArgumentsRecord /\ k' \in 1 .. Len(argv) + 1
  BY <1>1, TypesOf
<1>7. PICK a : a = ForScheme(u)
  OBVIOUS
<1>8. Supported(u) => u.scheme \in {"http", "https"}
  BY <1>3, WordFields DEF Supported
<1>9. CASE ~Supported(u) /\ pc' = "exit" /\ args' = args /\ errno' = errno
  <2>1. ~Legal
    BY <1>5, <1>9 DEF LegalUrl
  <2> QED BY <1>1, <1>6, <1>9, <2>1, ExitKeeps
<1>10. CASE /\ Supported(u) /\ ~u.bare /\ u.port.colon = "none"
            /\ args' = IF u.late THEN a ELSE [a EXCEPT !.target_host = u.host]
            /\ pc' = "request" /\ errno' = errno
  <2>1. LegalUrl(u)
    BY <1>10 DEF LegalUrl
  <2>2. /\ a \in ArgumentsRecord /\ SameOptions(args, a) /\ a.http10 = args.http10
        /\ a.protocol = u.scheme /\ a.target_host = NoHost
        /\ a.target_port = IF u.scheme = "https" THEN 443 ELSE 80
    BY <1>1, <1>7, <1>8, <1>10, SchemeSets
  <2>3. PICK h \in Hosts : h = IF u.late THEN NoHost ELSE u.host
    BY <1>4, HostTexts
  <2>4. /\ args' \in ArgumentsRecord /\ SameOptions(a, args') /\ args'.http10 = a.http10
        /\ args'.protocol = a.protocol /\ args'.target_host = h
        /\ args'.target_port = a.target_port
    <3>1. CASE u.late
      BY <1>10, <2>2, <2>3, <3>1 DEF SameOptions
    <3>2. CASE ~u.late
      <4>1. args' = [a EXCEPT !.target_host = h]
        BY <1>10, <2>3, <3>2
      <4> QED BY <2>2, <4>1, HostSet
    <3> QED BY <3>1, <3>2
  <2>5. SameOptions(args, args') /\ UrlAsked(args', u)
    BY <1>10, <2>2, <2>3, <2>4 DEF SameOptions, UrlAsked
  <2> QED BY <1>1, <1>2, <1>3, <1>10, <2>1, <2>2, <2>4, <2>5, UrlKeeps
<1>11. CASE /\ Supported(u) /\ ~u.bare /\ u.port.colon # "none"
            /\ errno' = ErrnoAfter(n, "0")
            /\ IF Refused(n, "0") THEN pc' = "exit" /\ args' = args
               ELSE /\ args' = [a EXCEPT !.target_host = u.host,
                                         !.target_port = ToInt(Strtol(n))]
                    /\ pc' = "request"
  <2>1. LegalUrl(u) <=> ~Refused(n, "0")
    BY <1>3, <1>4, <1>11, RefusedIsBad DEF LegalUrl
  <2>2. /\ errno' \in {"0", "ERANGE"} /\ ToInt(Strtol(n)) \in Int
        /\ ~Refused(n, "0") => Strtol(n) = n.value
    BY <1>4, <1>11, RefusedIsBad
  <2>3. CASE Refused(n, "0")
    BY <1>1, <1>5, <1>6, <1>11, <2>1, <2>2, <2>3, ExitKeeps
  <2>4. CASE ~Refused(n, "0")
    <3>1. PICK h \in Hosts, p \in Int : h = u.host /\ p = ToInt(Strtol(n))
      BY <1>4, <2>2
    <3>2. args' = [a EXCEPT !.target_host = h, !.target_port = p] /\ pc' = "request"
      BY <1>11, <2>4, <3>1
    <3>3. /\ a \in ArgumentsRecord /\ SameOptions(args, a) /\ a.http10 = args.http10
          /\ a.protocol = u.scheme
      BY <1>1, <1>7, <1>8, <1>11, SchemeSets
    <3>4. /\ args' \in ArgumentsRecord /\ SameOptions(a, args') /\ args'.http10 = a.http10
          /\ args'.protocol = a.protocol /\ args'.target_host = h /\ args'.target_port = p
      <4>1. args' = [a EXCEPT !.target_host = h, !.target_port = p]
        BY <3>2
      <4>2. args' \in ArgumentsRecord
        BY <3>3, <4>1, TargetSet, Zenon
      <4> QED BY <3>3, <4>1, <4>2 DEF ArgumentsRecord, SameOptions
    <3>5. p = ToInt(u.port.number.value)
      BY <1>3, <2>2, <2>4, <3>1
    <3>6. SameOptions(args, args') /\ UrlAsked(args', u)
      BY <1>11, <3>1, <3>3, <3>4, <3>5 DEF SameOptions, UrlAsked
    <3> QED BY <1>1, <1>2, <1>3, <2>1, <2>2, <2>4, <3>2, <3>3, <3>4, <3>6, UrlKeeps
  <2> QED BY <2>3, <2>4
<1>12. CASE Supported(u) /\ Fatal(u) /\ pc' = "crash" /\ args' = args /\ errno' = errno
  <2>1. \A l \in DOMAIN argv' : LegalOption(argv'[l])
    BY <1>1, OptionsLegal
  <2>2. j \in DOMAIN argv' /\ IsFirstUrl(j)' /\ Supported(argv'[j]) /\ Fatal(argv'[j])
    BY <1>1, <1>2, <1>3, <1>12 DEF IsFirstUrl
  <2>3. TypeOK'
    BY <1>1, <1>12, TypesOf DEF TypeOK
  <2>4. Accepted' /\ OptionsAsAsked' /\ UrlAsAsked' /\ RefusedForCause' /\ RequestAsAsked' /\ pc' # "bench"
    BY <1>12, <2>1, <2>2 DEF Accepted, OptionsAsAsked, UrlAsAsked, RefusedForCause, RequestAsAsked
  <2> QED BY <2>3, <2>4 DEF Inductive
<1> QED BY <1>1, <1>2c, <1>7, <1>9, <1>10, <1>11, <1>12

-----------------------------------------------------------------------------
(* The start, the request and the bench.                                    *)

LEMMA NothingAsked ==
    ASSUME NEW words, NEW a, a = create_default_arguments
    PROVE  OptionsAsked(a, words, 0) /\ VersionAsked(a.http10, words, 0)
<1>1. \A kinds : ~Given(words, 0, kinds)
  BY DEF Given
<1>2. /\ a.clients = 1 /\ a.bench_time = 30 /\ ~a.force /\ ~a.force_reload
      /\ a.proxy_host = NoHost /\ a.proxy_port = 80 /\ a.method = "get" /\ a.http10 = 2
  BY DEF create_default_arguments
<1> QED BY <1>1, <1>2 DEF OptionsAsked, VersionAsked, Set

LEMMA StartKeeps ==
    ASSUME Inductive, Start
    PROVE  Inductive'
<1>1. /\ pc = "start" /\ argv' = argv /\ k' = k /\ args' = args /\ errno' = errno
      /\ request' = request /\ pc' = IF argv = <<>> THEN "exit" ELSE "options"
  BY DEF Start
<1>2. k = 1 /\ args = create_default_arguments /\ errno = "0"
  BY <1>1 DEF Inductive, Accepted
<1>3. CASE argv = <<>>
  <2>1. ~Legal
    BY <1>3 DEF Legal
  <2> QED BY <1>1, <1>3, <2>1, TypesOf, ExitKeeps
<1>4. CASE argv # <<>>
  <2>1. pc' = "options"
    BY <1>1, <1>4
  <2>2. TypeOK'
    BY <1>1, <2>1, TypesOf DEF TypeOK
  <2>3. OptionsAsked(args, argv, k - 1) /\ VersionAsked(args.http10, argv, k - 1)
    BY <1>2, NothingAsked
  <2>4. OptionsAsAsked'
    BY <1>1, <2>3 DEF OptionsAsAsked
  <2>5. Accepted' /\ UrlAsAsked' /\ RefusedForCause' /\ RequestAsAsked'
    BY <1>1, <1>2, <2>1 DEF Inductive, Accepted, UrlAsAsked, RefusedForCause, RequestAsAsked
  <2> QED BY <2>1, <2>2, <2>4, <2>5 DEF Inductive
<1> QED BY <1>3, <1>4

\* The version is raised to the oldest that does, and only where it has to be.
LEMMA VersionAdjusted ==
    ASSUME NEW a \in ArgumentsRecord
    PROVE  /\ Adjusted(a) \in 0 .. 2 /\ Adjusted(a) >= a.http10
           /\ Adjusted(a) > a.http10 =>
                 \/ a.method \in {"options", "trace"} /\ Adjusted(a) = 2
                 \/ Adjusted(a) = 1 /\ (a.method = "head" \/ a.force_reload)
           /\ a.method = "head" => Adjusted(a) >= 1
           /\ a.method \in {"options", "trace"} => Adjusted(a) = 2
           /\ a.force_reload /\ a.proxy_host # NoHost => Adjusted(a) >= 1
<1>1. a.http10 \in 0 .. 2
  BY DEF ArgumentsRecord
<1> QED BY <1>1 DEF Adjusted, Proxied

\* Through a proxy a reload is asked for with one header.
LEMMA OneReloadHeader ==
    ASSUME NEW a, a.force_reload, a.proxy_host # NoHost, a.http10 \in 1 .. 2
    PROVE  Cardinality(HeadersOf(a) \cap {"Pragma", "Cache-Control"}) = 1
<1>1. CASE a.http10 = 1
  <2>1. HeadersOf(a) \cap {"Pragma", "Cache-Control"} = {"Pragma"}
    BY <1>1 DEF HeadersOf, Headers, Proxied
  <2> QED BY <2>1, FS_Singleton
<1>2. CASE a.http10 = 2
  <2>1. HeadersOf(a) \cap {"Pragma", "Cache-Control"} = {"Cache-Control"}
    BY <1>2 DEF HeadersOf, Headers, Proxied
  <2> QED BY <2>1, FS_Singleton
<1> QED BY <1>1, <1>2

LEMMA RequestBuilt ==
    ASSUME NEW a \in ArgumentsRecord, NEW r, r = RequestOf(a)
    PROVE  /\ r \in HTTPRequest
           /\ r.method = a.method /\ r.version = a.http10 /\ r.headers = HeadersOf(a)
           /\ r.ended <=> a.http10 \in {1, 2}
           /\ r.headers # {} => r.ended
<1>1. a.http10 \in 0 .. 2 /\ a.method \in Methods
  BY DEF ArgumentsRecord
<1>2. HeadersOf(a) \subseteq Headers
  BY DEF HeadersOf
<1>3. PICK target \in {"/", "url"} : target = IF Proxied(a) THEN "url" ELSE "/"
  OBVIOUS
<1>4. CASE a.http10 \in {1, 2}
  <2>1. r = [method |-> a.method, target |-> target, version |-> a.http10,
             headers |-> HeadersOf(a), ended |-> TRUE]
    BY <1>3, <1>4 DEF RequestOf
  <2>2. r \in HTTPRequest
    BY <1>1, <1>2, <2>1 DEF HTTPRequest, Methods
  <2> QED BY <1>4, <2>1, <2>2
<1>5. CASE a.http10 \notin {1, 2}
  <2>1. r = [method |-> a.method, target |-> target, version |-> a.http10,
             headers |-> HeadersOf(a), ended |-> FALSE]
    <3>1. (a.http10 \in {1, 2}) = FALSE
      BY <1>5
    <3> QED BY <1>3, <3>1, Zenon DEF RequestOf
  <2>2. r \in HTTPRequest
    BY <1>1, <1>2, <2>1 DEF HTTPRequest, Methods
  <2>3. HeadersOf(a) = {}
    BY <1>1, <1>5 DEF HeadersOf
  <2> QED BY <1>5, <2>1, <2>2, <2>3
<1> QED BY <1>4, <1>5

LEMMA BuildRequestKeeps ==
    ASSUME Inductive, BuildRequest
    PROVE  Inductive'
<1>1. /\ pc = "request" /\ pc' = "bench" /\ argv' = argv /\ k' = k /\ errno' = errno
      /\ args' = [args EXCEPT !.http10 = Adjusted(args)] /\ request' = RequestOf(args')
  BY DEF BuildRequest
<1>2. args \in ArgumentsRecord
  BY TypesOf
<1>3. PICK v \in 0 .. 2 : v = Adjusted(args)
  BY <1>2, VersionAdjusted
<1>4. args' = [args EXCEPT !.http10 = v]
  BY <1>1, <1>3
<1>5. args' \in ArgumentsRecord
  BY <1>2, <1>4 DEF ArgumentsRecord
<1>6. /\ SameOptions(args, args') /\ args'.http10 = v /\ args'.protocol = args.protocol
      /\ args'.target_host = args.target_host /\ args'.target_port = args.target_port
  BY <1>2, <1>4 DEF ArgumentsRecord, SameOptions
<1>7. /\ request' \in HTTPRequest /\ request'.method = args'.method
      /\ request'.version = args'.http10 /\ request'.headers = HeadersOf(args')
      /\ request'.headers # {} => request'.ended
  BY <1>1, <1>5, RequestBuilt
<1>8. TypeOK'
  BY <1>1, <1>5, <1>7, TypesOf DEF TypeOK
<1>9. Accepted'
  BY <1>1 DEF Inductive, Accepted
<1>10. OptionsAsked(args, argv, k - 1) /\ VersionAsked(args.http10, argv, k - 1)
  BY <1>1 DEF Inductive, OptionsAsAsked
<1>11. OptionsAsAsked'
  <2>1. OptionsAsked(args', argv', k' - 1)
    BY <1>1, <1>6, <1>10, SameAsked
  <2> QED BY <1>1, <2>1 DEF OptionsAsAsked
<1>12. UrlAsAsked'
  <2>1. PICK j \in DOMAIN argv : IsFirstUrl(j) /\ UrlAsked(args, argv[j])
    BY <1>1 DEF Inductive, UrlAsAsked
  <2>2. j \in DOMAIN argv' /\ IsFirstUrl(j)' /\ UrlAsked(args', argv'[j])
    BY <1>1, <1>6, <2>1 DEF IsFirstUrl, UrlAsked
  <2> QED BY <1>1, <2>2 DEF UrlAsAsked
<1>13. RefusedForCause'
  <2>1. Legal
    BY <1>1 DEF Inductive, RefusedForCause
  <2>2. Legal'
    BY <1>1, <2>1 DEF Legal, IsFirstUrl
  <2> QED BY <1>1, <2>2 DEF RefusedForCause
<1>14. RequestAsAsked'
  <2>1. /\ args'.method = args.method /\ args'.proxy_host = args.proxy_host
        /\ args'.force_reload = args.force_reload /\ args.http10 \in 0 .. 2
    BY <1>2, <1>6 DEF SameOptions, ArgumentsRecord
  <2>2. VersionAsked(args.http10, argv', Len(argv'))
    <3>1. k - 1 = Len(argv)
      BY <1>1, TypesOf DEF Inductive, Accepted
    <3> QED BY <1>1, <1>10, <3>1
  <2>3. /\ v >= args.http10
        /\ v > args.http10 =>
              \/ args.method \in {"options", "trace"} /\ v = 2
              \/ v = 1 /\ (args.method = "head" \/ args.force_reload)
        /\ args.method = "head" => v >= 1
        /\ args.method \in {"options", "trace"} => v = 2
        /\ args.force_reload /\ args.proxy_host # NoHost => v >= 1
    BY <1>2, <1>3, VersionAdjusted
  <2>4. args'.force_reload /\ args'.proxy_host # NoHost =>
           Cardinality(request'.headers \cap {"Pragma", "Cache-Control"}) = 1
    <3> SUFFICES ASSUME args'.force_reload, args'.proxy_host # NoHost
                 PROVE  Cardinality(request'.headers \cap {"Pragma", "Cache-Control"}) = 1
      OBVIOUS
    <3>1. args'.http10 \in 1 .. 2
      BY <1>6, <2>1, <2>3
    <3>2. Cardinality(HeadersOf(args') \cap {"Pragma", "Cache-Control"}) = 1
      BY <3>1, OneReloadHeader
    <3> QED BY <1>7, <3>2
  <2>5. \E asked \in 0 .. 2 :
           /\ VersionAsked(asked, argv', Len(argv'))
           /\ request'.version >= asked
           /\ request'.version > asked =>
                 \/ request'.method \in {"options", "trace"} /\ request'.version = 2
                 \/ request'.version = 1 /\ (request'.method = "head" \/ args'.force_reload)
    <3>1. args.http10 \in 0 .. 2
      BY <2>1
    <3> QED BY <3>1, <1>6, <1>7, <2>1, <2>2, <2>3
  <2>6. /\ request'.method = "head" => request'.version >= 1
        /\ request'.method \in {"options", "trace"} => request'.version = 2
    BY <1>6, <1>7, <2>1, <2>3
  <2> QED BY <1>7, <2>4, <2>5, <2>6 DEF RequestAsAsked
<1> QED BY <1>1, <1>8, <1>9, <1>11, <1>12, <1>13, <1>14 DEF Inductive

-----------------------------------------------------------------------------
(* The theorems.                                                            *)

LEMMA InitInductive ==
    ASSUME Init
    PROVE  Inductive
<1>1. /\ pc = "start" /\ argv \in Seq(Word) /\ k = 1 /\ args = create_default_arguments
      /\ errno = "0" /\ request = NoRequest
  BY ArgumentsAssumption DEF Init
<1>2. args \in ArgumentsRecord
  BY <1>1, HostTexts DEF create_default_arguments, ArgumentsRecord, Methods
<1>3. request \in HTTPRequest
  BY <1>1 DEF NoRequest, HTTPRequest, Headers
<1>4. k \in 1 .. Len(argv) + 1
  BY <1>1
<1>5. TypeOK
  BY <1>1, <1>2, <1>3, <1>4 DEF TypeOK
<1>6. args.protocol = "http" /\ args.target_host = NoHost /\ args.target_port = 80
  BY <1>1 DEF create_default_arguments
<1>7. Accepted /\ OptionsAsAsked /\ UrlAsAsked /\ RefusedForCause /\ RequestAsAsked
  BY <1>1, <1>6 DEF Accepted, OptionsAsAsked, UrlAsAsked, RefusedForCause, RequestAsAsked
<1> QED BY <1>1, <1>5, <1>7 DEF Inductive

LEMMA SameKeeps ==
    ASSUME Inductive, UNCHANGED vars
    PROVE  Inductive'
BY DEF Inductive, TypeOK, Accepted, OptionsAsAsked, UrlAsAsked, RefusedForCause,
       RequestAsAsked, Legal, IsFirstUrl, vars, argumentVars

LEMMA StepInductive ==
    ASSUME Inductive, [Next]_vars
    PROVE  Inductive'
<1>1. CASE Start
  BY <1>1, StartKeeps
<1>2. CASE set_arguments_values /\ UNCHANGED request
  BY <1>2, SkipWordKeeps, TakeFlagKeeps, TakeExitKeeps, TakeNumberKeeps, TakeProxyKeeps,
     EndOfOptionsKeeps, TakeUrlKeeps DEF set_arguments_values
<1>3. CASE BuildRequest
  BY <1>3, BuildRequestKeeps
<1>4. CASE UNCHANGED vars
  BY <1>4, SameKeeps
<1> QED BY <1>1, <1>2, <1>3, <1>4 DEF Next, Terminated

\* Whatever the words of the command line and their order, the parts of Inductive hold of
\* every state of the process.
THEOREM InductiveInvariant == Spec => []Inductive
<1>1. Init => Inductive
  BY InitInductive
<1>2. Inductive /\ [Next]_vars => Inductive'
  BY StepInductive
<1> QED BY <1>1, <1>2, PTL DEF Spec

\* set_arguments_values: the record holds what the last of each kind of option asks for.
THEOREM OptionsTheorem == Spec => []OptionsAsAsked
<1>1. Inductive => OptionsAsAsked
  BY DEF Inductive
<1> QED BY <1>1, InductiveInvariant, PTL

\* A command line is refused exactly when something in it is wrong.
THEOREM RefusedTheorem == Spec => []RefusedForCause
<1>1. Inductive => RefusedForCause
  BY DEF Inductive
<1> QED BY <1>1, InductiveInvariant, PTL

\* build_request: the method asked for is sent in the oldest version that knows it and is
\* not older than the one asked for; behind a proxy so is the reload, with the one header
\* of that version.
THEOREM RequestTheorem == Spec => []RequestAsAsked
<1>1. Inductive => RequestAsAsked
  BY DEF Inductive
<1> QED BY <1>1, InductiveInvariant, PTL

\* Of the words of one of these kinds the last is legal and, like all of them, runnable.
LEMMA LastCanRun ==
    ASSUME Inductive, pc = "bench", Runnable, NEW kinds, Given(argv, Len(argv), kinds),
           NEW w, w = argv[Last(argv, Len(argv), kinds)]
    PROVE  /\ w \in Word /\ w.kind \in kinds /\ LegalOption(w)
           /\ w.kind \in {"time", "clients"} => w.number.value < IntLimit
           /\ w.kind = "proxy" /\ w.port.colon = "inside" => IsPort(w.port.number)
<1>1. PICK j \in 1 .. Len(argv) : j = Last(argv, Len(argv), kinds) /\ argv[j].kind \in kinds
  BY TypesOf, LastGiven
<1>2. w = argv[j] /\ w \in Word /\ j \in DOMAIN argv
  BY <1>1, TypesOf
<1>3. LegalOption(argv[j])
  BY <1>2 DEF Inductive, RefusedForCause, Legal
<1>4. /\ argv[j].kind \in {"time", "clients"} => argv[j].number.value < IntLimit
      /\ argv[j].kind = "proxy" /\ argv[j].port.colon = "inside" => IsPort(argv[j].port.number)
  BY <1>2 DEF Runnable
<1> QED BY <1>1, <1>2, <1>3, <1>4

\* A number that is legal and fits an int is the one the bench is told.
LEMMA NumberToldIs ==
    ASSUME NEW w \in Word, w.kind \in {"time", "clients"}, LegalOption(w),
           w.number.value < IntLimit
    PROVE  NumberOf(w) = w.number.value /\ NumberOf(w) \in Int /\ NumberOf(w) > 0
<1>1. w.number \in Numeral /\ Good(w.number)
  BY WordFields DEF LegalOption
<1>2. w.number.value \in Int /\ 0 < w.number.value
  BY <1>1 DEF Numeral, Good
<1>3. ToInt(w.number.value) = w.number.value
  BY <1>2, ToIntType
<1> QED BY <1>2, <1>3 DEF NumberOf

IsPortNumber(p) == p \in Int /\ 1 < p /\ p <= 65535

\* So is a port that exists.
LEMMA PortToldIs ==
    ASSUME NEW n \in Numeral, IsPort(n)
    PROVE  IsPortNumber(ToInt(n.value))
<1>1. n.value \in Int
  BY DEF Numeral
<1>2. 0 < n.value /\ n.value < IntLimit
  BY <1>1, Limits DEF IsPort
<1>3. ToInt(n.value) = n.value
  BY <1>1, <1>2, ToIntType
<1> QED BY <1>1, <1>3 DEF IsPort, IsPortNumber

LEMMA HandedOverHolds ==
    ASSUME Inductive, pc = "bench", Runnable
    PROVE  CanRun
<1> DEFINE n == Len(argv)
<1>1. OptionsAsked(args, argv, n)
  <2>1. k - 1 = n
    BY TypesOf DEF Inductive, Accepted
  <2> QED BY <2>1 DEF Inductive, OptionsAsAsked
<1>2. args \in ArgumentsRecord /\ n \in Nat
  BY TypesOf
<1>3. args.clients \in Int /\ args.clients > 0
  <2>1. args.clients = IF Given(argv, n, {"clients"})
                       THEN NumberOf(argv[Last(argv, n, {"clients"})]) ELSE 1
    BY <1>1 DEF OptionsAsked, Set
  <2>2. CASE Given(argv, n, {"clients"})
    <3>1. PICK w : w = argv[Last(argv, n, {"clients"})]
      OBVIOUS
    <3>2. w \in Word /\ w.kind = "clients" /\ LegalOption(w) /\ w.number.value < IntLimit
      BY <2>2, <3>1, LastCanRun
    <3> QED BY <2>1, <2>2, <3>1, <3>2, NumberToldIs
  <2> QED BY <2>1, <2>2
<1>4. args.bench_time \in Int /\ args.bench_time > 0
  <2>1. args.bench_time = IF Given(argv, n, {"time"})
                          THEN NumberOf(argv[Last(argv, n, {"time"})]) ELSE 30
    BY <1>1 DEF OptionsAsked, Set
  <2>2. CASE Given(argv, n, {"time"})
    <3>1. PICK w : w = argv[Last(argv, n, {"time"})]
      OBVIOUS
    <3>2. w \in Word /\ w.kind = "time" /\ LegalOption(w) /\ w.number.value < IntLimit
      BY <2>2, <3>1, LastCanRun
    <3> QED BY <2>1, <2>2, <3>1, <3>2, NumberToldIs
  <2> QED BY <2>1, <2>2
<1>5. args.proxy_host # NoHost => IsPortNumber(args.proxy_port)
  <2> SUFFICES ASSUME args.proxy_host # NoHost PROVE IsPortNumber(args.proxy_port)
    OBVIOUS
  <2>1. Given(argv, n, {"proxy"})
    BY <1>1 DEF OptionsAsked, Set
  <2>2. PICK w : w = argv[Last(argv, n, {"proxy"})]
    OBVIOUS
  <2>3. args.proxy_port = ProxyPortOf(w)
    BY <1>1, <2>1, <2>2 DEF OptionsAsked, Set
  <2>4. w \in Word /\ w.kind = "proxy" /\ (w.port.colon = "inside" => IsPort(w.port.number))
    BY <2>1, <2>2, LastCanRun
  <2>5. w.port.number \in Numeral
    BY <2>4, WordFields DEF Port
  <2>6. CASE w.port.colon = "inside"
    BY <2>3, <2>4, <2>5, <2>6, PortToldIs DEF ProxyPortOf
  <2>7. CASE w.port.colon # "inside"
    BY <2>3, <2>7 DEF ProxyPortOf, IsPortNumber
  <2> QED BY <2>6, <2>7
<1>6. args.target_host # NoHost /\ IsPortNumber(args.target_port)
  <2>1. PICK j \in DOMAIN argv : IsFirstUrl(j) /\ UrlAsked(args, argv[j])
    BY DEF Inductive, UrlAsAsked
  <2>2. PICK u : u = argv[j]
    OBVIOUS
  <2>3. u \in Word /\ u.kind = "url"
    BY <2>1, <2>2, TypesOf DEF IsFirstUrl
  <2>4. u.port.number \in Numeral
    BY <2>3, WordFields DEF Port
  <2>5. /\ u.host # NoHost
        /\ u.port.colon = "none" => ~u.late
        /\ u.port.colon # "none" => IsPort(u.port.number)
    BY <2>1, <2>2 DEF Runnable
  <2>6. /\ args.target_host = IF u.late /\ u.port.colon = "none" THEN NoHost ELSE u.host
        /\ args.target_port = IF u.port.colon # "none" THEN ToInt(u.port.number.value)
                              ELSE IF u.scheme = "https" THEN 443 ELSE 80
    BY <2>1, <2>2 DEF UrlAsked
  <2>7. CASE u.port.colon = "none"
    BY <2>5, <2>6, <2>7 DEF IsPortNumber
  <2>8. CASE u.port.colon # "none"
    BY <2>4, <2>5, <2>6, <2>8, PortToldIs
  <2> QED BY <2>7, <2>8
<1>7. Bench!NumConnections > 0
  BY <1>3 DEF Bench!NumConnections
<1>8. Bench!ValidPort(args.target_port)
  BY <1>6 DEF Bench!ValidPort, IsPortNumber
<1>9. args.proxy_host # NoHost => Bench!ValidPort(args.proxy_port) /\ Bench!NeedProxy
  BY <1>5 DEF Bench!ValidPort, Bench!NeedProxy, IsPortNumber
<1>10. Bench!Dialable
  BY <1>6, <1>8 DEF Bench!Dialable
<1>11. args.proxy_host # NoHost => Bench!TunnelRequestable
  BY <1>6, <1>8, <1>9 DEF Bench!TunnelRequestable
<1> QED BY <1>4, <1>7, <1>9, <1>10, <1>11 DEF CanRun

\* main: nothing is checked between the arguments and the bench, and nothing has to be if
\* the numbers fit, the ports exist and the URL names a host.
THEOREM HandedOverTheorem == Spec => []HandedOver
<1>1. Inductive => HandedOver
  BY HandedOverHolds DEF HandedOver
<1> QED BY <1>1, InductiveInvariant, PTL
=============================================================================
