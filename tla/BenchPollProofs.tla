--------------------------- MODULE BenchPollProofs ---------------------------
(***************************************************************************)
(* Theorems about bench_poll for every number of clients, every set of     *)
(* descriptors, every width of a char and every other constant.            *)
(***************************************************************************)
EXTENDS BenchPoll, HandlersProofs

USE ConnectionAssumption, FdsAssumption

-----------------------------------------------------------------------------
(* The bitmap: a position is an offset in one char, and only that position. *)

LEMMA Division ==
    ASSUME NEW a \in Nat, NEW b \in Nat \ {0}
    PROVE  /\ a \div b \in Nat /\ a % b \in 0 .. b - 1
           /\ a = b * (a \div b) + (a % b)
OBVIOUS

LEMMA PositionsApart ==
    ASSUME NEW a \in Nat, NEW c \in Nat, NEW b \in Nat \ {0},
           a \div b = c \div b, a % b = c % b
    PROVE  a = c
BY Division

LEMMA Multiples ==
    ASSUME NEW b \in Nat, NEW m \in Nat, NEW n \in Nat, m <= n
    PROVE  b * m <= b * n
<1>1. PICK d \in Nat : n = m + d
  <2>1. n - m \in Nat /\ n = m + (n - m)
    OBVIOUS
  <2> QED BY <2>1
<1>2. b * d \in Nat /\ b * m \in Nat
  OBVIOUS
<1>3. b * (m + d) = b * m + b * d
  OBVIOUS
<1> QED BY <1>1, <1>2, <1>3

\* BITMAP_SIZE leaves room for every connection, and no position of one is cut
\* off by the unsigned short it is passed as.
LEMMA SizeCovers ==
    /\ BitmapSize \in Nat
    /\ NumConnections <= BitmapSize * CharBits
    /\ \A c \in Conns : Short(c) = c /\ InBitmap(c, BitmapSize)
<1> DEFINE q == NumConnections \div CharBits
           r == NumConnections % CharBits
<1>1. /\ q \in Nat /\ r \in 0 .. CharBits - 1 /\ NumConnections = CharBits * q + r
      /\ CharBits \in Nat
  BY Division, ConnsNonEmpty, BitmapAssumption
<1> HIDE DEF q, r
<1>2. BitmapSize = IF r = 0 THEN q ELSE q + 1
  BY <1>1 DEF BitmapSize, q, r
<1>3. BitmapSize \in Nat /\ NumConnections <= BitmapSize * CharBits
  <2>1. CASE r = 0
    BY <1>1, <1>2, <2>1
  <2>2. CASE r # 0
    <3>1. (q + 1) * CharBits = CharBits * q + CharBits
      BY <1>1
    <3> QED BY <1>1, <1>2, <2>2, <3>1
  <2> QED BY <2>1, <2>2
<1>4. NumConnections <= 65536
  BY BenchPollAssumption DEF NumConnections
<1>5. ASSUME NEW c \in Conns PROVE Short(c) = c /\ InBitmap(c, BitmapSize)
  <2>1. c \in Nat /\ c < NumConnections /\ c < 65536
    BY <1>4, ConnsNonEmpty DEF Conns
  <2>2. c % 65536 = c
    BY <2>1
  <2>3. BitmapSize * CharBits \in Nat
    BY <1>1, <1>3
  <2> QED BY <1>3, <2>1, <2>2, <2>3, ConnsNonEmpty DEF Short, InBitmap
<1> QED BY <1>3, <1>5

\* The char and the offset that a connection's bit has in the bitmap.
LEMMA PlaceOf ==
    ASSUME NEW c \in Conns
    PROVE  /\ c \div CharBits \in 0 .. BitmapSize - 1 /\ c % CharBits \in 0 .. CharBits - 1
           /\ \A d \in Conns : d # c => c \div CharBits # d \div CharBits
                                        \/ c % CharBits # d % CharBits
<1> DEFINE q == c \div CharBits
<1>1. c \in Nat /\ CharBits \in Nat \ {0} /\ Conns \subseteq Nat /\ c < NumConnections
  BY BitmapAssumption, ConnsNonEmpty DEF Conns
<1>2. q \in Nat /\ c % CharBits \in 0 .. CharBits - 1 /\ c = CharBits * q + (c % CharBits)
  BY <1>1, Division
<1>3. \A d \in Conns : d # c => q # d \div CharBits \/ c % CharBits # d % CharBits
  BY <1>1, PositionsApart
<1> HIDE DEF q
<1>4. q < BitmapSize
  <2> SUFFICES ASSUME BitmapSize <= q PROVE FALSE
    BY <1>2, SizeCovers
  <2>1. CharBits * BitmapSize <= CharBits * q
    BY <1>1, <1>2, SizeCovers, Multiples
  <2>2. CharBits * BitmapSize = BitmapSize * CharBits
    BY <1>1, SizeCovers
  <2>3. CharBits * q \in Nat /\ CharBits * BitmapSize \in Nat
    BY <1>1, <1>2, SizeCovers
  <2> QED BY <1>1, <1>2, <2>1, <2>2, <2>3, SizeCovers, ConnsNonEmpty
<1> QED BY <1>2, <1>3, <1>4, SizeCovers DEF q

\* get_bitmap finds what is in the array, for every connection.
LEMMA BitOf ==
    ASSUME NEW c \in Conns
    PROVE  /\ IsSet(c) <=> c % CharBits \in bitmap[c \div CharBits]
           /\ IsSet(c)' <=> c % CharBits \in bitmap'[c \div CharBits]
BY SizeCovers DEF IsSet, get_bitmap

\* An empty bitmap marks nobody, and set_bitmap marks one connection and no other.
LEMMA ClearedMarksNone ==
    ASSUME bitmap' = Cleared(BitmapSize)
    PROVE  bitmap' \in Bitmaps(BitmapSize) /\ MarkedConns' = {}
<1>1. ASSUME NEW c \in Conns PROVE ~IsSet(c)'
  BY PlaceOf, BitOf DEF Cleared
<1> QED BY <1>1 DEF Cleared, Bitmaps, MarkedConns

LEMMA SetMarks ==
    ASSUME bitmap \in Bitmaps(BitmapSize), NEW c \in Conns, Marked(c)
    PROVE  /\ bitmap' \in Bitmaps(BitmapSize)
           /\ \A d \in Conns : IsSet(d)' <=> IsSet(d) \/ d = c
           /\ MarkedConns' = MarkedConns \cup {c}
<1> DEFINE q == c \div CharBits
           r == c % CharBits
<1>1. /\ q \in 0 .. BitmapSize - 1 /\ r \in 0 .. CharBits - 1
      /\ \A d \in Conns : d # c => q # d \div CharBits \/ r # d % CharBits
  BY PlaceOf
<1>2. bitmap' = [bitmap EXCEPT ![q] = @ \cup {r}]
  BY SizeCovers DEF Marked, set_bitmap
<1>3. \A d \in Conns : d \div CharBits \in 0 .. BitmapSize - 1
  BY PlaceOf
<1>4. ASSUME NEW d \in Conns
      PROVE  IsSet(d)' <=> IsSet(d) \/ d = c
  <2> DEFINE p == d \div CharBits
             o == d % CharBits
  <2>1. p \in 0 .. BitmapSize - 1 /\ (d # c => q # p \/ r # o) /\ (d = c => q = p /\ r = o)
    BY <1>1, <1>3
  <2>2. (IsSet(d) <=> o \in bitmap[p]) /\ (IsSet(d)' <=> o \in bitmap'[p])
    BY BitOf
  <2> HIDE DEF p, o, q, r
  <2>3. bitmap'[p] = IF p = q THEN bitmap[p] \cup {r} ELSE bitmap[p]
    BY <1>1, <1>2, <2>1 DEF Bitmaps
  <2> QED BY <2>1, <2>2, <2>3
<1>5. bitmap' \in Bitmaps(BitmapSize)
  <2> HIDE DEF q, r
  <2> QED BY <1>1, <1>2 DEF Bitmaps
<1> QED BY <1>4, <1>5 DEF MarkedConns

-----------------------------------------------------------------------------
(* The k-th marked connection.                                              *)

LEMMA MarkedFinite ==
    /\ IsFiniteSet(MarkedConns) /\ Cardinality(MarkedConns) \in Nat
    /\ \A S \in SUBSET MarkedConns : /\ IsFiniteSet(S) /\ Cardinality(S) \in Nat
                                     /\ Cardinality(S) <= Cardinality(MarkedConns)
<1>1. IsFiniteSet(MarkedConns)
  BY ConnsFinite, FS_Subset DEF MarkedConns
<1> QED BY <1>1, FS_Subset, FS_CardinalityType

\* A marked connection has one of the pollfds.
LEMMA RankInside ==
    ASSUME NEW c \in MarkedConns
    PROVE  Rank(c) \in 1 .. Cardinality(MarkedConns)
<1> DEFINE below == {d \in MarkedConns : d < c}
<1>1. below \in SUBSET MarkedConns /\ below \cup {c} \in SUBSET MarkedConns /\ c \notin below
  BY DEF MarkedConns, Conns
<1>2. Cardinality(below \cup {c}) = Cardinality(below) + 1
  BY <1>1, MarkedFinite, FS_AddElement
<1>3. Cardinality(below) \in Nat /\ Cardinality(below \cup {c}) <= Cardinality(MarkedConns)
  BY <1>1, MarkedFinite
<1> QED BY <1>2, <1>3, MarkedFinite DEF Rank

\* The cursor moves on with the marked connections.
LEMMA RankNext ==
    ASSUME NEW c \in Conns
    PROVE  Rank(c + 1) = Rank(c) + IF IsSet(c) THEN 1 ELSE 0
<1> DEFINE below == {d \in MarkedConns : d < c}
           upto == {d \in MarkedConns : d < c + 1}
<1>1. \A d \in Conns : d < c + 1 <=> d < c \/ d = c
  BY DEF Conns
<1>2. CASE IsSet(c)
  <2>1. upto = below \cup {c} /\ c \notin below /\ below \in SUBSET MarkedConns
    BY <1>1, <1>2 DEF MarkedConns, Conns
  <2>2. Cardinality(upto) = Cardinality(below) + 1
    BY <2>1, MarkedFinite, FS_AddElement
  <2>3. Cardinality(below) \in Nat
    BY <2>1, MarkedFinite
  <2> QED BY <1>2, <2>2, <2>3 DEF Rank
<1>3. CASE ~IsSet(c)
  <2>1. upto = below /\ below \in SUBSET MarkedConns
    BY <1>1, <1>3 DEF MarkedConns
  <2>2. Cardinality(below) \in Nat
    BY <2>1, MarkedFinite
  <2>3. Cardinality(upto) = Cardinality(below)
    BY <2>1
  <2>4. Rank(c + 1) = Rank(c) /\ Rank(c) \in Nat
    BY <2>2, <2>3 DEF Rank
  <2> QED BY <1>3, <2>4
<1> QED BY <1>2, <1>3

\* Marking a connection beyond the others changes no rank but gives it the last.
LEMMA RankAdded ==
    ASSUME NEW c \in Conns, MarkedConns' = MarkedConns \cup {c}, \A d \in MarkedConns : d < c
    PROVE  /\ \A d \in MarkedConns : Rank(d)' = Rank(d)
           /\ Rank(c)' = Cardinality(MarkedConns) + 1
           /\ Cardinality(MarkedConns)' = Cardinality(MarkedConns) + 1
<1>1. c \notin MarkedConns /\ c \in Int /\ MarkedConns \subseteq Int
  BY DEF MarkedConns, Conns
<1>2. ASSUME NEW d \in MarkedConns PROVE Rank(d)' = Rank(d)
  <2>1. {e \in MarkedConns' : e < d} = {e \in MarkedConns : e < d}
    BY <1>1, <1>2
  <2> QED BY <2>1 DEF Rank
<1>3. {e \in MarkedConns' : e < c} = MarkedConns
  <2>1. ~(c < c)
    BY <1>1
  <2> QED BY <2>1
<1>4. Cardinality(MarkedConns)' = Cardinality(MarkedConns) + 1
  BY <1>1, MarkedFinite, FS_AddElement
<1> QED BY <1>2, <1>3, <1>4 DEF Rank

-----------------------------------------------------------------------------
(* handle_ready_connection.                                                 *)

LEMMA CoreTypes ==
    ASSUME Core
    PROVE  /\ Owned /\ HandlersTypeOK /\ conn \in [Conns -> ConnectionRecord]
           /\ phase \in Phases /\ i \in Nat /\ cursor \in Nat /\ totals \in Totals
           /\ expired \in BOOLEAN /\ restarted \in SUBSET Conns
           /\ pollfds \in Seq(PollFd) /\ bitmap \in Bitmaps(BitmapSize)
           /\ phase \in {"init", "setup", "handle", "report"} => i \in Conns
           /\ \A c \in Conns : Forced => conn[c].state # "RECEIVING"
BY DEF Core, TypeOK, HandlersTypeOK, Bookkeeping, Owned

\* The second pass only reaches connections that still wait.
LEMMA HandledWaits ==
    ASSUME Core, phase = "handle", IsSet(i)
    PROVE  i \in Conns /\ Waits(i)
<1>1. i \in Conns /\ i \in MarkedConns
  BY CoreTypes DEF MarkedConns
<1>2. conn[i].state \in Waiting
  BY <1>1, CoreTypes DEF Core, PollPairing, Paired
<1> QED BY <1>1, <1>2, CoreTypes, OwnedWaits

LEMMA ProxyConnectSettles ==
    ASSUME NEW c \in Conns, Waits(c), NEW n \in SendResults(Fd(c), ConnectLen - conn[c].bytes_sent),
           TunnelChunk(c, n), Becomes(c, TunnelSent(conn[c], n))
    PROVE  Settled(c)
<1> DEFINE k == conn[c]
<1>1. n \in Int /\ n >= -1 /\ k \in ConnectionRecord /\ k.bytes_sent \in Nat
  BY WaitsTypes DEF SendResults
<1>2. OnSocketOf(c) /\ KeepsContext /\ errno' \in Errno
  BY WaitsTypes, DrainType, ErrnoType DEF TunnelChunk
<1>3. OnWireOf(c)
  BY <1>1, WaitsTypes, WireGrows DEF TunnelChunk
<1>4. Outcome(k, TunnelSent(k, n))
  <2>1. Outcome(k, Failed(k)) /\ Outcome(k, [k EXCEPT !.state = "PROXY_RESPONSE", !.bytes_sent = 0])
    BY WaitsTypes, OutcomeOps DEF SslState
  <2>2. ASSUME n # -1 PROVE Outcome(k, [k EXCEPT !.bytes_sent = k.bytes_sent + n])
    <3>1. k.bytes_sent + n \in Nat
      BY <1>1, <2>2
    <3> QED BY <3>1, WaitsTypes, OutcomeOps DEF SslState
  <2> QED BY <2>1, <2>2 DEF TunnelSent
<1> QED BY <1>2, <1>3, <1>4, SettledBy

\* Every call of handle_ready_connection settles or advances connection i and no other.
LEMMA HandleSettles ==
    ASSUME Core, Handle
    PROVE  Handled /\ Settled(i)
<1>1. Handled
  BY DEF Handle, HandleError, HandleConnecting, HandleProxyConnect, HandleProxyResponse,
         HandleHandshake, HandleSending, HandleReceiving, HandleIgnored, Handling
<1> SUFFICES Settled(i)
  BY <1>1
<1>2. i \in Conns /\ Waits(i)
  BY <1>1, HandledWaits DEF Handled
<1>3. CASE HandleError \/ HandleIgnored
  BY <1>2, <1>3, DroppedSettles DEF HandleError, HandleIgnored
<1>4. CASE HandleConnecting
  BY <1>2, <1>4, ConnectingSettles DEF HandleConnecting
<1>5. CASE HandleProxyConnect
  BY <1>2, <1>5, ProxyConnectSettles, DroppedSettles DEF HandleProxyConnect
<1>6. CASE HandleProxyResponse
  BY <1>2, <1>6, AwaitingTunnelSettles DEF HandleProxyResponse
<1>7. CASE HandleHandshake
  BY <1>2, <1>7, HandshakingSettles DEF HandleHandshake
<1>8. CASE HandleSending
  BY <1>2, <1>8, SendingSettles DEF HandleSending
<1>9. CASE HandleReceiving
  <2>1. ~Forced
    BY <1>2, <1>9, WaitsTypes DEF HandleReceiving, Handling
  <2> QED BY <1>2, <1>9, <2>1, ReceivingSettles DEF HandleReceiving
<1> QED BY <1>3, <1>4, <1>5, <1>6, <1>7, <1>8, <1>9 DEF Handle

-----------------------------------------------------------------------------
(* The round: what setup_connection_fdsets builds.                          *)

Built(n) ==
    /\ Len(pollfds) = Cardinality(MarkedConns)
    /\ \A c \in MarkedConns : c < n /\ Paired(c)
    /\ \A c \in Conns : c < n => Polled(c)

LoopTypes ==
    /\ phase \in Phases /\ i \in Nat /\ bitmap \in Bitmaps(BitmapSize)
    /\ pollfds \in Seq(PollFd) /\ cursor \in Nat /\ totals \in Totals /\ expired \in BOOLEAN
    /\ restarted \in SUBSET Conns

\* A step that leaves the round.
LEMMA LeavesRound ==
    ASSUME Owned', LoopTypes', phase' \notin {"setup", "poll", "handle"},
           phase' \in {"init", "report"} => i' \in Conns,
           phase' = "init" => \A c \in Conns : c >= i' => conn'[c] = Fresh,
           Forced => \A c \in Conns : conn'[c].state # "RECEIVING"
    PROVE  Core'
<1>1. TypeOK' /\ DescriptorOwnership'
  BY DEF Owned, LoopTypes, TypeOK
<1>2. Bookkeeping'
  BY DEF Bookkeeping
<1>3. PollPairing' /\ WaitersPolled' /\ RoundBuilt'
  BY DEF PollPairing, WaitersPolled, RoundBuilt
<1> QED BY <1>1, <1>2, <1>3 DEF Core

\* The for loop of setup_connection_fdsets, once connection i has been seen to.
LEMMA NextSetupCore ==
    ASSUME Core, phase = "setup", NextSetup(pollfds'), cursor' = cursor, UNCHANGED <<totals, expired>>,
           restarted' \in SUBSET Conns,
           Owned', bitmap' \in Bitmaps(BitmapSize), pollfds' \in Seq(PollFd), Built(i)',
           Forced => \A c \in Conns : conn'[c].state # "RECEIVING"
    PROVE  Core'
<1>1. /\ i \in Conns /\ i \in Nat /\ i' = i + 1
      /\ phase' = IF i + 1 = NumConnections THEN IF pollfds' = <<>> THEN "loop" ELSE "poll"
                  ELSE "setup"
      /\ cursor' = 1
  BY CoreTypes DEF NextSetup, LastOr, Core, RoundBuilt
<1>2. LoopTypes'
  BY <1>1, CoreTypes DEF LoopTypes, Phases
<1>3. phase' = "setup" => i' \in Conns
  BY <1>1, ConnsNonEmpty DEF Conns
<1>4. phase' = "poll" => \A c \in Conns : c < i'
  BY <1>1, ConnsNonEmpty DEF Conns
<1>5. TypeOK' /\ DescriptorOwnership'
  BY <1>2 DEF Owned, LoopTypes, TypeOK
<1>6. Bookkeeping'
  BY <1>1, <1>3 DEF Bookkeeping
<1>7. PollPairing' /\ WaitersPolled' /\ RoundBuilt'
  BY <1>1, <1>4 DEF PollPairing, WaitersPolled, RoundBuilt, Built
<1> QED BY <1>5, <1>6, <1>7 DEF Core

\* A connection that is not polled in this round is IDLE or has just been dialled.
LEMMA PassedBuilt ==
    ASSUME Core, phase = "setup", UNCHANGED <<bitmap, pollfds>>, i' = i + 1,
           \A d \in Conns \ {i} : conn'[d] = conn[d], restarted \subseteq restarted',
           conn'[i].state \notin Waiting \/ i \in restarted'
    PROVE  Built(i)'
<1>1. Built(i) /\ i \in Conns
  BY CoreTypes DEF Core, RoundBuilt, Built
<1>2. \A c \in Conns : (IsSet(c)' <=> IsSet(c)) /\ (c < i' <=> c < i \/ c = i) /\ (c < i => c # i)
  BY <1>1 DEF IsSet, Conns
<1>3. MarkedConns' = MarkedConns
  BY <1>2 DEF MarkedConns
<1>4. ASSUME NEW c \in MarkedConns PROVE c < i' /\ Paired(c)'
  <2>1. c \in Conns /\ c < i /\ Paired(c) /\ conn'[c] = conn[c]
    BY <1>1, <1>2, <1>4 DEF Built, MarkedConns
  <2>2. Rank(c)' = Rank(c)
    BY <1>3 DEF Rank
  <2> QED BY <1>2, <2>1, <2>2 DEF Paired, Fd
<1>5. ASSUME NEW c \in Conns, c < i' PROVE Polled(c)'
  <2>1. CASE c = i
    BY <2>1 DEF Polled
  <2>2. CASE c # i
    BY <1>1, <1>2, <1>5, <2>2 DEF Built, Polled
  <2> QED BY <2>1, <2>2
<1> QED BY <1>1, <1>3, <1>4, <1>5 DEF Built

LEMMA SetupIdleBuilt ==
    ASSUME Core, SetupIdle
    PROVE  Owned' /\ conn' = conn /\ Built(i)'
<1>1. Owned' /\ conn' = conn
  BY CoreTypes, QuietOwned DEF SetupIdle
<1>2. Built(i)'
  BY <1>1, PassedBuilt DEF SetupIdle, NextSetup, Waiting
<1> QED BY <1>1, <1>2

LEMMA SetupIdleCore ==
    ASSUME Core, SetupIdle
    PROVE  Core'
BY SetupIdleBuilt, CoreTypes, NextSetupCore DEF SetupIdle

LEMMA SetupRestartBuilt ==
    ASSUME Core, SetupRestart
    PROVE  /\ i \in Conns /\ phase = "setup" /\ restarted' = restarted \cup {i}
           /\ Owned' /\ \A d \in Conns \ {i} : conn'[d] = conn[d]
           /\ conn'[i].state \in {"IDLE", "CONNECTING"} /\ Built(i)'
<1>1. i \in Conns /\ phase = "setup" /\ conn[i].state \in Over
  BY CoreTypes DEF SetupRestart
<1>2. /\ Owned' /\ \A d \in Conns \ {i} : conn'[d] = conn[d]
      /\ conn'[i].state \in {"IDLE", "CONNECTING"}
  BY <1>1, CoreTypes, RedialledOwned DEF SetupRestart
<1>3. Built(i)'
  BY <1>1, <1>2, PassedBuilt DEF SetupRestart, NextSetup
<1> QED BY <1>1, <1>2, <1>3 DEF SetupRestart

LEMMA SetupRestartCore ==
    ASSUME Core, SetupRestart
    PROVE  Core'
<1>1. Forced => \A c \in Conns : conn'[c].state # "RECEIVING"
  BY SetupRestartBuilt, CoreTypes
<1>2. restarted' \in SUBSET Conns
  BY SetupRestartBuilt, CoreTypes
<1> QED BY <1>1, <1>2, SetupRestartBuilt, CoreTypes, NextSetupCore DEF SetupRestart

\* set_bitmap and a new pollfd for connection i.
LEMMA SetupWaitingCore ==
    ASSUME Core, SetupWaiting
    PROVE  Core'
<1>1. /\ i \in Conns /\ phase = "setup" /\ conn[i].state \in Waiting /\ Built(i)
      /\ Marked(i) /\ pollfds' = Append(pollfds, Entry(i)) /\ pollfds \in Seq(PollFd)
      /\ i' = i + 1 /\ conn' = conn /\ bitmap \in Bitmaps(BitmapSize) /\ restarted' = restarted
  BY CoreTypes DEF SetupWaiting, NextSetup, handlerVars, Core, RoundBuilt, Built
<1>2. Owned'
  BY CoreTypes, QuietOwned DEF SetupWaiting
<1>3. PICK n \in Conns : n = i
  BY <1>1
<1>4. /\ bitmap' \in Bitmaps(BitmapSize)
      /\ \A c \in Conns : IsSet(c)' <=> IsSet(c) \/ c = n
      /\ MarkedConns' = MarkedConns \cup {n}
  BY <1>1, <1>3, SetMarks
<1>5. /\ \A c \in MarkedConns : Rank(c)' = Rank(c)
      /\ Rank(n)' = Cardinality(MarkedConns) + 1
      /\ Cardinality(MarkedConns)' = Cardinality(MarkedConns) + 1
  BY <1>1, <1>3, <1>4, RankAdded DEF Built
<1>6. Entry(i) \in PollFd
  <2>1. Fd(i) \in Nat
    BY <1>1, CoreTypes DEF Core, DescriptorOwnership, Waiting, HandlersTypeOK, SocketsTypeOK
  <2>2. Interest(conn[i].state) \in SUBSET Bits
    BY DEF Interest, Bits
  <2> QED BY <2>1, <2>2 DEF Entry, PollFd
<1>7. /\ pollfds' \in Seq(PollFd) /\ Len(pollfds') = Len(pollfds) + 1
      /\ pollfds'[Len(pollfds) + 1] = Entry(i)
      /\ \A k \in 1 .. Len(pollfds) : pollfds'[k] = pollfds[k]
  BY <1>1, <1>6
<1>8. \A c \in Conns : c < i' <=> c < i \/ c = n
  BY <1>1, <1>3 DEF Conns
<1>9. ASSUME NEW c \in MarkedConns' PROVE c < i' /\ Paired(c)'
  <2>1. CASE c = n
    <3>1. pollfds'[Rank(c)'] = Entry(i)
      BY <1>1, <1>5, <1>7, <2>1 DEF Built
    <3>2. Entry(i).fd = Fd(i) /\ Entry(i).events = Interest(conn[i].state)
      BY DEF Entry
    <3>3. c = i /\ c < i' /\ conn'[c] = conn[c]
      BY <1>1, <1>3, <1>8, <2>1
    <3> QED BY <1>1, <3>1, <3>2, <3>3 DEF Paired, Fd
  <2>2. CASE c # n
    <3>1. c \in MarkedConns /\ c \in Conns /\ c < i /\ Paired(c)
      BY <1>1, <1>4, <1>9, <2>2 DEF Built, MarkedConns
    <3>2. Rank(c)' = Rank(c) /\ Rank(c) \in 1 .. Len(pollfds)
      BY <1>1, <1>5, <3>1, RankInside DEF Built
    <3> QED BY <1>1, <1>7, <1>8, <3>1, <3>2 DEF Paired, Fd
  <2> QED BY <2>1, <2>2
<1>10. ASSUME NEW c \in Conns, c < i' PROVE Polled(c)'
  BY <1>1, <1>4, <1>8, <1>10 DEF Built, Polled
<1>11. Built(i)'
  BY <1>1, <1>5, <1>7, <1>9, <1>10 DEF Built
<1> QED BY <1>1, <1>2, <1>4, <1>7, <1>11, CoreTypes, NextSetupCore DEF SetupWaiting

-----------------------------------------------------------------------------
(* poll(), and the second pass.                                             *)

LEMMA PollCore ==
    ASSUME Core, Poll
    PROVE  Core'
<1>1. /\ phase = "poll" /\ pollfds \in Seq(PollFd) /\ cursor = 1 /\ cursor' = 1 /\ i' = 0
      /\ conn' = conn /\ bitmap' = bitmap /\ phase' \in {"loop", "handle"}
      /\ UNCHANGED <<totals, expired, restarted>>
      /\ Len(pollfds) = Cardinality(MarkedConns) /\ \A c \in MarkedConns : Paired(c)
      /\ pollfds' = [k \in DOMAIN pollfds |->
                        [pollfds[k] EXCEPT !.revents = Revents(pollfds[k])]]
  BY CoreTypes DEF Poll, handlerVars, Core, PollPairing, Bookkeeping
<1>2. Owned'
  BY CoreTypes, QuietOwned DEF Poll
<1>3. DOMAIN pollfds = 1 .. Len(pollfds) /\ Len(pollfds) \in Nat
  BY <1>1
<1>4. ASSUME NEW k \in 1 .. Len(pollfds)
      PROVE  /\ pollfds'[k] \in PollFd
             /\ pollfds'[k].fd = pollfds[k].fd /\ pollfds'[k].events = pollfds[k].events
  <2>1. pollfds[k] \in PollFd
    BY <1>1
  <2>2. Revents(pollfds[k]) \in SUBSET Bits
    BY <2>1 DEF Revents, PollFd, Bits
  <2>3. pollfds'[k] = [pollfds[k] EXCEPT !.revents = Revents(pollfds[k])]
    BY <1>1, <1>3
  <2> HIDE DEF Revents
  <2> QED BY <2>1, <2>2, <2>3 DEF PollFd
<1>5. pollfds' \in Seq(PollFd) /\ Len(pollfds') = Len(pollfds)
  <2>1. pollfds' \in [1 .. Len(pollfds) -> PollFd]
    BY <1>1, <1>3, <1>4
  <2> QED BY <1>3, <2>1
<1>6. LoopTypes'
  BY <1>1, <1>5, CoreTypes DEF LoopTypes, Phases
<1>7. MarkedConns' = MarkedConns
  BY <1>1 DEF MarkedConns, IsSet
<1>8. ASSUME NEW c \in MarkedConns PROVE Paired(c)'
  <2>1. Rank(c)' = Rank(c) /\ Rank(c) \in 1 .. Len(pollfds)
    BY <1>1, <1>7, RankInside DEF Rank
  <2> QED BY <1>1, <1>4, <2>1 DEF Paired, Fd
<1>9. Rank(0)' = 1
  <2>1. {d \in MarkedConns' : d < 0} = {}
    BY DEF MarkedConns, Conns
  <2> QED BY <2>1, FS_EmptySet DEF Rank
<1>10. TypeOK' /\ DescriptorOwnership'
  BY <1>2, <1>6 DEF Owned, LoopTypes, TypeOK
<1>11. Bookkeeping'
  BY <1>1, ConnsNonEmpty DEF Core, Bookkeeping
<1>12. PollPairing'
  BY <1>1, <1>5, <1>7, <1>8, <1>9 DEF PollPairing, Rank
<1>13. WaitersPolled' /\ RoundBuilt'
  BY <1>1 DEF WaitersPolled, RoundBuilt
<1> QED BY <1>10, <1>11, <1>12, <1>13 DEF Core

\* One step of the second pass, over a marked connection or not.
LEMMA NextHandleCore ==
    ASSUME Core, phase = "handle", NextHandle(IF IsSet(i) THEN 1 ELSE 0), Owned',
           \A d \in Conns \ {i} : conn'[d] = conn[d],
           Forced => conn'[i].state # "RECEIVING"
    PROVE  Core'
<1>1. /\ i \in Conns /\ i \in Nat /\ i' = i + 1 /\ phase' \in {"handle", "loop"}
      /\ phase' = "handle" => i + 1 # NumConnections
      /\ UNCHANGED <<bitmap, pollfds, totals, expired, restarted>>
      /\ cursor' = cursor + IF IsSet(i) THEN 1 ELSE 0
      /\ cursor \in Nat /\ cursor = Rank(i)
      /\ Len(pollfds) = Cardinality(MarkedConns)
      /\ \A c \in MarkedConns : c >= i => Paired(c)
  BY CoreTypes DEF NextHandle, LastOr, Core, PollPairing
<1>2. LoopTypes'
  BY <1>1, CoreTypes DEF LoopTypes, Phases
<1>3. MarkedConns' = MarkedConns
  BY <1>1 DEF MarkedConns, IsSet
<1>4. \A c \in Conns : c >= i' => c >= i /\ c # i
  BY <1>1 DEF Conns
<1>5. ASSUME NEW c \in MarkedConns, c >= i' PROVE Paired(c)'
  <2>1. c \in Conns /\ conn'[c] = conn[c] /\ Paired(c)
    BY <1>1, <1>4, <1>5 DEF MarkedConns
  <2>2. Rank(c)' = Rank(c)
    BY <1>3 DEF Rank
  <2> QED BY <1>1, <2>1, <2>2 DEF Paired, Fd
<1>6. cursor' = Rank(i)'
  <2>1. Rank(i + 1) = cursor'
    BY <1>1, RankNext
  <2>2. Rank(i)' = Rank(i + 1)
    BY <1>1, <1>3 DEF Rank
  <2> QED BY <2>1, <2>2
<1>7. phase' = "handle" => i' \in Conns
  BY <1>1, ConnsNonEmpty DEF Conns
<1>8. TypeOK' /\ DescriptorOwnership'
  BY <1>2 DEF Owned, LoopTypes, TypeOK
<1>9. Bookkeeping'
  BY <1>1, <1>7, CoreTypes DEF Bookkeeping
<1>10. PollPairing'
  BY <1>1, <1>3, <1>5, <1>6 DEF PollPairing
<1>11. WaitersPolled' /\ RoundBuilt'
  BY <1>1 DEF WaitersPolled, RoundBuilt
<1> QED BY <1>8, <1>9, <1>10, <1>11 DEF Core

LEMMA HandleUnmarkedCore ==
    ASSUME Core, HandleUnmarked
    PROVE  Core'
<1>1. Owned' /\ conn' = conn
  BY CoreTypes, QuietOwned DEF HandleUnmarked
<1>2. i \in Conns
  BY CoreTypes DEF HandleUnmarked
<1> QED BY <1>1, <1>2, CoreTypes, NextHandleCore DEF HandleUnmarked

\* What a handler leaves of the bench.
LEMMA HandleOwned ==
    ASSUME Core, Handle
    PROVE  /\ i \in Conns /\ Waits(i) /\ Owned' /\ Outcome(conn[i], conn'[i])
           /\ \A d \in Conns \ {i} : conn'[d] = conn[d]
<1>1. Handled /\ Settled(i)
  BY HandleSettles
<1>2. i \in Conns /\ Waits(i) /\ conn[i].state \in Waiting
  BY <1>1, HandledWaits, WaitsTypes DEF Handled
<1> QED BY <1>1, <1>2, CoreTypes, SettledOwned DEF Handled

LEMMA HandleCore ==
    ASSUME Core, Handle
    PROVE  Core'
<1>1. Handled
  BY HandleSettles
<1>2. /\ Owned' /\ \A d \in Conns \ {i} : conn'[d] = conn[d]
      /\ Forced => conn'[i].state # "RECEIVING"
  BY HandleOwned DEF Outcome
<1> QED BY <1>1, <1>2, NextHandleCore DEF Handled

-----------------------------------------------------------------------------
(* Start-up, the head of the loop and the report.                           *)

LEMMA InitConnectionCore ==
    ASSUME Core, InitConnection
    PROVE  Core'
<1>1. /\ i \in Conns /\ conn[i] = Fresh /\ i' = i + 1 /\ phase' \in {"init", "start"}
      /\ phase' = "init" => i + 1 # NumConnections
      /\ \A c \in Conns : c >= i => conn[c] = Fresh
      /\ UNCHANGED <<bitmap, pollfds, cursor, totals, expired, restarted>>
  BY CoreTypes DEF InitConnection, LastOr, Core, Bookkeeping, Conns
<1>2. /\ Owned' /\ \A d \in Conns \ {i} : conn'[d] = conn[d]
      /\ conn'[i].state # "RECEIVING"
  BY <1>1, CoreTypes, FirstDialOwned DEF InitConnection
<1>3. LoopTypes'
  BY <1>1, CoreTypes DEF LoopTypes, Phases
<1>4. /\ phase' = "init" => i' \in Conns
      /\ \A c \in Conns : c >= i' => c # i /\ c >= i
  BY <1>1, ConnsNonEmpty DEF Conns
<1>5. \A c \in Conns : c >= i' => conn'[c] = Fresh
  BY <1>1, <1>2, <1>4
<1>6. Forced => \A c \in Conns : conn'[c].state # "RECEIVING"
  BY <1>2, CoreTypes
<1> QED BY <1>1, <1>2, <1>3, <1>4, <1>5, <1>6, LeavesRound

LEMMA LoopHeadCore ==
    ASSUME Core, LoopHead
    PROVE  Core'
<1>1. /\ phase' \in {"report", "loop", "setup"} /\ i' = 0 /\ cursor' = 1 /\ pollfds' = <<>>
      /\ UNCHANGED <<totals, expired>> /\ conn' = conn /\ restarted' = {}
  BY DEF LoopHead, AfterHead, handlerVars
<1>2. bitmap' \in Bitmaps(BitmapSize) /\ MarkedConns' = {}
  BY ClearedMarksNone DEF LoopHead
<1>3. Owned'
  BY CoreTypes, QuietOwned DEF LoopHead
<1>4. LoopTypes'
  BY <1>1, <1>2, CoreTypes DEF LoopTypes, Phases
<1>5. CASE phase' # "setup"
  BY <1>1, <1>3, <1>4, <1>5, CoreTypes, ConnsNonEmpty, LeavesRound
<1>6. CASE phase' = "setup"
  <2>1. TypeOK' /\ DescriptorOwnership'
    BY <1>3, <1>4 DEF Owned, LoopTypes, TypeOK
  <2>2. Bookkeeping'
    BY <1>1, <1>6, CoreTypes, ConnsNonEmpty DEF Bookkeeping
  <2>3. RoundBuilt'
    <3>1. \A c \in Conns : ~(c < 0)
      BY DEF Conns
    <3>2. Len(pollfds') = Cardinality(MarkedConns')
      BY <1>1, <1>2, FS_EmptySet
    <3> QED BY <1>1, <1>2, <3>1, <3>2 DEF RoundBuilt
  <2>4. PollPairing' /\ WaitersPolled'
    BY <1>6 DEF PollPairing, WaitersPolled
  <2> QED BY <2>1, <2>2, <2>3, <2>4 DEF Core
<1> QED BY <1>5, <1>6

LEMMA ReportCore ==
    ASSUME Core, ReportConnection
    PROVE  Core'
<1>1. /\ i \in Conns /\ i \in Nat /\ i' = i + 1 /\ phase' \in {"report", "done"}
      /\ phase' = "report" => i + 1 # NumConnections
      /\ UNCHANGED <<bitmap, pollfds, cursor, expired, restarted>>
      /\ conn[i] \in ConnectionRecord
  BY CoreTypes DEF ReportConnection, LastOr
<1>2. /\ Owned' /\ \A d \in Conns \ {i} : conn'[d] = conn[d]
      /\ conn'[i] = Cleaned(conn[i])
  <2>1. ctx' \in BOOLEAN
    BY DEF ReportConnection
  <2> QED BY <1>1, <2>1, CoreTypes, ReportedOwned DEF ReportConnection
<1>3. totals' \in Totals
  <2>1. Added(totals, conn[i]) \in Totals
    BY <1>1, CoreTypes, AddedType
  <2> QED BY <2>1 DEF ReportConnection
<1>4. LoopTypes'
  BY <1>1, <1>3, CoreTypes DEF LoopTypes, Phases
<1>5. phase' = "report" => i' \in Conns
  BY <1>1, ConnsNonEmpty DEF Conns
<1>6. Forced => \A c \in Conns : conn'[c].state # "RECEIVING"
  BY <1>1, <1>2, CoreTypes, CleanedOps
<1> QED BY <1>1, <1>2, <1>4, <1>5, <1>6, LeavesRound

\* A step that touches neither the connections nor the loop.
LEMMA IdleCore ==
    ASSUME Core, Owned', conn' = conn, UNCHANGED loopVars, expired' \in BOOLEAN
    PROVE  Core'
<1>1. UNCHANGED <<phase, i, bitmap, pollfds, cursor, totals, restarted>>
  BY DEF loopVars
<1>2. TypeOK' /\ DescriptorOwnership'
  BY <1>1, CoreTypes DEF Owned, TypeOK
<1>3. Bookkeeping'
  BY <1>1 DEF Core, Bookkeeping
<1>4. MarkedConns' = MarkedConns /\ \A c \in Conns : IsSet(c)' <=> IsSet(c)
  BY <1>1 DEF MarkedConns, IsSet
<1>5. \A c \in Conns : Paired(c)' <=> Paired(c)
  BY <1>1, <1>4 DEF Paired, Rank, Fd
<1>6. \A c \in Conns : Polled(c)' <=> Polled(c)
  BY <1>1, <1>4 DEF Polled
<1>7. MarkedConns \subseteq Conns
  BY DEF MarkedConns
<1>8. PollPairing'
  BY <1>1, <1>4, <1>5, <1>7 DEF Core, PollPairing, Rank
<1>9. WaitersPolled' /\ RoundBuilt'
  BY <1>1, <1>4, <1>5, <1>6, <1>7 DEF Core, WaitersPolled, RoundBuilt
<1> QED BY <1>2, <1>3, <1>8, <1>9 DEF Core

-----------------------------------------------------------------------------
(* The round's invariant.                                                   *)

LEMMA InitCore == Init => Core
<1> SUFFICES ASSUME Init PROVE Core
  OBVIOUS
<1>1. HandlersTypeOK
  BY FreshOps
     DEF Init, HandlersInit, HandlersTypeOK, SocketsInit, SocketsTypeOK, Wire, NothingSent, Errno
<1>2. TypeOK
  <2>1. bitmap \in Bitmaps(BitmapSize)
    BY DEF Init, Cleared, Bitmaps
  <2>2. pollfds \in Seq(PollFd)
    BY DEF Init
  <2> QED BY <1>1, <2>1, <2>2 DEF Init, TypeOK, Totals, NoTotals, Phases
<1>3. DescriptorOwnership
  BY DEF Init, HandlersInit, SocketsInit, DescriptorOwnership, Fresh, Fd
<1>4. Bookkeeping
  BY ConnsNonEmpty, FreshOps DEF Init, HandlersInit, Bookkeeping
<1>5. PollPairing /\ WaitersPolled /\ RoundBuilt
  BY DEF Init, PollPairing, WaitersPolled, RoundBuilt
<1> QED BY <1>2, <1>3, <1>4, <1>5 DEF Core

LEMMA NextCore == Core /\ [Next]_vars => Core'
<1> SUFFICES ASSUME Core, [Next]_vars PROVE Core'
  OBVIOUS
<1>1. ASSUME UNCHANGED handlerVars, UNCHANGED <<bitmap, pollfds, cursor, totals, restarted>>,
             expired' \in BOOLEAN,
             \/ phase' \in {"loop", "exit"} /\ i' = i
             \/ phase' = "report" /\ i' = 0
      PROVE  Core'
  <2>1. Owned' /\ conn' = conn
    BY <1>1, CoreTypes, QuietOwned
  <2>2. LoopTypes'
    BY <1>1, CoreTypes DEF LoopTypes, Phases
  <2> QED BY <1>1, <2>1, <2>2, CoreTypes, ConnsNonEmpty, LeavesRound
<1>2. CASE Start \/ SetupFails \/ PollFails \/ SigPipe
  BY <1>1, <1>2, CoreTypes DEF Start, SetupFails, PollFails, SigPipe
<1>3. ASSUME NEW c \in Conns, Network(c) PROVE Core'
  <2>1. Owned' /\ conn' = conn
    BY <1>3, CoreTypes, PeerOwned DEF Network
  <2> QED BY <1>3, <2>1, CoreTypes, IdleCore DEF Network
<1>4. CASE Tick \/ UNCHANGED vars
  <2>1. UNCHANGED handlerVars /\ UNCHANGED loopVars /\ expired' \in BOOLEAN
    BY <1>4, CoreTypes DEF Tick, vars
  <2> QED BY <2>1, CoreTypes, QuietOwned, IdleCore
<1> QED
  BY <1>2, <1>3, <1>4, InitConnectionCore, LoopHeadCore, SetupIdleCore, SetupRestartCore,
     SetupWaitingCore, PollCore, HandleUnmarkedCore, HandleCore, ReportCore
     DEF Next, Bench, Terminated

-----------------------------------------------------------------------------
(* The order of an attempt, with its tunnel, and what the report leaves.    *)

TunnelFits(k, w) ==
    /\ k.state = "CONNECTING" => w.tunnel = 0
    /\ k.state = "PROXY_CONNECT" => w.tunnel = k.bytes_sent /\ k.bytes_sent < ConnectLen
    /\ k.state = "PROXY_RESPONSE" => w.tunnel = ConnectLen

LEMMA AllTunnels ==
    /\ TunnelsInOrder <=> \A c \in Conns : TunnelFits(conn[c], wire[c])
    /\ TunnelsInOrder' <=> \A c \in Conns : TunnelFits(conn'[c], wire'[c])
BY DEF TunnelsInOrder, TunnelRequestWhole, TunnelFits

\* send_proxy_connect: the counter follows the chunks until all of them are out.
LEMMA ProxyConnectInOrder ==
    ASSUME NEW c \in Conns, Waits(c), InOrder(c), TunnelFits(conn[c], wire[c]),
           conn[c].state = "PROXY_CONNECT",
           NEW n \in SendResults(Fd(c), ConnectLen - conn[c].bytes_sent),
           TunnelChunk(c, n), Becomes(c, TunnelSent(conn[c], n))
    PROVE  InOrder(c)' /\ TunnelFits(conn'[c], wire'[c])
<1> DEFINE k == conn[c]
           sent == k.bytes_sent + n
<1>1. /\ k \in ConnectionRecord /\ k.bytes_sent \in Nat /\ k.bytes_sent < ConnectLen
      /\ wire[c].tunnel = k.bytes_sent
      /\ n \in Int /\ n >= -1 /\ n <= ConnectLen - k.bytes_sent
      /\ conn \in [Conns -> ConnectionRecord]
  BY WaitsTypes DEF SendResults, TunnelFits, Waits, HandlersTypeOK
<1>2. /\ wire'[c].tunnel = k.bytes_sent + (IF n > 0 THEN n ELSE 0)
      /\ wire'[c].request = wire[c].request /\ KeepsContext /\ OnWireOf(c)
  BY <1>1, TunnelChunkWire, WaitsTypes
<1>3. CASE n = -1
  <2>1. Becomes(c, Failed(k)) /\ Failed(k).state = "ERROR" /\ conn'[c] = Failed(k)
    BY <1>1, <1>3 DEF TunnelSent, Becomes, Failed, ConnectionRecord
  <2> QED BY <1>2, <2>1, DroppedInOrder DEF TunnelFits
<1>4. ASSUME n # -1, NEW m \in ConnectionRecord, Becomes(c, m),
             \/ m.state = "PROXY_CONNECT" /\ m.bytes_sent = sent /\ sent < ConnectLen
             \/ m.state = "PROXY_RESPONSE" /\ m.bytes_sent = 0 /\ sent = ConnectLen,
             m.ssl = k.ssl
      PROVE  InOrder(c)' /\ TunnelFits(conn'[c], wire'[c])
  <2>1. wire'[c].tunnel = sent
    BY <1>1, <1>2, <1>4
  <2>2. InOrder(c)'
    BY <1>1, <1>4, TunnelSentInOrder
  <2>3. conn'[c] = m
    BY <1>1, <1>4 DEF Becomes
  <2> QED BY <1>4, <2>1, <2>2, <2>3 DEF TunnelFits
<1>5. CASE n # -1 /\ sent < ConnectLen
  <2> DEFINE m == [k EXCEPT !.bytes_sent = sent]
  <2>1. sent \in Nat /\ Becomes(c, m)
    BY <1>1, <1>5 DEF TunnelSent
  <2> HIDE DEF sent
  <2>2. /\ m \in ConnectionRecord /\ m.state = k.state /\ m.bytes_sent = sent /\ m.ssl = k.ssl
    BY <1>1, <2>1 DEF ConnectionRecord
  <2> HIDE DEF m
  <2> QED BY <1>4, <1>5, <2>1, <2>2
<1>6. CASE n # -1 /\ ~(sent < ConnectLen)
  <2> DEFINE m == [k EXCEPT !.state = "PROXY_RESPONSE", !.bytes_sent = 0]
  <2>1. sent = ConnectLen /\ Becomes(c, m)
    BY <1>1, <1>6 DEF TunnelSent
  <2> HIDE DEF sent
  <2>2. /\ m \in ConnectionRecord /\ m.state = "PROXY_RESPONSE" /\ m.bytes_sent = 0
        /\ m.ssl = k.ssl
    BY <1>1 DEF ConnectionRecord, ConnectionState, Waiting
  <2> HIDE DEF m
  <2> QED BY <1>4, <1>6, <2>1, <2>2
<1> QED BY <1>3, <1>5, <1>6
\* The steps of the tunnel that send nothing of the CONNECT request.
LEMMA ConnectingTunnel ==
    ASSUME NEW c \in Conns, Waits(c), InOrder(c), TunnelFits(conn[c], wire[c]),
           conn[c].state = "CONNECTING", Connecting(c)
    PROVE  TunnelFits(conn'[c], wire'[c])
<1>1. conn[c].bytes_sent = 0 /\ wire' = wire /\ wire[c].tunnel = 0
  BY DEF Connecting, InOrder, WireFits, TunnelFits
<1>2. \/ conn'[c].state \in {"SENDING", "ERROR", "TLS_HANDSHAKE"}
      \/ conn'[c].state = "PROXY_CONNECT" /\ conn'[c].bytes_sent = 0
  BY <1>1, ConnectingLeads
<1> QED BY <1>1, <1>2 DEF TunnelFits

LEMMA AwaitingTunnelTunnel ==
    ASSUME NEW c \in Conns, Waits(c), TunnelFits(conn[c], wire[c]),
           conn[c].state = "PROXY_RESPONSE", AwaitingTunnel(c)
    PROVE  TunnelFits(conn'[c], wire'[c])
<1> DEFINE k == conn[c]
<1>1. /\ k \in ConnectionRecord /\ wire' = wire /\ wire[c].tunnel = ConnectLen
      /\ conn \in [Conns -> ConnectionRecord]
  BY WaitsTypes DEF AwaitingTunnel, TunnelFits, Waits, HandlersTypeOK
<1>2. ASSUME NEW m, Becomes(c, m), m.state \notin {"CONNECTING", "PROXY_CONNECT"}
      PROVE  TunnelFits(conn'[c], wire'[c])
  BY <1>1, <1>2 DEF Becomes, TunnelFits
<1>3. /\ Failed(k).state = "ERROR"
      /\ \A n : Received(k, n).state = "PROXY_RESPONSE"
      /\ \A ssl \in SslState : WithSsl(TunnelOpen(k), ssl).state = "TLS_HANDSHAKE"
  <2>1. TunnelOpen(k) \in ConnectionRecord
    BY <1>1, RecordOps DEF SslState
  <2>2. ASSUME NEW n PROVE Received(k, n).state = "PROXY_RESPONSE"
    BY <1>1 DEF Received, ConnectionRecord
  <2>3. \A ssl \in SslState : WithSsl(TunnelOpen(k), ssl).state = "TLS_HANDSHAKE"
    BY <2>1 DEF WithSsl, ConnectionRecord
  <2>4. Failed(k).state = "ERROR"
    BY <1>1 DEF Failed, ConnectionRecord
  <2> QED BY <2>2, <2>3, <2>4
<1>4. CASE Becomes(c, k) \/ Becomes(c, Failed(k)) \/ \E n : Becomes(c, Received(k, n))
  BY <1>2, <1>3, <1>4
<1>5. ASSUME NEW ssl \in SslState, Becomes(c, WithSsl(TunnelOpen(k), ssl))
      PROVE  TunnelFits(conn'[c], wire'[c])
  BY <1>2, <1>3, <1>5
<1> QED BY <1>4, <1>5 DEF AwaitingTunnel, TunnelRecv

\* Every call of handle_ready_connection keeps its attempt in order.
LEMMA HandleInOrder ==
    ASSUME Core, AttemptsInOrder, TunnelsInOrder, Handle
    PROVE  AttemptsInOrder' /\ TunnelsInOrder'
<1>1. PICK c \in Conns : c = i
  BY HandleOwned
<1>2. /\ Waits(c) /\ Settled(c) /\ InOrder(c) /\ TunnelFits(conn[c], wire[c])
      /\ conn \in [Conns -> ConnectionRecord]
  BY <1>1, HandleOwned, HandleSettles, AllInOrder, AllTunnels, CoreTypes
<1>3. /\ ctx => ctx'
      /\ \A d \in Conns \ {c} : conn'[d] = conn[d] /\ wire'[d] = wire[d]
  BY <1>2 DEF Settled, OnWireOf, KeepsContext, Becomes
<1> SUFFICES InOrder(c)' /\ TunnelFits(conn'[c], wire'[c])
  BY <1>3, AllTunnels, OthersInOrder
<1>4. CASE HandleError \/ HandleIgnored
  <2>1. (Dropped(c) \/ Erroneous(c)) /\ KeepsContext
    BY <1>1, <1>2, <1>4 DEF HandleError, HandleIgnored, Settled
  <2>2. InOrder(c)'
    BY <1>2, <2>1, DroppedInOrder DEF Dropped, Erroneous
  <2>3. /\ wire' = wire
        /\ conn'[c] = conn[c] \/ conn'[c].state = "ERROR"
    <3>1. Failed(conn[c]).state = "ERROR"
      BY <1>2 DEF Failed, ConnectionRecord
    <3> QED BY <1>2, <2>1, <3>1 DEF Dropped, Erroneous, Becomes
  <2> QED BY <1>2, <2>2, <2>3 DEF TunnelFits
<1>5. CASE HandleConnecting
  <2>1. conn[c].state = "CONNECTING" /\ Connecting(c)
    BY <1>1, <1>5 DEF HandleConnecting, Handling
  <2> QED BY <1>2, <2>1, ConnectingInOrder, ConnectingTunnel
<1>6. CASE HandleProxyConnect
  <2>1. conn[c].state = "PROXY_CONNECT"
    BY <1>1, <1>6 DEF HandleProxyConnect, Handling
  <2>2. CASE Erroneous(c)
    <3>1. InOrder(c)' /\ wire' = wire
      BY <1>2, <2>2, DroppedInOrder DEF Erroneous, Settled
    <3>2. conn'[c].state = "ERROR"
      BY <1>2, <2>2 DEF Erroneous, Becomes, Failed, ConnectionRecord
    <3> QED BY <3>1, <3>2 DEF TunnelFits
  <2>3. CASE \E n \in SendResults(Fd(c), ConnectLen - conn[c].bytes_sent) :
                TunnelChunk(c, n) /\ Becomes(c, TunnelSent(conn[c], n))
    BY <1>2, <2>1, <2>3, ProxyConnectInOrder
  <2> QED BY <1>1, <1>6, <2>2, <2>3 DEF HandleProxyConnect
<1>7. CASE HandleProxyResponse
  <2>1. conn[c].state = "PROXY_RESPONSE" /\ AwaitingTunnel(c)
    BY <1>1, <1>7 DEF HandleProxyResponse, Handling
  <2> QED BY <1>2, <2>1, AwaitingTunnelInOrder, AwaitingTunnelTunnel
<1>8. CASE HandleHandshake
  <2>1. conn[c].state = "TLS_HANDSHAKE" /\ conn[c].ssl # "NULL" /\ Handshaking(c)
    BY <1>1, <1>8 DEF HandleHandshake, Handling
  <2> QED BY <1>2, <2>1, HandshakingInOrder, PastTunnel DEF TunnelFits, Over
<1>9. CASE HandleSending
  <2>1. conn[c].state = "SENDING" /\ Sending(c)
    BY <1>1, <1>9 DEF HandleSending, Handling
  <2> QED BY <1>2, <2>1, SendingInOrder, PastTunnel DEF TunnelFits, Over
<1>10. CASE HandleReceiving
  <2>1. conn[c].state = "RECEIVING" /\ Receiving(c)
    BY <1>1, <1>10 DEF HandleReceiving, Handling
  <2> QED BY <1>2, <2>1, ReceivingInOrder, PastTunnel DEF TunnelFits, Over
<1> QED BY <1>4, <1>5, <1>6, <1>7, <1>8, <1>9, <1>10 DEF Handle
\* free_ssl_lib runs when every connection has been cleaned up.
LEMMA ReportInOrder ==
    ASSUME Core, AttemptsInOrder, CleanedUp, ReportConnection
    PROVE  AttemptsInOrder' /\ CleanedUp'
<1>1. /\ i \in Conns /\ i' = i + 1 /\ wire' = wire /\ Owned
      /\ conn'[i] = Cleaned(conn[i]) /\ \A c \in Conns \ {i} : conn'[c] = conn[c]
      /\ ctx' = (ctx /\ i + 1 # NumConnections)
      /\ phase' = IF i + 1 = NumConnections THEN "done" ELSE "report"
      /\ \A c \in Conns : c < i => conn[c].state = "IDLE"
  BY CoreTypes DEF ReportConnection, Becomes, LastOr, CleanedUp, historyVars
<1>2. AttemptsInOrder' /\ \A c \in Conns : c < i + 1 => conn'[c].state = "IDLE"
  BY <1>1, ReportedInOrder
<1> QED BY <1>1, <1>2 DEF CleanedUp

\* The order of the tunnels, over the steps that belong to no handler.
LEMMA OthersTunnels ==
    ASSUME TunnelsInOrder, NEW c \in Conns,
           \A d \in Conns \ {c} : conn'[d] = conn[d] /\ wire'[d] = wire[d],
           \/ conn'[c].state = "IDLE"
           \/ conn'[c].state = "CONNECTING" /\ wire'[c] = NothingSent
    PROVE  TunnelsInOrder'
<1>1. TunnelFits(conn'[c], wire'[c])
  BY DEF TunnelFits, NothingSent
<1> QED BY <1>1, AllTunnels

LEMMA NextInOrder ==
    ASSUME Core, AttemptsInOrder, TunnelsInOrder, CleanedUp, [Next]_vars
    PROVE  AttemptsInOrder' /\ TunnelsInOrder' /\ CleanedUp'
<1>0. HandlersTypeOK /\ conn \in [Conns -> ConnectionRecord] /\ Owned
  BY CoreTypes
<1>1. CASE InitConnection
  <2>1. i \in Conns /\ conn[i] = Fresh /\ FirstDial(i) /\ phase' \in {"init", "start"}
    BY <1>1, CoreTypes DEF InitConnection, LastOr, Core, Bookkeeping, Conns
  <2>2. /\ \A d \in Conns \ {i} : conn'[d] = conn[d] /\ wire'[d] = wire[d]
        /\ conn'[i].state \in {"IDLE", "CONNECTING"} /\ wire'[i] = NothingSent
    BY <1>0, <2>1, FirstDialOwned DEF FirstDial, NewAttempt, HandlersTypeOK
  <2>3. AttemptsInOrder'
    BY <1>0, <2>1, FirstDialInOrder
  <2>4. TunnelsInOrder'
    BY <2>1, <2>2, OthersTunnels
  <2> QED BY <2>1, <2>3, <2>4 DEF CleanedUp
<1>2. CASE SetupRestart
  <2>1. /\ i \in Conns /\ conn[i].state \in Over /\ Redialled(i)
        /\ phase' \notin {"report", "done"}
    BY <1>2, CoreTypes DEF SetupRestart, NextSetup, LastOr
  <2>2. /\ \A d \in Conns \ {i} : conn'[d] = conn[d] /\ wire'[d] = wire[d]
        /\ conn'[i].state \in {"IDLE", "CONNECTING"} /\ wire'[i] = NothingSent
    BY <1>0, <2>1, RedialledOwned DEF Redialled, NewAttempt, HandlersTypeOK
  <2>3. AttemptsInOrder'
    BY <1>0, <2>1, RedialledInOrder
  <2>4. TunnelsInOrder'
    BY <2>1, <2>2, OthersTunnels
  <2> QED BY <2>1, <2>3, <2>4 DEF CleanedUp
<1>3. CASE Handle
  <2>1. phase' \notin {"report", "done"}
    BY <1>3, HandleSettles DEF Handled, NextHandle, LastOr
  <2> QED BY <1>3, <2>1, HandleInOrder DEF CleanedUp
<1>4. CASE ReportConnection
  <2>1. i \in Conns /\ wire' = wire /\ conn[i] \in ConnectionRecord
        /\ conn' = [conn EXCEPT ![i] = Cleaned(conn[i])]
    BY <1>0, <1>4, CoreTypes DEF ReportConnection, Becomes, historyVars
  <2>2. TunnelsInOrder'
    BY <1>0, <2>1, CleanedOps, OthersTunnels
  <2> QED BY <1>4, <2>2, ReportInOrder
<1>5. CASE /\ UNCHANGED <<conn, ctx, wire>>
           /\ \/ phase' \notin {"report", "done"}
              \/ phase' = "report" /\ i' = 0
              \/ UNCHANGED <<phase, i>>
  <2>1. \A c \in Conns : ~(c < 0)
    BY DEF Conns
  <2>2. TunnelsInOrder'
    BY <1>5, AllTunnels
  <2> QED BY <1>5, <2>1, <2>2, QuietInOrder DEF CleanedUp
<1> QED
  BY <1>1, <1>2, <1>3, <1>4, <1>5
     DEF Next, Bench, Terminated, vars, handlerVars, historyVars, loopVars, Start, LoopHead,
         AfterHead, SetupIdle, SetupWaiting, SetupFails, NextSetup, LastOr, Poll, PollFails,
         HandleUnmarked, NextHandle, SigPipe, Tick, Network, PeerActs

-----------------------------------------------------------------------------
(* The buffer and the counted bytes.                                        *)

LEMMA HandleAnswersFit ==
    ASSUME Core, AnswersFitBuffer, Handle
    PROVE  AnswersFitBuffer'
<1>1. PICK c \in Conns : c = i
  BY HandleOwned
<1>2. /\ Waits(c) /\ AnswersFit(conn[c]) /\ conn[c] \in ConnectionRecord
      /\ \A m : Becomes(c, m) => conn'[c] = m
      /\ \A d \in Conns \ {c} : conn'[d] = conn[d]
  BY <1>1, HandleOwned, AllAnswersFit, CoreTypes DEF Becomes
<1>3. CASE HandleProxyConnect
  <2>1. ASSUME NEW n \in Int PROVE AnswersFit(TunnelSent(conn[c], n))
    <3> DEFINE sent == conn[c].bytes_sent + n
               halfway == [conn[c] EXCEPT !.bytes_sent = sent]
               done == [conn[c] EXCEPT !.state = "PROXY_RESPONSE", !.bytes_sent = 0]
    <3>1. sent \in Int
      BY <1>2 DEF ConnectionRecord
    <3>2. TunnelSent(conn[c], n) \in {Failed(conn[c]), halfway, done}
      BY <1>2 DEF TunnelSent
    <3> HIDE DEF sent
    <3>3. AnswersFit(Failed(conn[c])) /\ AnswersFit(halfway) /\ AnswersFit(done)
      BY <1>2, <3>1, AnswerOps
    <3> HIDE DEF halfway, done
    <3> QED BY <3>2, <3>3
  <2>2. Erroneous(c) \/ \E n \in Int : Becomes(c, TunnelSent(conn[c], n))
    BY <1>1, <1>2, <1>3, WaitsTypes DEF HandleProxyConnect, SendResults
  <2>3. AnswersFit(conn'[c])
    BY <1>2, <2>1, <2>2, CasesAnswersFit
  <2> QED BY <1>2, <2>3, CoreTypes, AnswersFitBy
<1>4. CASE ~HandleProxyConnect
  <2>1. AnswersFit(conn'[c])
    BY <1>1, <1>2, <1>4, CasesAnswersFit
       DEF Handle, HandleError, HandleIgnored, HandleConnecting, HandleProxyResponse,
           HandleHandshake, HandleSending, HandleReceiving
  <2> QED BY <1>2, <2>1, CoreTypes, AnswersFitBy
<1> QED BY <1>3, <1>4

LEMMA NextAnswersFit ==
    ASSUME Core, AnswersFitBuffer, [Next]_vars
    PROVE  AnswersFitBuffer'
<1>1. CASE InitConnection \/ SetupRestart \/ ReportConnection
  <2>1. /\ i \in Conns /\ HandlersTypeOK
        /\ FirstDial(i) \/ Redialled(i) \/ Becomes(i, Cleaned(conn[i]))
    BY <1>1, CoreTypes DEF InitConnection, SetupRestart, ReportConnection
  <2>2. /\ \A d \in Conns \ {i} : conn'[d] = conn[d]
        /\ Becomes(i, Cleaned(conn[i])) => conn'[i] = Cleaned(conn[i])
    BY <2>1 DEF FirstDial, Redialled, Becomes, HandlersTypeOK
  <2> QED BY <2>1, <2>2, AnswersFitBy
<1>2. CASE Handle
  BY <1>2, HandleAnswersFit
<1>3. CASE UNCHANGED conn
  BY <1>3 DEF AnswersFitBuffer
<1> QED
  BY <1>1, <1>2, <1>3
     DEF Next, Bench, Terminated, vars, handlerVars, Start, LoopHead, SetupIdle, SetupWaiting,
         SetupFails, Poll, PollFails, HandleUnmarked, SigPipe, Tick, Network, PeerActs

-----------------------------------------------------------------------------
(* The sums of the report.                                                  *)

LEMMA ReportConnectionReported ==
    ASSUME Core, Reported, ReportConnection
    PROVE  Reported'
<1>1. PICK c \in Conns : c = i
  BY CoreTypes DEF ReportConnection
<1>2. /\ i' = c + 1 /\ phase' \in {"report", "done"}
      /\ conn \in [Conns -> ConnectionRecord]
      /\ conn'[c] = Cleaned(conn[c]) /\ \A d \in Conns \ {c} : conn'[d] = conn[d]
      /\ totals' = Added(totals, conn[c]) /\ totals = EarnedBy({d \in Conns : d < c})
  BY <1>1, CoreTypes DEF ReportConnection, Becomes, LastOr, Reported
<1>3. EarnedBy({d \in Conns : d < c + 1})' = totals'
  BY <1>2, EarnedAdds
<1> QED BY <1>2, <1>3 DEF Reported, EarnedBy

LEMMA NextReported ==
    ASSUME Core, Reported, [Next]_vars
    PROVE  Reported'
<1>1. CASE ReportConnection
  BY <1>1, ReportConnectionReported
<1>2. CASE /\ phase \notin {"report", "done", "exit"} /\ totals' = totals
           /\ phase' \notin {"report", "done"} \/ (phase' = "report" /\ i' = 0)
  <2>1. totals' = NoTotals
    BY <1>2 DEF Reported
  <2>2. EarnedBy({c \in Conns : c < 0})' = NoTotals
    BY EarnedByNobody
  <2> QED BY <1>2, <2>1, <2>2 DEF Reported, EarnedBy
<1>3. CASE phase' = "exit"
  BY <1>3 DEF Reported
<1>4. CASE UNCHANGED <<phase, i, conn, totals>>
  BY <1>4 DEF Reported, EarnedBy
<1>5. CASE Handle
  <2>1. Handled
    BY <1>5
       DEF Handle, HandleError, HandleConnecting, HandleProxyConnect, HandleProxyResponse,
           HandleHandshake, HandleSending, HandleReceiving, HandleIgnored, Handling
  <2>2. phase = "handle" /\ phase' \in {"loop", "handle"} /\ totals' = totals
    BY <2>1 DEF Handled, NextHandle, LastOr
  <2> QED BY <1>2, <2>2
<1> QED
  BY <1>1, <1>2, <1>3, <1>4, <1>5
     DEF Next, Bench, Terminated, vars, handlerVars, loopVars, InitConnection, Start, LoopHead,
         AfterHead, SetupIdle, SetupRestart, SetupWaiting, SetupFails, NextSetup, LastOr, Poll,
         PollFails, HandleUnmarked, NextHandle, SigPipe, Tick, Network, PeerActs

-----------------------------------------------------------------------------
(* The theorems.                                                            *)

LEMMA InitInductive == Init => Inductive
<1> SUFFICES ASSUME Init PROVE Inductive
  OBVIOUS
<1>1. AttemptsInOrder
  <2> SUFFICES ASSUME NEW c \in Conns PROVE InOrder(c)
    BY AllInOrder
  <2> QED BY FreshInOrder DEF Init, HandlersInit, InOrder
<1>2. TunnelsInOrder
  BY AllTunnels, FreshOps DEF Init, HandlersInit, TunnelFits
<1>3. CleanedUp
  BY DEF Init, CleanedUp
<1>4. Reported
  BY DEF Init, Reported
<1>5. AnswersFitBuffer
  BY FreshAnswersFit, AllAnswersFit DEF Init, HandlersInit
<1> QED BY <1>1, <1>2, <1>3, <1>4, <1>5, InitCore DEF Inductive

\* In every behaviour of bench_poll.c the inductive invariant holds.
THEOREM InductiveInvariant == Spec => []Inductive
<1>1. Init => Inductive
  BY InitInductive
<1>2. Inductive /\ [Next]_vars => Inductive'
  BY NextCore, NextInOrder, NextAnswersFit, NextReported DEF Inductive
<1> QED BY <1>1, <1>2, PTL DEF Spec

\* bench_poll neither leaks nor shares a descriptor.
THEOREM OwnershipTheorem == Spec => []DescriptorOwnership
<1>1. Inductive => DescriptorOwnership
  BY DEF Inductive, Core
<1> QED BY <1>1, InductiveInvariant, PTL

\* The second pass takes no connection's pollfd for another's, for any number of
\* clients and any width of a char.
THEOREM PairingTheorem == Spec => []PollPairing
<1>1. Inductive => PollPairing
  BY DEF Inductive, Core
<1> QED BY <1>1, InductiveInvariant, PTL

\* When bench_poll calls poll(), every connection that waits for its socket is among
\* the pollfds, but for those dialled anew in this very round.
THEOREM PolledTheorem == Spec => []WaitersPolled
<1>1. Inductive => WaitersPolled
  BY DEF Inductive, Core
<1> QED BY <1>1, InductiveInvariant, PTL

\* bench_poll awaits an answer only to a request that went out whole, each byte once.
THEOREM RequestTheorem == Spec => []RequestOnWire
<1>1. Inductive => RequestOnWire
  BY DEF Inductive, AttemptsInOrder
<1> QED BY <1>1, InductiveInvariant, PTL

\* bench_poll's TLS calls run over an object made for the current socket while the
\* global context exists.
THEOREM TlsTheorem == Spec => []TlsLifecycle
<1>1. Inductive => TlsLifecycle
  BY DEF Inductive, AttemptsInOrder
<1> QED BY <1>1, InductiveInvariant, PTL

\* No answer overruns received_response, and the bytes bench_poll counts are those
\* of its answers.
THEOREM AnswersTheorem == Spec => []AnswersFitBuffer
<1>1. Inductive => AnswersFitBuffer
  BY DEF Inductive
<1> QED BY <1>1, InductiveInvariant, PTL

\* bench_poll awaits the proxy's answer only when the CONNECT request went out whole.
THEOREM TunnelTheorem == Spec => []TunnelRequestWhole
<1>1. Inductive => TunnelRequestWhole
  BY DEF Inductive, TunnelsInOrder
<1> QED BY <1>1, InductiveInvariant, PTL

\* When bench_poll ends regularly it has reported the sum over all clients, closed
\* every socket and freed every TLS object and the context.
THEOREM ReportTheorem ==
    Spec => [](phase = "done" =>
                 /\ totals = Earned
                 /\ open = {} /\ ~ctx /\ \A c \in Conns : conn[c].ssl = "NULL")
<1>1. ASSUME Inductive, phase = "done"
      PROVE  /\ totals = Earned
             /\ open = {} /\ ~ctx /\ \A c \in Conns : conn[c].ssl = "NULL"
  <2>1. ~ctx /\ i = NumConnections /\ \A c \in Conns : conn[c].state = "IDLE"
    BY <1>1, ConnsNonEmpty DEF Inductive, CleanedUp, Conns
  <2>2. {c \in Conns : c < i} = Conns
    BY <2>1, ConnsNonEmpty DEF Conns
  <2>3. totals = Earned
    BY <1>1, <2>2 DEF Inductive, Reported, Earned
  <2> QED BY <1>1, <2>1, <2>3
          DEF Inductive, Core, DescriptorOwnership, AttemptsInOrder, TlsLifecycle, Over
<1> QED BY <1>1, InductiveInvariant, PTL

-----------------------------------------------------------------------------
(* The refinement: the initial state maps to the abstract one, every step  *)
(* to an abstract step or a stutter.                                       *)

\* The clients' slots, counts and report as functions of the poll bench's state.
SlotMap == [c \in Conns |-> Slot(c)]
CountMap == [c \in Conns |-> [good |-> conn[c].speed, bad |-> conn[c].failed]]
ClosedMap == IF phase \in {"report", "done"} THEN 0 .. i - 1 ELSE {}
TotalMap == IF phase = "exit" THEN [good |-> 0, bad |-> 0]
            ELSE [good |-> totals.speed, bad |-> totals.failed]

LEMMA InitRefines == Init => Promise!ClientsInit
BY DEF Init, HandlersInit, NoTotals, Promise!ClientsInit, Promise!NoCount, Stage, Slot, Fresh

\* A step that changes no connection, no total and no stage is a stutter.
LEMMA Stutter ==
    ASSUME Core, conn' = conn, totals' = totals, ClosedMap' = ClosedMap,
           Stage' = Stage, phase' = "exit" <=> phase = "exit"
    PROVE  UNCHANGED Promise!clientVars
BY DEF Promise!clientVars, Slot, ClosedMap, TotalMap

\* So is every step from one place of the bench's loop to another.
LEMMA RoundStutter ==
    ASSUME Core, UNCHANGED handlerVars, totals' = totals,
           phase \in {"loop", "setup", "poll", "handle"},
           phase' \in {"loop", "setup", "poll", "handle"}
    PROVE  UNCHANGED Promise!clientVars
BY Stutter DEF handlerVars, ClosedMap, Stage

\* SIGPIPE at any stage discards the report.
LEMMA ExitRefines ==
    ASSUME Core, conn' = conn, phase # "exit", phase' = "exit"
    PROVE  Promise!Abort
BY CoreTypes DEF Promise!Abort, Promise!NoCount, Stage, Slot, Phases

\* Every client has been dialled, or the loop ended: the next stage begins.
LEMMA AdvanceRefines ==
    ASSUME Core, UNCHANGED handlerVars, totals' = totals,
           \/ phase = "start" /\ phase' = "loop"
           \/ phase \in {"loop", "poll"} /\ phase' = "report" /\ i' = 0
    PROVE  Promise!Advance
BY DEF handlerVars, Promise!Advance, Stage, Slot

\* The abstract state when one connection changes, by that connection alone.
LEMMA OneSlot ==
    ASSUME Core, NEW c \in Conns, \A d \in Conns \ {c} : conn'[d] = conn[d]
    PROVE  /\ SlotMap' = [SlotMap EXCEPT ![c] = Slot(c)']
           /\ CountMap' = [CountMap EXCEPT ![c] = [good |-> conn'[c].speed,
                                                   bad |-> conn'[c].failed]]
BY DEF SlotMap, CountMap, Slot

\* The counts of a connection that has counted nothing.
LEMMA SameCount ==
    ASSUME Core, NEW c \in Conns, \A d \in Conns \ {c} : conn'[d] = conn[d],
           conn'[c].speed = conn[c].speed, conn'[c].failed = conn[c].failed
    PROVE  CountMap' = CountMap
BY DEF CountMap

LEMMA InitConnectionRefines ==
    ASSUME Core, InitConnection
    PROVE  (\E c \in Conns : Promise!Dial(c)) \/ UNCHANGED Promise!clientVars
<1>1. /\ i \in Conns /\ conn[i] = Fresh /\ phase = "init" /\ phase' \in {"init", "start"}
      /\ totals' = totals
  BY CoreTypes DEF InitConnection, LastOr, Core, Bookkeeping, Conns
<1>2. /\ \A d \in Conns \ {i} : conn'[d] = conn[d]
      /\ conn'[i].state \in {"IDLE", "CONNECTING"}
      /\ conn'[i].speed = conn[i].speed /\ conn'[i].failed = conn[i].failed
      /\ conn[i].state = "IDLE"
  BY <1>1, CoreTypes, FirstDialOwned DEF InitConnection, Fresh
<1>3. Stage = "starting" /\ Stage' = "starting" /\ ClosedMap = {} /\ ClosedMap' = {}
  BY <1>1 DEF Stage, ClosedMap
<1>4. CountMap' = CountMap /\ TotalMap' = TotalMap
  BY <1>1, <1>2, SameCount DEF TotalMap
<1>5. CASE conn'[i].state = "IDLE"
  <2>1. SlotMap' = SlotMap
    BY <1>1, <1>2, <1>5 DEF SlotMap, Slot
  <2> QED BY <1>3, <1>4, <2>1 DEF Promise!clientVars, SlotMap, CountMap, ClosedMap, TotalMap
<1>6. CASE conn'[i].state = "CONNECTING"
  <2>1. SlotMap[i] = "free" /\ SlotMap' = [SlotMap EXCEPT ![i] = "busy"]
    BY <1>1, <1>2, <1>6 DEF SlotMap, Slot, Over
  <2>2. Promise!Dial(i)
    BY <1>1, <1>3, <1>4, <2>1 DEF Promise!Dial, SlotMap, CountMap, ClosedMap, TotalMap
  <2> QED BY <1>1, <2>2
<1> QED BY <1>2, <1>5, <1>6

LEMMA RestartRefines ==
    ASSUME Core, SetupRestart
    PROVE  i \in Conns /\ Promise!Redial(i)
<1>1. /\ i \in Conns /\ conn[i].state \in Over /\ phase = "setup"
      /\ phase' \in {"setup", "loop", "poll"} /\ totals' = totals
  BY CoreTypes DEF SetupRestart, NextSetup, LastOr
<1>2. /\ \A d \in Conns \ {i} : conn'[d] = conn[d]
      /\ conn'[i].state \in {"IDLE", "CONNECTING"}
      /\ conn'[i].speed = conn[i].speed /\ conn'[i].failed = conn[i].failed
  BY <1>1, CoreTypes, RedialledOwned DEF SetupRestart
<1>3. \E s \in {"busy", "free"} : SlotMap' = [SlotMap EXCEPT ![i] = s]
  BY <1>1, <1>2, OneSlot DEF Slot, Over
<1>4. SlotMap[i] = "over"
  BY <1>1 DEF SlotMap, Slot, Over
<1>5. CountMap' = CountMap /\ TotalMap' = TotalMap
  BY <1>1, <1>2, SameCount DEF TotalMap
<1>6. Stage = "running" /\ Stage' = "running" /\ ClosedMap = {} /\ ClosedMap' = {}
  BY <1>1 DEF Stage, ClosedMap
<1> QED BY <1>1, <1>3, <1>4, <1>5, <1>6
        DEF Promise!Redial, SlotMap, CountMap, ClosedMap, TotalMap

LEMMA HandleRefines ==
    ASSUME Core, NEW c \in Conns, c = i, Handle
    PROVE  Promise!Settle(c) \/ UNCHANGED Promise!clientVars
<1>1. /\ phase = "handle" /\ phase' \in {"loop", "handle"} /\ totals' = totals
  BY HandleSettles DEF Handled, NextHandle, LastOr
<1>2. /\ conn[c].state \in Waiting /\ Forced \in BOOLEAN
      /\ Outcome(conn[c], conn'[c]) /\ \A d \in Conns \ {c} : conn'[d] = conn[d]
  BY HandleOwned, WaitsTypes, ConnectionAssumption
<1>3. Stage = "running" /\ Stage' = "running" /\ ClosedMap = {} /\ ClosedMap' = {}
      /\ TotalMap' = TotalMap
  BY <1>1 DEF Stage, ClosedMap, TotalMap
<1>4. SlotMap[c] = "busy"
  BY <1>2 DEF SlotMap, Slot, Waiting, Over
<1>5. CASE conn'[c].state \in Waiting /\ conn'[c].speed = conn[c].speed
           /\ conn'[c].failed = conn[c].failed
  <2>1. SlotMap' = SlotMap
    BY <1>2, <1>5 DEF SlotMap, Slot, Waiting, Over
  <2>2. CountMap' = CountMap
    BY <1>2, <1>5, SameCount
  <2> QED BY <1>2, <1>3, <2>1, <2>2
          DEF Promise!clientVars, SlotMap, CountMap, ClosedMap, TotalMap
<1>6. CASE conn'[c].state \in Over
  <2>1. SlotMap' = [SlotMap EXCEPT ![c] = "over"]
    BY <1>2, <1>6, OneSlot DEF Slot, Over
  <2>2. \/ CountMap' = [CountMap EXCEPT ![c].bad = @ + 1]
        \/ CountMap' = IF Forced THEN CountMap ELSE [CountMap EXCEPT ![c].good = @ + 1]
    <3>1. CASE conn'[c].state = "ERROR" /\ conn'[c].speed = conn[c].speed
               /\ conn'[c].failed = conn[c].failed + 1
      BY <1>2, <3>1 DEF CountMap
    <3>2. CASE conn'[c].state = "COMPLETED" /\ conn'[c].failed = conn[c].failed
               /\ conn'[c].speed = conn[c].speed /\ Forced
      BY <1>2, <3>2, SameCount
    <3>3. CASE conn'[c].state = "COMPLETED" /\ conn'[c].failed = conn[c].failed
               /\ conn'[c].speed = conn[c].speed + 1 /\ ~Forced
      BY <1>2, <3>3 DEF CountMap
    <3> QED BY <1>2, <1>6, <3>1, <3>2, <3>3 DEF Outcome, Over, Waiting
  <2>3. Promise!Settle(c)
    BY <1>2, <1>3, <1>4, <2>1, <2>2
       DEF Promise!Settle, SlotMap, CountMap, ClosedMap, TotalMap
  <2> QED BY <2>3
<1> QED BY <1>2, <1>5, <1>6 DEF Outcome, Waiting, Over

LEMMA ReportRefines ==
    ASSUME Core, ReportConnection
    PROVE  i \in Conns /\ Promise!Close(i)
<1>1. /\ i \in Conns /\ phase = "report" /\ phase' \in {"report", "done"}
      /\ i' = i + 1 /\ i \in Nat
      /\ totals'.speed = totals.speed + conn[i].speed
      /\ totals'.failed = totals.failed + conn[i].failed
      /\ conn[i] \in ConnectionRecord
  BY CoreTypes DEF ReportConnection, LastOr, Added
<1>2. /\ \A d \in Conns \ {i} : conn'[d] = conn[d]
      /\ conn'[i] = Cleaned(conn[i])
  <2>1. ctx' \in BOOLEAN
    BY DEF ReportConnection
  <2> QED BY <1>1, <2>1, CoreTypes, ReportedOwned DEF ReportConnection
<1>3. /\ conn'[i].state = "IDLE"
      /\ conn'[i].speed = conn[i].speed /\ conn'[i].failed = conn[i].failed
  BY <1>1, <1>2 DEF Cleaned, ConnectionRecord
<1>4. Stage = "closing" /\ Stage' = "closing"
  BY <1>1 DEF Stage
<1>5. SlotMap' = [SlotMap EXCEPT ![i] = "free"]
  BY <1>1, <1>2, <1>3, OneSlot DEF Slot
<1>6. CountMap' = CountMap
  BY <1>1, <1>2, <1>3, SameCount
<1>7. i \notin ClosedMap /\ ClosedMap' = ClosedMap \cup {i}
  BY <1>1 DEF ClosedMap
<1>8. TotalMap' = [good |-> TotalMap.good + CountMap[i].good, bad |-> TotalMap.bad + CountMap[i].bad]
  BY <1>1 DEF TotalMap, CountMap
<1> QED BY <1>1, <1>4, <1>5, <1>6, <1>7, <1>8
        DEF Promise!Close, SlotMap, CountMap, ClosedMap, TotalMap

LEMMA StepRefines == Core /\ [Next]_vars => [Promise!ClientsNext]_(Promise!clientVars)
<1> SUFFICES ASSUME Core, [Next]_vars
             PROVE  Promise!ClientsNext \/ UNCHANGED Promise!clientVars
  OBVIOUS
<1>1. CASE InitConnection
  BY <1>1, InitConnectionRefines DEF Promise!ClientsNext
<1>2. CASE Start
  BY <1>2, AdvanceRefines DEF Start, Promise!ClientsNext
<1>3. CASE LoopHead
  <2>1. CASE phase' = "report"
    BY <1>3, <2>1, AdvanceRefines DEF LoopHead, Promise!ClientsNext
  <2>2. CASE phase' \in {"loop", "setup"}
    BY <1>3, <2>2, RoundStutter DEF LoopHead
  <2> QED BY <1>3, <2>1, <2>2 DEF LoopHead, AfterHead
<1>4. CASE SetupIdle
  BY <1>4, RoundStutter DEF SetupIdle, NextSetup, LastOr
<1>5. CASE SetupRestart
  BY <1>5, RestartRefines DEF Promise!ClientsNext
<1>6. CASE SetupWaiting
  BY <1>6, RoundStutter DEF SetupWaiting, NextSetup, LastOr
<1>7. CASE SetupFails
  BY <1>7, RoundStutter DEF SetupFails
<1>8. CASE Poll
  BY <1>8, RoundStutter DEF Poll
<1>9. CASE PollFails
  BY <1>9, AdvanceRefines DEF PollFails, Promise!ClientsNext
<1>10. CASE HandleUnmarked
  BY <1>10, RoundStutter DEF HandleUnmarked, NextHandle, LastOr
<1>11. CASE Handle
  <2>1. PICK c \in Conns : c = i
    BY <1>11, HandleOwned
  <2>2. Promise!Settle(c) \/ UNCHANGED Promise!clientVars
    BY <1>11, <2>1, HandleRefines
  <2> QED BY <2>2 DEF Promise!ClientsNext
<1>12. CASE SigPipe
  BY <1>12, ExitRefines DEF SigPipe, Writing, handlerVars, Promise!ClientsNext
<1>13. CASE ReportConnection
  BY <1>13, ReportRefines DEF Promise!ClientsNext
<1>14. ASSUME NEW c \in Conns, Network(c)
       PROVE  UNCHANGED Promise!clientVars
  BY <1>14, Stutter DEF Network, PeerActs, loopVars, Stage, ClosedMap
<1>15. CASE Tick
  BY <1>15, Stutter DEF Tick, loopVars, handlerVars, Stage, ClosedMap
<1>16. CASE UNCHANGED vars
  BY <1>16, Stutter DEF vars, loopVars, handlerVars, Stage, ClosedMap
<1> QED
  BY <1>1, <1>2, <1>3, <1>4, <1>5, <1>6, <1>7, <1>8, <1>9, <1>10, <1>11, <1>12, <1>13,
     <1>14, <1>15, <1>16 DEF Next, Bench, Terminated

\* bench_poll settles every attempt of a client by exactly one count, never
\* revives a client it could not dial, and reports every client exactly once.
THEOREM Implementation == Spec => ImplementsClients
<1>1. Init => Promise!ClientsInit
  BY InitRefines
<1>2. Core /\ [Next]_vars => [Promise!ClientsNext]_(Promise!clientVars)
  BY StepRefines
<1>3. Spec => []Core
  BY InductiveInvariant, PTL DEF Inductive
<1> QED BY <1>1, <1>2, <1>3, PTL DEF Spec, ImplementsClients, Promise!ClientsSpec

-----------------------------------------------------------------------------
(* The rounds that are given up.                                            *)

\* With room for every connection in what set_bitmap is told, it finds each position.
LEMMA RoomForAll ==
    ASSUME AttemptsInOrder, ~Https \/ NumConnections <= PointerBytes * CharBits, NEW c \in Conns
    PROVE  InBitmap(c, SizePassed(conn[c].state))
<1>1. CASE conn[c].state = "TLS_HANDSHAKE"
  <2>1. NumConnections <= PointerBytes * CharBits
    BY <1>1 DEF AttemptsInOrder
  <2>2. PointerBytes * CharBits \in Nat
    BY BenchPollAssumption, BitmapAssumption
  <2>3. c \in Nat /\ c < NumConnections /\ NumConnections \in Nat
    BY ConnsNonEmpty DEF Conns
  <2> QED BY <1>1, <2>1, <2>2, <2>3, SizeCovers DEF InBitmap, SizePassed
<1>2. CASE conn[c].state # "TLS_HANDSHAKE"
  BY <1>2, SizeCovers DEF SizePassed
<1> QED BY <1>1, <1>2

\* As long as set_bitmap is told a size with room for every connection - without TLS, or
\* with no more connections than a pointer has bits - a round of bench_poll that has begun
\* goes round without a poll only when nobody waits but the clients dialled anew in it.
THEOREM RoundTheorem ==
    ~Https \/ NumConnections <= PointerBytes * CharBits => (Spec => RoundsPolled)
<1> SUFFICES ASSUME ~Https \/ NumConnections <= PointerBytes * CharBits
             PROVE  Spec => RoundsPolled
  OBVIOUS
<1>1. ASSUME Inductive, [Next]_vars
      PROVE  [phase = "setup" /\ phase' = "loop" =>
                \A c \in Conns : conn'[c].state \in Waiting => c \in restarted']_vars
  <2> SUFFICES ASSUME phase = "setup", phase' = "loop"
               PROVE  \A c \in Conns : conn'[c].state \in Waiting => c \in restarted'
    OBVIOUS
  <2>1. Core /\ i \in Conns
    BY <1>1, CoreTypes DEF Inductive
  <2>2. InBitmap(i, SizePassed(conn[i].state))
    BY <1>1, <2>1, RoomForAll DEF Inductive
  <2>3. ~SetupFails
    BY <2>2 DEF SetupFails
  <2>4. ~SetupWaiting
    <3> SUFFICES ASSUME SetupWaiting PROVE FALSE
      OBVIOUS
    <3>1. pollfds \in Seq(PollFd) /\ pollfds' = Append(pollfds, Entry(i))
      BY <1>1, CoreTypes DEF Inductive, SetupWaiting
    <3>2. pollfds' # <<>>
      BY <3>1
    <3> QED BY <3>2 DEF SetupWaiting, NextSetup, LastOr
  <2>5. ASSUME Built(i)', NextSetup(pollfds), pollfds' = pollfds
        PROVE  \A c \in Conns : conn'[c].state \in Waiting => c \in restarted'
    <3>1. i + 1 = NumConnections /\ i' = i + 1 /\ pollfds' = <<>>
      BY <2>5 DEF NextSetup, LastOr
    <3>2. MarkedConns' = {}
      <4>1. Cardinality(MarkedConns') = 0 /\ IsFiniteSet(MarkedConns')
        BY <2>5, <3>1, ConnsFinite, FS_Subset DEF Built, MarkedConns
      <4> QED BY <4>1, FS_EmptySet
    <3>3. \A c \in Conns : c < i'
      BY <3>1, ConnsNonEmpty DEF Conns
    <3> QED BY <2>5, <3>2, <3>3 DEF Built, Polled, MarkedConns
  <2>6. CASE SetupIdle
    BY <2>1, <2>5, <2>6, SetupIdleBuilt DEF SetupIdle
  <2>7. CASE SetupRestart
    BY <2>1, <2>5, <2>7, SetupRestartBuilt DEF SetupRestart
  <2>8. ~Handle
    BY DEF Handle, Handled, HandleError, HandleConnecting, HandleProxyConnect,
           HandleProxyResponse, HandleHandshake, HandleSending, HandleReceiving,
           HandleIgnored, Handling
  <2>9. /\ ~InitConnection /\ ~Start /\ ~LoopHead /\ ~Poll /\ ~PollFails /\ ~HandleUnmarked
        /\ ~ReportConnection /\ ~Terminated /\ ~SigPipe
    BY DEF InitConnection, Start, LoopHead, Poll, PollFails, HandleUnmarked, ReportConnection,
           Terminated, SigPipe
  <2>10. ~Tick /\ ~(UNCHANGED vars) /\ \A c \in Conns : ~Network(c)
    BY DEF Tick, Network, vars, loopVars
  <2> QED BY <1>1, <2>3, <2>4, <2>6, <2>7, <2>8, <2>9, <2>10 DEF Next, Bench
<1> QED BY <1>1, InductiveInvariant, PTL DEF Spec, RoundsPolled
=============================================================================
