---------------------------- MODULE MCWebBench2 -----------------------------
\* The command lines TLC checks WebBench2 on: up to three words in any order, and
\* up to five of those that decide the version of HTTP.
EXTENDS WebBench2

Int20 == 1048576
Number(n) == [digits |-> TRUE, value |-> n]
NoNumber == [digits |-> FALSE, value |-> 0]

Empty == ""
Local == "127.0.0.1"
Names == {Empty, Local, "proxy", "target"}

Small == {NoNumber, Number(0), Number(5), Number(2 * Int20), Number(16 * Int20)}
NoPort == [colon |-> "none", number |-> NoNumber]
LastPort == [colon |-> "last", number |-> NoNumber]
PortOf(n) == [colon |-> "inside", number |-> n]

Options ==
    {[kind |-> f] : f \in Flags \ {"version", "http11", "trace"}}
    \cup {[kind |-> "clients", number |-> n] : n \in Small}
    \cup {[kind |-> "time", number |-> n] : n \in {Number(5), Number(Int20 + 7)}}
    \cup {[kind |-> "proxy", host |-> h, port |-> p] :
            h \in {Empty, "proxy"}, p \in {NoPort, LastPort, PortOf(Number(8080))}}
    \cup {[kind |-> "proxy", host |-> "proxy", port |-> PortOf(n)] :
            n \in {NoNumber, Number(-1), Number(70000), Number(16 * Int20)}}

Plain == [kind |-> "url", scheme |-> "http", bare |-> FALSE, host |-> "target",
          port |-> NoPort, late |-> FALSE, ends |-> TRUE, fits |-> TRUE,
          length |-> 20]

Urls ==
    {Plain, [Plain EXCEPT !.scheme = "other"], [Plain EXCEPT !.bare = TRUE, !.host = Empty],
     [Plain EXCEPT !.host = Empty], [Plain EXCEPT !.late = TRUE], [Plain EXCEPT !.port = LastPort]}
    \cup {[Plain EXCEPT !.scheme = "https", !.ends = e, !.length = l] :
            e \in BOOLEAN, l \in 1022 .. 1024}
    \cup {[Plain EXCEPT !.port = PortOf(n)] :
            n \in {NoNumber, Number(1), Number(12345), Number(70000)}}
    \cup {[Plain EXCEPT !.port = PortOf(n), !.fits = FALSE] :
            n \in {NoNumber, Number(5), Number(16 * Int20)}}

\* The words whose combination decides the version of HTTP.
Few == {[kind |-> f] : f \in {"http09", "http10", "head", "options", "reload"}}
       \cup {[kind |-> "proxy", host |-> "proxy", port |-> LastPort], Plain}

Words == Options \cup Urls
Lines == {<<>>} \cup [1 .. 1 -> Words] \cup [1 .. 2 -> Words] \cup [1 .. 3 -> Words]
         \cup [1 .. 4 -> Few] \cup [1 .. 5 -> Few]
=============================================================================
