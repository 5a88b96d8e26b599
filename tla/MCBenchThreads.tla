--------------------------- MODULE MCBenchThreads ---------------------------
(* The threaded benches on small instances, each with some command lines.   *)
EXTENDS BenchThreads

CommandLine(https, forced, proxied, shared) ==
    [https |-> https, forced |-> forced, proxied |-> proxied, shared |-> shared]

Proxied == {CommandLine(TRUE, FALSE, TRUE, TRUE), CommandLine(FALSE, FALSE, TRUE, FALSE)}
Direct == {CommandLine(TRUE, TRUE, FALSE, FALSE), CommandLine(FALSE, FALSE, FALSE, TRUE)}
Several == Proxied \cup Direct
PlainOnly == {CommandLine(FALSE, FALSE, FALSE, FALSE)}
=============================================================================
